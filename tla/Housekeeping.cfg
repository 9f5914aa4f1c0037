SPECIFICATION Spec
CONSTANTS
    Files <- MCFiles
    Rates = {0, 1, 10, 1000}
INVARIANTS
    RulesArriveAsRead
    OperationsAgree
    RateSplitAmongChannels
    MissingTokensExplained
CHECK_DEADLOCK FALSE
