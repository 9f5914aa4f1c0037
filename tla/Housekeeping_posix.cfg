SPECIFICATION Spec
CONSTANTS
    Files <- MCFiles
    Rates = {0}
INVARIANTS
    ConversionsInverse
CHECK_DEADLOCK FALSE
