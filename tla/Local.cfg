SPECIFICATION Spec
CONSTANTS
    s1 = s1
    s2 = s2
    NoStage = none
    OldStages = {old}
    MaxStages = 2
    Stages = {s1, s2}
    Refusing = {s2}
    Rules <- MCRules
INVARIANTS
    TypeOK
    AnnouncedHasRules
    ActiveCounted
    SessionHandedOver
    AnswersConsumed
    ExitAbandonsNoStage
    NoNullSession
    ManagedStageNeverKills
PROPERTIES
    ImplementsRegistry
    HandshakeEnds
    LostStageDropped
CHECK_DEADLOCK FALSE
