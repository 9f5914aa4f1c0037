SPECIFICATION Spec
CONSTANTS
    JobOrder <- Jobs_abc
    Demands <- MCDemands
    Usages <- MCUsages
    Limits = {3, 12, 20, 31}
    LeftoverLimit = 300
    Rounds = 3
INVARIANTS
    LimitDistributed
    NoJobBelowFairShare
    LaterJobNotWorse
    LeftoverWithinLimit
    LeftoverKeepsUsage
    UndefinedExplained
CHECK_DEADLOCK FALSE
