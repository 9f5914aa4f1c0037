SPECIFICATION SafetySpec
CONSTANTS
    l1 = l1
    l2 = l2
    s1 = s1
    s2 = s2
    s3 = s3
    Locals = {l1, l2}
    Stages = {s1, s2, s3}
    LocalOf <- Spread_LocalOf
    JobOf <- Spread_JobOf
    EnvOf <- Spread_EnvOf
    JobOrder <- Jobs_ab
    Ops = {"meta"}
    FirstOp = "meta"
    ControlType = "DYNAMIC_VANILLA"
    maximum_limit = 13
    IOPS_THRESHOLD = 2
    COLLECT_ROUNDS = 2
    LeftoverRates = {3}
    Policies <- Demand_a
    HousekeepingRate = 100
    MaxStarts = 1
    Failing = {l1, s1, s2, s3}
INVARIANTS
    TypeOK
    TrackersAgree
    LimitsAgree
    SystemLimitWithinThreshold
    TrackedLocalsHaveSessions
PROPERTIES
    OnlyLostStagesDropped
CHECK_DEADLOCK FALSE
