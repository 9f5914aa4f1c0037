SPECIFICATION SafetySpec
CONSTANTS
    l1 = l1
    l2 = l2
    s1 = s1
    s2 = s2
    s3 = s3
    Locals = {l1, l2}
    Stages = {s1, s2}
    LocalOf <- Pair_LocalOf
    JobOf <- Pair_JobOf
    EnvOf <- Twin_EnvOf
    JobOrder <- Jobs_ab
    Ops = {"meta"}
    FirstOp = "meta"
    ControlType = "DYNAMIC_LEFTOVER"
    maximum_limit = 12
    IOPS_THRESHOLD = 3
    COLLECT_ROUNDS = 2
    LeftoverRates = {3}
    Policies <- NoPolicies
    HousekeepingRate = 100
    MaxStarts = 2
    Failing = {l1, s1, s2}
INVARIANTS
    SessionsInStep
    ExitOnlyWhenIdle
CHECK_DEADLOCK FALSE
