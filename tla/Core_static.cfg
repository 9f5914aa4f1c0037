SPECIFICATION Spec
CONSTANTS
    l1 = l1
    l2 = l2
    s1 = s1
    s2 = s2
    s3 = s3
    Locals = {l1}
    Stages = {s1, s2}
    LocalOf <- Jobs_LocalOf
    JobOf <- Jobs_JobOf
    EnvOf <- Jobs_EnvOf
    JobOrder <- Jobs_ab
    Ops = {"read", "write"}
    FirstOp = "read"
    ControlType = "STATIC"
    maximum_limit = 12
    IOPS_THRESHOLD = 3
    COLLECT_ROUNDS = 2
    LeftoverRates = {3}
    Policies <- Limits_ops
    HousekeepingRate = 100
    MaxStarts = 2
    Failing = {l1, s1}
INVARIANTS
    DemandsEnforced
    LimitsComeFromRules
PROPERTIES
    StageHandled
    LostStageForgotten
CHECK_DEADLOCK FALSE
