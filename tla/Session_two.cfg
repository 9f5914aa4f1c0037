SPECIFICATION SafetySpec
CONSTANTS
    Threads = {t1, t2}
    MaxRequests = 3
SYMMETRY Symmetry
INVARIANTS
    TypeOK
    ExactlyOnce
CHECK_DEADLOCK FALSE
