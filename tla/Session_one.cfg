SPECIFICATION Spec
CONSTANTS
    Threads = {t1}
    MaxRequests = 4
INVARIANTS
    FifoPairing
    NoLostWakeup
PROPERTIES
    RequestsAnswered
    RemovalStopsThread
    ImplementsChannel
CHECK_DEADLOCK FALSE
