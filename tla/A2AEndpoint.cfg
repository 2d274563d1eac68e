SPECIFICATION Spec
CONSTANTS
    Task = {"t1", "t2", "t3"}
    RequestOf <- TheRequests
    SessionOf <- TheSessions
    Workers = 2
INVARIANTS
    AckedOnce
    OneTurn
    Accounted
PROPERTIES
    Answered
    DrainEnds
CHECK_DEADLOCK FALSE
