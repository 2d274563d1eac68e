SPECIFICATION Spec
CONSTANTS
    Job = {j1}
    Worker = {w1, w2}
    Delivery = {d1, d2}
    Concurrency = 1
    MaxIncidents = 1
INVARIANTS
    PaidOnce
    FromJournal
PROPERTIES
    CloseEnds
    AnswerArrives
CHECK_DEADLOCK FALSE
