SPECIFICATION Spec
CONSTANTS
    Work = {"w1", "w2"}
    Channels <- TheChannels
    From <- TheFrom
    Slots <- TheSlots
    Waiting = {"queue"}
    Faulting = {"peer"}
INVARIANTS
    Once
    ForAReason
PROPERTIES
    KeepsPromise
    Ends
    FaultEnds
CHECK_DEADLOCK FALSE
