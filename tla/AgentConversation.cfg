SPECIFICATION Spec
CONSTANTS
    Worker = {w1, w2}
    Call = {1, 2}
    Mode = {"plain", "followUp", "chat", "answer", "supply"}
    MaxTurn = 2
    MaxUser = 1
SYMMETRY WorkerSymmetry
INVARIANTS
    TypeOK
    NoRepeat
    StaysReadable
    CompletedHasAnswer
CHECK_DEADLOCK FALSE
