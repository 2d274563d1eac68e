SPECIFICATION Spec
CONSTANTS
    Worker = {w1, w2, w3}
    Call = {1}
    Mode = {"plain", "answer", "supply"}
    MaxTurn = 1
    MaxUser = 0
SYMMETRY WorkerSymmetry
INVARIANTS
    QuietResume
    ModelSeesAnswers
PROPERTIES
    KeepsContract
CHECK_DEADLOCK FALSE
