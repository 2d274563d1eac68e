SPECIFICATION Spec
CONSTANTS
    Worker = {w1, w2, w3}
    Call = {1}
    Mode = {"plain", "followUp", "chat", "supply"}
    MaxTurn = 1
    MaxUser = 1
PROPERTIES
    AnsweredOnce
CHECK_DEADLOCK FALSE
