SPECIFICATION Spec
CONSTANTS
    Line = {"l1", "l2", "l3"}
    ThreadOf <- TheThreads
    PersonOf <- ThePeople
    Thread = {"a"}
    Workers = 1
    MaxCoal = 1
    MaxWait = 1
    MaxResumes = 1
    MaxTurns = 4
    MaxQuestions = 1
INVARIANTS
    OneTurn
    HeldByOne
    Backlog
PROPERTIES
    Answers
    AnswerUsed
CHECK_DEADLOCK FALSE
