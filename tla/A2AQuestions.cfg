SPECIFICATION QSpec
CONSTANTS
    Task = {"t1"}
    RequestOf <- TheRequests
    SessionOf <- TheSessions
    Workers = 1
    Asker = "t1"
    Question = {"q1", "q2"}
    Approval = {"q1"}
    Answer = {"m1", "m2"}
    AnswerOf <- TheAnswers
    Window = 2
INVARIANTS
    RightAnswer
PROPERTIES
    DrainEndsQuestions
    CancelEnds
CHECK_DEADLOCK FALSE
