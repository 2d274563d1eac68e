--------------------------- MODULE MCA2AQuestions ---------------------------
(* TLC's instance of A2AQuestions: one run with two questions, of which the first has
   two answers to come. *)
EXTENDS A2AQuestions, TLC

TheRequests == [t \in Task |-> "r1"]
TheSessions == [t \in Task |-> "s1"]
TheAnswers == [m \in Answer |-> "q1"]
=============================================================================
