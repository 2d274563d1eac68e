--------------------------- MODULE MCA2AEndpoint ---------------------------
(* TLC's instance of A2AEndpoint: t2 repeats the request id of t1 in another
   conversation, t3 prompts t1's conversation under an id of its own. *)
EXTENDS A2AEndpoint, TLC

TheRequests == [t \in Task |-> IF t = "t3" THEN "r2" ELSE "r1"]
TheSessions == [t \in Task |-> IF t = "t2" THEN "s2" ELSE "s1"]
=============================================================================
