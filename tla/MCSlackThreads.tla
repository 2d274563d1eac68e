--------------------------- MODULE MCSlackThreads ---------------------------
(* TLC's instance of SlackThreads: one thread, in which ann speaks once and bob twice. *)
EXTENDS SlackThreads, TLC

TheThreads == [l \in Line |-> "a"]
ThePeople == [l \in Line |-> IF l = "l1" THEN "ann" ELSE "bob"]
=============================================================================
