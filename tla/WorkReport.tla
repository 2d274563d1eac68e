----------------------------- MODULE WorkReport -----------------------------
(***************************************************************************)
(* What a server promises the channels it takes work from: each piece of   *)
(* work it took is reported exactly once, as abandoned if and only if it   *)
(* was never started, and nothing of it is still going on by then.         *)
(***************************************************************************)
CONSTANT Work

VARIABLE state  \* w -> how far the server is with it

Init == state = [w \in Work |-> "offered"]

Become(w, from, to) ==
    /\ state[w] = from
    /\ state' = [state EXCEPT ![w] = to]

Take(w) == Become(w, "offered", "taken")
Start(w) == Become(w, "taken", "started")
Report(w) == Become(w, "started", "reported")
Abandon(w) == Become(w, "taken", "abandoned")

Next == \E w \in Work : Take(w) \/ Start(w) \/ Report(w) \/ Abandon(w)

Spec == Init /\ [][Next]_state
=============================================================================
