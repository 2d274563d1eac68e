----------------------------- MODULE SessionFold ----------------------------
(***************************************************************************)
(* runstate.Fold: what a resume learns from a run's records.  Only what    *)
(* steers a resume is kept of it: the turn in flight, which of its calls   *)
(* have an answer or a deferral, whether the conversation can take a user  *)
(* message and whether the run completed.  Claims, standing approvals and  *)
(* memory revisions are inert in the fold; a claim stands for all three.   *)
(***************************************************************************)
EXTENDS Naturals, Sequences, FiniteSets

CONSTANT Call       \* the calls one reply can carry, by their place in it

ASSUME CallAssumption == Call \subseteq Nat /\ IsFiniteSet(Call)

\* How a reply ends: what it says is finished, paused, or cut off at the output cap.
Stop == {"done", "pause", "cut"}

\* Why a run ended: it answered, it failed or reached its iteration cap, which a chat
\* goes on from, or it was suspended or is over budget, which ends a chat too.
Reason == {"completed", "failed", "stopped"}

\* A call is known by the record of the reply that carries it and its place in it.
CallId == [turn : Nat \ {0}, call : Call]

Record(Worker) ==
    [by : Worker, kind : {"meta"}, interactive : BOOLEAN]
        \union [by : Worker, kind : {"claim", "user"}]
        \union [by : Worker, kind : {"assistant"}, calls : SUBSET Call, stop : Stop]
        \union [by : Worker, kind : {"result", "deferred"}, id : CallId]
        \union [by : Worker, kind : {"terminal"}, reason : Reason]

-----------------------------------------------------------------------------

Latest(S) == IF S = {} THEN 0 ELSE CHOOSE i \in S : \A j \in S : j <= i

\* The position of the turn that is open behind the first n records: that of the
\* last reply, unless a user message closed it.
OpenTurn(log, n) ==
    LET i == Latest({j \in 1..n : log[j].kind \in {"assistant", "user"}})
    IN IF i > 0 /\ log[i].kind = "assistant" THEN i ELSE 0

\* A result or a deferral with no turn to belong to makes the whole run unreadable.
Corrupt(log) ==
    \E j \in 1..Len(log) :
        log[j].kind \in {"result", "deferred"} /\ OpenTurn(log, j - 1) = 0

Said(log, i, n, kind) == {log[j].id : j \in {m \in (i + 1)..n : log[m].kind = kind}}

\* The fold of the first n records.
Fold(log, n) ==
    LET turn     == OpenTurn(log, n)
        calls    == IF turn = 0 THEN {}
                    ELSE {[turn |-> turn, call |-> c] : c \in log[turn].calls}
        answered == IF turn = 0 THEN {} ELSE Said(log, turn, n, "result")
        deferred == IF turn = 0 THEN {} ELSE Said(log, turn, n, "deferred")
        end      == Latest({j \in 1..n : log[j].kind = "terminal"})
    IN [unanswered |-> calls \ answered,
        waiting    |-> (calls \intersect deferred) \ answered,
        completed  |-> end > 0 /\ log[end].reason = "completed",
        boundary   |-> /\ turn > 0
                       /\ calls = {} /\ answered = {}
                       /\ log[turn].stop # "pause"]

\* A turn that waits on somebody, taken for one that is not in flight.
PendingUnlessDeferred(state) == state.unanswered # {} /\ state.waiting = {}

\* RunState.Pending is nil when the open turn has all its answers.
Pending(state) == state.unanswered # {}
=============================================================================
