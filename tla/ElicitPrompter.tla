--------------------------- MODULE ElicitPrompter ---------------------------
(***************************************************************************)
(* The questions of one A2A run: ask, on the run's goroutine, puts one to  *)
(* the caller and waits; handleElicitReply and handleCancel, on the        *)
(* transport's, bring what the caller has to say to it.  A2AQuestions      *)
(* composes it with the channel, whose drain and context it reads.         *)
(*                                                                         *)
(* A message of the caller is an answer to one question, or says that      *)
(* somebody still has the question on screen (AnswerWaiting), which        *)
(* restarts its window.  A window is a number of ticks.                    *)
(***************************************************************************)
EXTENDS Naturals, FiniteSets

CONSTANTS
    Question,   \* the questions the run asks, one at a time, in any order
    Approval,   \* those that are put by the confirmation gate
    Answer,     \* the answers that arrive
    AnswerOf,   \* m -> the question it is for
    Window      \* promptWait, in ticks

VARIABLES
    asking,     \* the question ask is at, if any
    wait,       \* where ask is with it
    left,       \* ticks to the end of its window
    pending,    \* p.pending: those answers are routed to
    buffer,     \* q -> the answer in its channel, if any
    alive,      \* q -> somebody said so and ask has not looked
    result,     \* q -> what ask made of it
    reply,      \* m -> what has become of it
    stop,       \* the caller canceled the run
    drain,      \* the channel is closed
    canceled,   \* the run's context has ended
    over        \* the task has ended: p.closed

vars == <<asking, wait, left, pending, buffer, alive, result, reply, stop, drain, canceled, over>>

None == "none"

TypeOK ==
    /\ asking \in Question \union {None}
    /\ wait \in {"idle", "registered", "waiting", "decided"}
    /\ left \in 0 .. Window
    /\ pending \subseteq Question
    /\ buffer \in [Question -> Answer \union {None}]
    /\ alive \in [Question -> BOOLEAN]
    /\ result \in [Question -> Answer \union {None, "deferred", "aborted", "failed"}]
    /\ reply \in [Answer -> {"unsent", "routed", "delivered", "refused"}]
    /\ {stop, drain, canceled, over} \subseteq BOOLEAN

Init ==
    /\ asking = None /\ wait = "idle" /\ left = 0 /\ pending = {}
    /\ buffer = [q \in Question |-> None]
    /\ alive = [q \in Question |-> FALSE]
    /\ result = [q \in Question |-> None]
    /\ reply = [m \in Answer |-> "unsent"]
    /\ stop = FALSE /\ drain = FALSE /\ canceled = FALSE /\ over = FALSE

-----------------------------------------------------------------------------
(* ask, and the task's end. *)

\* Registered before it is published: an answer has somewhere to land.
Register(q) ==
    /\ wait = "idle" /\ ~over /\ ~canceled /\ result[q] = None
    /\ asking' = q /\ wait' = "registered" /\ left' = Window
    /\ pending' = pending \union {q}
    /\ UNCHANGED <<buffer, alive, result, reply, stop, drain, canceled, over>>

Publish ==
    /\ wait = "registered"
    /\ wait' = "waiting"
    /\ UNCHANGED <<asking, left, pending, buffer, alive, result, reply, stop, drain, canceled, over>>

Decide(r) ==
    /\ wait' = "decided"
    /\ result' = [result EXCEPT ![asking] = r]
    /\ UNCHANGED <<asking, left, pending, alive, reply, stop, drain, canceled, over>>

PublishFails == wait = "registered" /\ Decide("failed") /\ UNCHANGED buffer

TakeAnswer ==
    /\ wait = "waiting" /\ buffer[asking] # None
    /\ Decide(buffer[asking])
    /\ buffer' = [buffer EXCEPT ![asking] = None]

\* Mutant: a window is restarted as long as somebody says so.
Restarted == Window

\* A window is not restarted during a drain.
Restart == IF drain THEN left ELSE Window

TakeAlive ==
    /\ wait = "waiting" /\ alive[asking]
    /\ alive' = [alive EXCEPT ![asking] = FALSE]
    /\ left' = Restart
    /\ UNCHANGED <<asking, wait, pending, buffer, result, reply, stop, drain, canceled, over>>

Tick ==
    /\ wait = "waiting" /\ left > 0
    /\ left' = left - 1
    /\ UNCHANGED <<asking, wait, pending, buffer, alive, result, reply, stop, drain, canceled, over>>

\* Mutant: a question is a boundary of its own, and the caller's cancel waits for it.
SilentOrEnded == left = 0 \/ canceled
Silent == left = 0 \/ stop \/ canceled

\* Silence: the gate's question is asked again by a resume, a tool's is answered later.
GiveUp ==
    /\ wait = "waiting" /\ Silent
    /\ Decide(IF asking \in Approval THEN "aborted" ELSE "deferred")
    /\ UNCHANGED buffer

Forget ==
    /\ wait = "decided"
    /\ wait' = "idle" /\ asking' = None
    /\ pending' = pending \ {asking}
    /\ UNCHANGED <<left, buffer, alive, result, reply, stop, drain, canceled, over>>

\* end, after the run and its outcome: prompter.close.
EndTask ==
    /\ wait = "idle" /\ ~over
    /\ over' = TRUE
    /\ pending' = {}
    /\ UNCHANGED <<asking, wait, left, buffer, alive, result, reply, stop, drain, canceled>>

-----------------------------------------------------------------------------
(* handleElicitReply: the look at the pending questions and the send into the *)
(* buffer of the one that was found are two steps, of one goroutine.          *)

Route(m) ==
    /\ reply[m] = "unsent" /\ \A n \in Answer : reply[n] # "routed"
    /\ reply' = [reply EXCEPT ![m] = IF AnswerOf[m] \in pending THEN "routed" ELSE "refused"]
    /\ UNCHANGED <<asking, wait, left, pending, buffer, alive, result, stop, drain, canceled, over>>

\* Mutant: an answer goes to the question that is being asked.
AskedNow(m) == IF asking = None THEN AnswerOf[m] ELSE asking
Addressed(m) == AnswerOf[m]

\* The buffer holds one answer: a second is refused.
Deliver(m) ==
    /\ reply[m] = "routed"
    /\ IF buffer[Addressed(m)] = None
       THEN /\ buffer' = [buffer EXCEPT ![Addressed(m)] = m]
            /\ reply' = [reply EXCEPT ![m] = "delivered"]
       ELSE reply' = [reply EXCEPT ![m] = "refused"] /\ UNCHANGED buffer
    /\ UNCHANGED <<asking, wait, left, pending, alive, result, stop, drain, canceled, over>>

\* However often the caller says so: one is in the buffer or the other is passed over.
StillWaiting(q) ==
    /\ q \in pending /\ ~alive[q]
    /\ alive' = [alive EXCEPT ![q] = TRUE]
    /\ UNCHANGED <<asking, wait, left, pending, buffer, result, reply, stop, drain, canceled, over>>

-----------------------------------------------------------------------------
HandleCancel ==
    /\ ~stop /\ ~over
    /\ stop' = TRUE
    /\ UNCHANGED <<asking, wait, left, pending, buffer, alive, result, reply, drain, canceled, over>>
=============================================================================
