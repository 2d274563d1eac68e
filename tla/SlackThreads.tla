---------------------------- MODULE SlackThreads ----------------------------
(***************************************************************************)
(* The Slack channel: one goroutine reads mentions and presses from the    *)
(* socket and admits them as turns; a thread runs one turn at a time, what *)
(* the same person says meanwhile is folded into it and what others say is *)
(* queued behind it; a run may put a question to its thread, whose answer  *)
(* reaches it while it waits and resumes the conversation afterwards.      *)
(*                                                                         *)
(* The server is WorkReport's.  A turn is its thread, the person it is     *)
(* for, the lines it was admitted with and those folded into it.  Of what  *)
(* is posted only the questions are kept; fate says whether a line's       *)
(* author hears what became of it.                                         *)
(***************************************************************************)
EXTENDS Integers, Sequences, FiniteSets

CONSTANTS
    Line,          \* the mentions that arrive
    ThreadOf, PersonOf,
    Thread,
    Workers,       \* turns that run at once
    MaxCoal,       \* opts.MaxCoalesced, lines folded into a turn
    MaxWait,       \* opts.MaxWaiting, turns admitted and not handed over
    MaxResumes,    \* presses of a behaviour that resume a conversation
    MaxTurns,      \* turns of a behaviour: one for each line and each resume
    MaxQuestions   \* questions the runs of a behaviour ask

ASSUME ThreadAssumption == ThreadOf \in [Line -> Thread]
ASSUME BoundAssumption == {Workers, MaxCoal, MaxWait, MaxResumes, MaxTurns, MaxQuestions} \subseteq Nat

Turn == 1 .. MaxTurns
None == "none"
Nobody == 0

VARIABLES
    closing,   \* how far Close is
    canceled,  \* the server's context has ended
    pulling,   \* the server's puller still comes to Next
    fate,      \* l -> what has become of it
    turn,      \* t -> the turn
    where,     \* t -> where it is
    inFlight,  \* c.inFlight
    waiting,   \* c.waiting
    queued,    \* c.queued
    parked,    \* c.parked
    handed,    \* c.handed
    question   \* t -> the question its run asked, if it did

server == <<closing, canceled, pulling>>
held == <<inFlight, waiting, queued, parked, handed>>
vars == <<server, fate, turn, where, held, question>>

NoTurn == [thread |-> None, who |-> None, resume |-> FALSE, lines |-> {}, folded |-> {}]
Live == {"waiting", "reading", "held", "running"}

\* A question is posting, or pressed while it is, then open, taken by a press or abandoned
\* by its run.  It is answered when the run has the press, resumed when a late press became
\* a turn, forgotten when its post failed, and discarded when that had been pressed.
Standing == {None, "posting", "pressed", "open", "taken", "abandoned",
             "answered", "resumed", "forgotten", "discarded"}

TypeOK ==
    /\ closing \in {"open", "shutdown", "ended", "dropped"}
    /\ canceled \in BOOLEAN /\ pulling \in BOOLEAN
    /\ fate \in [Line -> {"unsent", "checked", "taken", "given", "told", "untold", "lost"}]
    /\ turn \in [Turn -> [thread : Thread \union {None}, resume : BOOLEAN,
                          who : {PersonOf[l] : l \in Line} \union {None},
                          lines : SUBSET Line, folded : SUBSET Line]]
    /\ where \in [Turn -> Live \union {"none", "queued", "over", "dropped"}]
    /\ inFlight \in [Thread -> Turn \union {Nobody}]
    /\ waiting \in Seq(Turn) /\ queued \in [Thread -> Seq(Turn)]
    /\ parked \in Nat /\ handed \in Nat
    /\ question \in [Turn -> Standing]

Init ==
    /\ closing = "open" /\ canceled = FALSE /\ pulling = TRUE
    /\ fate = [l \in Line |-> "unsent"]
    /\ turn = [t \in Turn |-> NoTurn] /\ where = [t \in Turn |-> "none"]
    /\ inFlight = [th \in Thread |-> Nobody]
    /\ waiting = <<>> /\ queued = [th \in Thread |-> <<>>]
    /\ parked = 0 /\ handed = 0
    /\ question = [t \in Turn |-> None]

draining == closing # "open"
Fresh(t) == where[t] = "none" /\ \A u \in Turn : where[u] = "none" => t <= u
Becomes(lines, f) == fate' = [l \in Line |-> IF l \in lines THEN f ELSE fate[l]]

\* The one goroutine that reads envelopes is not in the middle of one.
Intake == closing \in {"open", "shutdown"} /\ \A l \in Line : fate[l] # "checked"

-----------------------------------------------------------------------------
(* Admission. *)

\* Mutant: the turns queued behind their threads are not counted.
FullOfWaiting == Len(waiting) >= MaxWait

full == Len(waiting) + parked >= MaxWait

\* Mutant: every turn is to be handed over next.
TakeAtOnce(t, new) ==
    /\ Fresh(t)
    /\ turn' = [turn EXCEPT ![t] = new]
    /\ waiting' = Append(waiting, t)
    /\ where' = [where EXCEPT ![t] = "waiting"]
    /\ inFlight' = [inFlight EXCEPT ![new.thread] = t]
    /\ UNCHANGED <<queued, parked, handed>>

\* A new turn t takes its thread when that is free, and is queued behind it otherwise.
Take(t, new) ==
    /\ Fresh(t)
    /\ turn' = [turn EXCEPT ![t] = new]
    /\ LET th == new.thread IN
       \/ /\ inFlight[th] = Nobody
          /\ inFlight' = [inFlight EXCEPT ![th] = t]
          /\ waiting' = Append(waiting, t)
          /\ where' = [where EXCEPT ![t] = "waiting"]
          /\ UNCHANGED <<queued, parked>>
       \/ /\ inFlight[th] # Nobody
          /\ queued' = [queued EXCEPT ![th] = Append(@, t)]
          /\ parked' = parked + 1
          /\ where' = [where EXCEPT ![t] = "queued"]
          /\ UNCHANGED <<inFlight, waiting>>
    /\ UNCHANGED handed

\* openIn: the questions of a thread that stand unanswered.
Open(th) ==
    {t \in Turn : turn[t].thread = th /\ question[t] \in {"posting", "open", "abandoned"}}

\* A message that was not taken before: an open question in its thread takes it as the
\* answer or refuses it, and otherwise it goes on to admit.
Receive(l) ==
    /\ Intake /\ fate[l] = "unsent"
    /\ fate' = [fate EXCEPT ![l] = IF Open(ThreadOf[l]) = {} THEN "checked" ELSE "told"]
    /\ UNCHANGED <<server, turn, where, held, question>>

Folds(l) ==
    LET t == inFlight[ThreadOf[l]] IN
    /\ t # Nobody
    /\ turn[t].who = PersonOf[l] /\ Cardinality(turn[t].folded) < MaxCoal

FoldLine(l) ==
    /\ fate[l] = "checked" /\ ~draining /\ Folds(l)
    /\ turn' = [turn EXCEPT ![inFlight[ThreadOf[l]]].folded = @ \union {l}]
    /\ Becomes({l}, "taken")
    /\ UNCHANGED <<server, where, held, question>>

RefuseLine(l) ==
    /\ fate[l] = "checked"
    /\ draining \/ (~Folds(l) /\ full)
    /\ Becomes({l}, "told")
    /\ UNCHANGED <<server, turn, where, held, question>>

AdmitLine(l) ==
    /\ fate[l] = "checked" /\ ~draining /\ ~Folds(l) /\ ~full
    /\ \E t \in Turn : Take(t, [NoTurn EXCEPT !.thread = ThreadOf[l], !.who = PersonOf[l],
                                              !.lines = {l}])
    /\ Becomes({l}, "taken")
    /\ UNCHANGED <<server, question>>

-----------------------------------------------------------------------------
(* Presses, on the question of turn t. *)

\* deliver: the run that asked is still waiting, or still posting the question.
PressTaken(t) ==
    /\ Intake /\ question[t] \in {"posting", "open"}
    /\ question' = [question EXCEPT ![t] = IF @ = "posting" THEN "pressed" ELSE "taken"]
    /\ UNCHANGED <<server, fate, turn, where, held>>

\* resume and admitResume: the answer is to resume the conversation.
Resume(t) ==
    /\ ~draining /\ ~full
    /\ Cardinality({u \in Turn : turn[u].resume}) < MaxResumes
    /\ \E u \in Turn, by \in {PersonOf[l] : l \in Line} :
        Take(u, [NoTurn EXCEPT !.thread = turn[t].thread, !.who = by, !.resume = TRUE])
    /\ UNCHANGED <<server, fate>>

\* The run has stopped waiting: at once, or behind the turn that asked.
PressResumes(t) ==
    /\ Intake /\ question[t] = "abandoned"
    /\ inFlight[turn[t].thread] \in {Nobody, t}
    /\ question' = [question EXCEPT ![t] = "resumed"]
    /\ Resume(t)

\* The question is held no more, because the run has its answer or because it could not be
\* posted: the press resumes a thread that is free, whatever was answered before.
PressUnknown(t) ==
    /\ Intake /\ question[t] \in {"answered", "forgotten", "discarded"}
    /\ inFlight[turn[t].thread] = Nobody
    /\ Resume(t)
    /\ UNCHANGED question

\* A press that is refused leaves the question as it was: declinePress reopens it.  One on
\* a question that is held with its answer starts nothing.

-----------------------------------------------------------------------------
(* Next. *)

TakeWaiting ==
    /\ pulling /\ ~draining /\ waiting # <<>>
    /\ \A u \in Turn : where[u] \notin {"reading", "held"}
    /\ where' = [where EXCEPT ![Head(waiting)] = "reading"]
    /\ waiting' = Tail(waiting)
    /\ UNCHANGED <<server, fate, turn, inFlight, queued, parked, handed, question>>

\* Mutant: what was said is read and left there.
Unread(t) == turn
Drained(t) == [turn EXCEPT ![t].folded = {}]

\* workFor and handed++: prompt drains the folded lines into the work.  A resume delivers
\* the answer and no prompt.
HandOver(t) ==
    /\ where[t] = "reading"
    /\ where' = [where EXCEPT ![t] = "held"]
    /\ Becomes(turn[t].lines \union turn[t].folded, IF turn[t].resume THEN "lost" ELSE "given")
    /\ turn' = Drained(t)
    /\ handed' = handed + 1
    /\ UNCHANGED <<server, inFlight, waiting, queued, parked, question>>

\* Mutant: the next turn has the thread and nobody is told of it.
NotAwaited(t) == waiting
Awaiting(t) == Append(waiting, t)

\* releaseLocked: the next turn of the thread takes its place.
Release(t, behind, stays) ==
    LET th == turn[t].thread IN
    IF inFlight[th] # t
    THEN queued' = [queued EXCEPT ![th] = behind] /\ parked' = stays
         /\ UNCHANGED <<inFlight, waiting>>
    ELSE IF behind = <<>>
    THEN /\ inFlight' = [inFlight EXCEPT ![th] = Nobody]
         /\ queued' = [queued EXCEPT ![th] = <<>>] /\ parked' = stays
         /\ UNCHANGED waiting
    ELSE /\ inFlight' = [inFlight EXCEPT ![th] = Head(behind)]
         /\ waiting' = Awaiting(Head(behind))
         /\ queued' = [queued EXCEPT ![th] = Tail(behind)]
         /\ parked' = stays - 1

\* The session store could not say whether there is a conversation; its thread is told.
StoreFails(t) ==
    LET behind == queued[turn[t].thread] IN
    /\ where[t] = "reading" /\ ~turn[t].resume
    /\ Becomes(turn[t].lines \union turn[t].folded, "told")
    /\ Release(t, behind, parked)
    /\ where' = [u \in Turn |-> IF u = t THEN "over"
                                ELSE IF behind # <<>> /\ u = Head(behind) THEN "waiting" ELSE where[u]]
    /\ UNCHANGED <<server, turn, handed, question>>

PullerLeaves ==
    /\ pulling
    /\ draining \/ (canceled /\ waiting = <<>>)
    /\ \A u \in Turn : where[u] \notin {"reading", "held"}
    /\ pulling' = FALSE
    /\ UNCHANGED <<closing, canceled, fate, turn, where, held, question>>

-----------------------------------------------------------------------------
(* The run, and the end of its turn. *)

StartRun(t) ==
    /\ where[t] = "held"
    /\ Cardinality({u \in Turn : where[u] = "running"}) < Workers
    /\ where' = [where EXCEPT ![t] = "running"]
    /\ UNCHANGED <<server, fate, turn, held, question>>

\* The question is registered, and then posted.
Ask(t) ==
    /\ where[t] = "running" /\ question[t] = None
    /\ Cardinality({u \in Turn : question[u] # None}) < MaxQuestions
    /\ question' = [question EXCEPT ![t] = "posting"]
    /\ UNCHANGED <<server, fate, turn, where, held>>

AskMoves(t, from, to) ==
    /\ where[t] = "running" /\ question[t] = from
    /\ question' = [question EXCEPT ![t] = to]
    /\ UNCHANGED <<server, fate, turn, where, held>>

\* A press that came first is found when the run begins to wait.
Posted(t) == AskMoves(t, "posting", "open") \/ AskMoves(t, "pressed", "taken")

\* The question is forgotten, and with it the answer it may have been given.
PostFails(t) == AskMoves(t, "posting", "forgotten") \/ AskMoves(t, "pressed", "discarded")

\* Mutant: giveUp does not look whether a press beat it.
GivenUp(q) == "abandoned"
AfterGiveUp(q) == IF q = "taken" THEN "answered" ELSE "abandoned"

\* The grace window or the context has ended: giveUp takes the press that beat it.
AskEnds(t) ==
    \E q \in {"open", "taken"} : AskMoves(t, q, AfterGiveUp(q))

\* finish: folded lines become a turn in front of the queue when the conversation can
\* take them, and go back to their author when it waits on an answer or was suspended.
\* MaxTurns bounds the turns that may follow.
Finish(t, boundary) ==
    LET folded == turn[t].folded
        th == turn[t].thread
        next == CHOOSE u \in Turn : Fresh(u)
        follows == folded # {} /\ boundary
        behind == (IF follows THEN <<next>> ELSE <<>>) \o queued[th]
    IN  /\ follows => \E u \in Turn : Fresh(u)
        /\ turn' = IF follows
                   THEN [turn EXCEPT ![t].folded = {},
                         ![next] = [NoTurn EXCEPT !.thread = th, !.who = turn[t].who,
                                                  !.lines = folded]]
                   ELSE [turn EXCEPT ![t].folded = {}]
        /\ fate' = IF follows THEN fate ELSE [l \in Line |-> IF l \in folded THEN "told" ELSE fate[l]]
        /\ handed' = handed - 1
        /\ Release(t, behind, IF follows THEN parked + 1 ELSE parked)
        /\ where' = [u \in Turn |->
                       IF u = t THEN "over"
                       ELSE IF behind # <<>> /\ u = Head(behind) /\ inFlight[th] = t THEN "waiting"
                       ELSE IF follows /\ u = next THEN "queued" ELSE where[u]]
        /\ UNCHANGED <<closing, canceled, question>>

\* A run that gave up on its question has deferred; any run may have been stopped.  Its own
\* question is asked no more, so that abandonTurn finds none open.
EndRun(t) ==
    /\ where[t] = "running" /\ question[t] \notin {"posting", "pressed", "open", "taken"}
    /\ \E boundary \in BOOLEAN :
        (question[t] \in {"abandoned", "resumed"} => ~boundary) /\ Finish(t, boundary)
    /\ UNCHANGED pulling

\* The server's context ended before there was a slot, and its puller leaves.
Abandon(t) ==
    /\ where[t] = "held" /\ canceled
    /\ Finish(t, TRUE)
    /\ pulling' = FALSE

-----------------------------------------------------------------------------
(* Close. *)

Cancel ==
    /\ ~canceled
    /\ canceled' = TRUE
    /\ UNCHANGED <<closing, pulling, fate, turn, where, held, question>>

Shutdown ==
    /\ closing = "open"
    /\ closing' = "shutdown"
    /\ UNCHANGED <<canceled, pulling, fate, turn, where, held, question>>

IntakeEnds ==
    /\ closing = "shutdown" /\ Intake
    /\ closing' = "ended"
    /\ UNCHANGED <<canceled, pulling, fate, turn, where, held, question>>

\* Every turn that was admitted and not handed over is dropped, and told of it on its status
\* message where it has one: without progress there is none, nor for what follows a turn
\* that ends in a drain.
abandonWaiting ==
    /\ closing = "ended"
    /\ closing' = "dropped"
    /\ LET stranded == {t \in Turn : where[t] \in {"waiting", "queued"}}
           said(ts) == UNION {turn[t].lines \union turn[t].folded : t \in ts} IN
       /\ where' = [t \in Turn |-> IF t \in stranded THEN "dropped" ELSE where[t]]
       /\ inFlight' = [th \in Thread |-> IF inFlight[th] \in stranded THEN Nobody ELSE inFlight[th]]
       /\ \E silent \in SUBSET stranded :
            fate' = [l \in Line |-> IF l \in said(silent) THEN "untold"
                                   ELSE IF l \in said(stranded) THEN "told" ELSE fate[l]]
    /\ waiting' = <<>> /\ queued' = [th \in Thread |-> <<>>] /\ parked' = 0
    /\ UNCHANGED <<canceled, pulling, turn, handed, question>>

-----------------------------------------------------------------------------
Reads(l) == FoldLine(l) \/ RefuseLine(l) \/ AdmitLine(l)

Runs(t) ==
    StartRun(t) \/ Posted(t) \/ PostFails(t) \/ AskEnds(t) \/ EndRun(t) \/ Abandon(t)

Next ==
    \/ \E l \in Line : Receive(l) \/ Reads(l)
    \/ \E t \in Turn : PressTaken(t) \/ PressResumes(t) \/ PressUnknown(t)
    \/ \E t \in Turn : HandOver(t) \/ StoreFails(t)
    \/ \E t \in Turn : Runs(t) \/ Ask(t)
    \/ TakeWaiting \/ PullerLeaves \/ Cancel \/ Shutdown \/ IntakeEnds \/ abandonWaiting

\* The server pulls and its runs end, and Close goes on.
Fairness ==
    /\ \A l \in Line : WF_vars(Reads(l))
    /\ \A t \in Turn : WF_vars(Runs(t)) /\ WF_vars(HandOver(t) \/ StoreFails(t))
    /\ WF_vars(TakeWaiting) /\ WF_vars(PullerLeaves)
    /\ WF_vars(IntakeEnds) /\ WF_vars(abandonWaiting)

Spec == Init /\ [][Next]_vars /\ Fairness

-----------------------------------------------------------------------------
(* Correctness. *)

\* "A thread runs one turn at a time" (intake.go, admit 313-360): across new lines, resumes
\* by a press, follow-ups and releases.
OneTurn ==
    \A t, u \in Turn :
        t # u /\ where[t] \in Live /\ where[u] \in Live => turn[t].thread # turn[u].thread

\* The turns that have still to hand line l over.
Carriers(l) ==
    {t \in Turn : /\ where[t] \notin {"over", "dropped"}
                  /\ \/ l \in turn[t].folded
                     \/ l \in turn[t].lines /\ where[t] \in {"queued", "waiting", "reading"}}

\* A line that was taken is carried by one turn until it is handed over or its author is
\* told (intake.go 586-594, 626-677): what is said while a run ends is in it or in the
\* follow-up, never in both and never in none.
HeldByOne == \A l \in Line : Cardinality(Carriers(l)) = IF fate[l] = "taken" THEN 1 ELSE 0

\* MaxWaiting (intake.go 313-360): what was admitted and has not ended is bounded by it,
\* the runs and the turn in the puller's hands, however turns follow each other.
Backlog == Len(waiting) + parked + handed <= MaxWait + Workers + 1

\* l was folded into a resume that has still to be handed over.
AwaitsResume(l) ==
    \E t \in Turn :
        turn[t].resume /\ where[t] \in {"queued", "waiting", "reading"} /\ l \in turn[t].folded

\* Unless the server stops, a line that was taken is handed to a run or its author told, over
\* turns that are queued, end, are followed and leave their thread to the next (releaseLocked,
\* intake.go 714-751).  A line that was folded into a resume before its hand-over is not.
Answers ==
    \A l \in Line :
        fate[l] = "taken" /\ ~AwaitsResume(l) ~> fate[l] \in {"given", "told"} \/ draining \/ canceled

\* A press that was taken once the question was posted is what the run goes on with, also
\* when the window or the context ends in the same moment (giveUp, prompter.go 501-515).
AnswerUsed == \A t \in Turn : question[t] = "taken" ~> question[t] = "answered"

-----------------------------------------------------------------------------
(* What the code says of itself, and does not keep. *)

\* A line "either reaches this prompt or waits for the follow-up, and none is lost
\* between the two" (intake.go 586-588).  A resume has no prompt, and drains its lines
\* all the same.
NotLost == \A l \in Line : fate[l] # "lost"

\* A question is registered before it is posted, so that a press while the post is returning
\* "has a question to be delivered to", and one "never lands in a buffer nobody reads"
\* (prompter.go 730-737).  When the post fails, it does.
NeverUnread == \A t \in Turn : question[t] # "discarded"
=============================================================================
