----------------------------- MODULE A2AEndpoint ----------------------------
(***************************************************************************)
(* The prompt channel of serve/a2aendpoint: the transport calls handle     *)
(* with one request after another; an admitted prompt holds its request id *)
(* and one of the workers until it is ended, and is handed to the server   *)
(* by a goroutine of its own.                                              *)
(*                                                                         *)
(* The server is what WorkReport says of one: it takes an item, starts it  *)
(* when it has a slot, and calls done once, or abandons it when it is      *)
(* canceled.  A request is a task from when it arrives; its prompt, token  *)
(* and budget are left out, its kind but for whether it reads only.        *)
(***************************************************************************)
EXTENDS Naturals, FiniteSets

CONSTANTS
    Task,       \* the requests that arrive
    RequestOf,  \* t -> the request id its caller chose
    SessionOf,  \* t -> the journal its token names
    Workers     \* how many prompts may run at once; also the server's slots

VARIABLES
    shutdown,   \* c.shutdown is closed
    closed,     \* Close has returned
    canceled,   \* the server's context has ended
    pulling,    \* the server's puller still comes to Next
    inFlight,   \* request id -> the task that holds it
    pc,         \* t -> where it is
    ack,        \* t -> what its caller was acked with
    final,      \* t -> how many terminal messages its caller was sent
    ended,      \* t.ended: some ending has been claimed
    watch       \* t -> its cancels are routed to it

vars == <<shutdown, closed, canceled, pulling, inFlight, pc, ack, final, ended, watch>>

Nobody == "nobody"
Request == {RequestOf[t] : t \in Task}

ASSUME TaskAssumption == Nobody \notin Task

\* In handle, which the transport's one goroutine for the subject is in.
Handling == {"arrived", "admitted", "watched", "accepted", "refusing", "reading"}
Ending == {"ending", "unwatched"}
\* Admitted, and its ending not yet claimed.
Working == {"admitted", "watched", "accepted", "handing", "held", "running"}

TypeOK ==
    /\ shutdown \in BOOLEAN /\ closed \in BOOLEAN /\ canceled \in BOOLEAN /\ pulling \in BOOLEAN
    /\ inFlight \in [Request -> Task \union {Nobody}]
    /\ pc \in [Task -> Working \union Handling \union Ending \union {"new", "over"}]
    /\ ack \in [Task -> {"none", "no", "yes"}]
    /\ final \in [Task -> Nat]
    /\ ended \in [Task -> BOOLEAN] /\ watch \in [Task -> BOOLEAN]

Init ==
    /\ shutdown = FALSE /\ closed = FALSE /\ canceled = FALSE /\ pulling = TRUE
    /\ inFlight = [r \in Request |-> Nobody]
    /\ pc = [t \in Task |-> "new"]
    /\ ack = [t \in Task |-> "none"]
    /\ final = [t \in Task |-> 0]
    /\ ended = [t \in Task |-> FALSE]
    /\ watch = [t \in Task |-> FALSE]

Holders == {inFlight[r] : r \in Request} \ {Nobody}

Goes(t, from, to) == pc[t] = from /\ pc' = [pc EXCEPT ![t] = to]

-----------------------------------------------------------------------------
(* Endings. *)

\* Mutant: whoever ends under a request id gives it back.
ReleaseAny(t) == inFlight' = [inFlight EXCEPT ![RequestOf[t]] = Nobody]

\* release: only the task that holds the id gives it back.
Release(t) ==
    inFlight' = IF inFlight[RequestOf[t]] = t
                THEN [inFlight EXCEPT ![RequestOf[t]] = Nobody] ELSE inFlight

\* terminateWith, once its ending is claimed: an optional refusing ack and, unless
\* that could not be sent, the terminal message; a message that is lost was sent.
Say(t, refusing) ==
    \/ /\ ack' = IF refusing THEN [ack EXCEPT ![t] = "no"] ELSE ack
       /\ final' = [final EXCEPT ![t] = @ + 1]
    \/ refusing /\ UNCHANGED <<ack, final>>

\* end: the subscriptions go and then the worker; what it does to the questions is
\* ElicitPrompter's.
CloseWatch(t) ==
    /\ Goes(t, "ending", "unwatched")
    /\ watch' = [watch EXCEPT ![t] = FALSE]
    /\ UNCHANGED <<shutdown, closed, canceled, pulling, inFlight, ack, final, ended>>

\* Mutant: an ending that keeps its worker.
KeepWorker(t) ==
    /\ Goes(t, "unwatched", "over")
    /\ UNCHANGED <<shutdown, closed, canceled, pulling, inFlight, ack, final, ended, watch>>

GiveBack(t) ==
    /\ Goes(t, "unwatched", "over")
    /\ Release(t)
    /\ UNCHANGED <<shutdown, closed, canceled, pulling, ack, final, ended, watch>>

\* terminateWith as far as the deferred end, for the task at `from`.
Terminate(t, from, refusing) ==
    /\ Goes(t, from, "ending")
    /\ ~ended[t]
    /\ ended' = [ended EXCEPT ![t] = TRUE]
    /\ Say(t, refusing)
    /\ UNCHANGED <<shutdown, closed, canceled, inFlight, watch>>

-----------------------------------------------------------------------------
(* handle. *)

Arrive(t) ==
    /\ \A u \in Task : pc[u] \notin Handling /\ ~(pc[u] \in Ending /\ ack[u] # "yes")
    /\ Goes(t, "new", "arrived") \/ Goes(t, "new", "reading")
    /\ UNCHANGED <<shutdown, closed, canceled, pulling, inFlight, ack, final, ended, watch>>

\* Mutant: two requests may run one conversation.
AdmissibleByRequest(t) ==
    /\ ~shutdown
    /\ Cardinality(Holders) < Workers
    /\ inFlight[RequestOf[t]] = Nobody

Admissible(t) ==
    /\ ~shutdown
    /\ Cardinality(Holders) < Workers
    /\ inFlight[RequestOf[t]] = Nobody
    /\ \A u \in Holders : SessionOf[u] # SessionOf[t]

Admit(t) ==
    /\ Admissible(t)
    /\ Goes(t, "arrived", "admitted")
    /\ inFlight' = [inFlight EXCEPT ![RequestOf[t]] = t]
    /\ UNCHANGED <<shutdown, closed, canceled, pulling, ack, final, ended, watch>>

RefuseAdmission(t) ==
    /\ ~Admissible(t)
    /\ Goes(t, "arrived", "refusing")
    /\ UNCHANGED <<shutdown, closed, canceled, pulling, inFlight, ack, final, ended, watch>>

WatchCancel(t) ==
    /\ Goes(t, "admitted", "watched")
    /\ watch' = [watch EXCEPT ![t] = TRUE]
    /\ UNCHANGED <<shutdown, closed, canceled, pulling, inFlight, ack, final, ended>>

\* The cancels cannot be routed: the worker is given back before the refusal.
WatchFails(t) ==
    /\ Goes(t, "admitted", "refusing")
    /\ Release(t)
    /\ UNCHANGED <<shutdown, closed, canceled, pulling, ack, final, ended, watch>>

Refuse(t) == Terminate(t, "refusing", TRUE) /\ UNCHANGED pulling

\* The answers cannot be routed.
RefuseWatched(t) == Terminate(t, "watched", TRUE) /\ UNCHANGED pulling

Accept(t) ==
    /\ Goes(t, "watched", "accepted")
    /\ ack' = [ack EXCEPT ![t] = "yes"]
    /\ UNCHANGED <<shutdown, closed, canceled, pulling, inFlight, final, ended, watch>>

\* Mutant: a caller that was not told of its acceptance is told how it ended.
TerminateUnacked(t) == Terminate(t, "watched", FALSE) /\ UNCHANGED pulling

\* A caller that could not be told of its acceptance is told nothing else.
AcceptFails(t) ==
    /\ Goes(t, "watched", "ending")
    /\ UNCHANGED <<shutdown, closed, canceled, pulling, inFlight, ack, final, ended, watch>>

\* handoffs.Go.
HandOff(t) ==
    /\ Goes(t, "accepted", "handing")
    /\ UNCHANGED <<shutdown, closed, canceled, pulling, inFlight, ack, final, ended, watch>>

\* serveRead: acked and answered by the goroutine that took it, from the store.
ServeRead(t) ==
    /\ Goes(t, "reading", "ending")
    /\ ended' = [ended EXCEPT ![t] = TRUE]
    /\ \/ ack' = [ack EXCEPT ![t] = "yes"] /\ final' = [final EXCEPT ![t] = @ + 1]
       \/ ack' = [ack EXCEPT ![t] = "no"] /\ final' = [final EXCEPT ![t] = @ + 1]
       \/ UNCHANGED <<ack, final>>
    /\ UNCHANGED <<shutdown, closed, canceled, pulling, inFlight, watch>>

-----------------------------------------------------------------------------
(* The hand-off, the server and done. *)

\* The puller is in Next, whose select may take work beside a shutdown or a cancel.
TakeWork(t) ==
    /\ pulling /\ \A u \in Task : pc[u] # "held"
    /\ Goes(t, "handing", "held")
    /\ UNCHANGED <<shutdown, closed, canceled, pulling, inFlight, ack, final, ended, watch>>

PullerLeaves ==
    /\ pulling /\ \A u \in Task : pc[u] # "held"
    /\ shutdown \/ canceled
    /\ pulling' = FALSE
    /\ UNCHANGED <<shutdown, closed, canceled, inFlight, pc, ack, final, ended, watch>>

\* Mutant: a hand-off waits for the context and not for Close.
EndHandOffCanceled(t) == canceled /\ Terminate(t, "handing", FALSE) /\ UNCHANGED pulling

EndHandOff(t) == shutdown /\ Terminate(t, "handing", FALSE) /\ UNCHANGED pulling

StartRun(t) ==
    /\ Cardinality({u \in Task : pc[u] = "running"}) < Workers
    /\ Goes(t, "held", "running")
    /\ UNCHANGED <<shutdown, closed, canceled, pulling, inFlight, ack, final, ended, watch>>

\* done, for a run that has ended however it did, and for one that never started.
Finish(t) == Terminate(t, "running", FALSE) /\ UNCHANGED pulling

Abandon(t) ==
    /\ canceled
    /\ Terminate(t, "held", FALSE)
    /\ pulling' = FALSE

-----------------------------------------------------------------------------
(* Close, and the server's context. *)

\* Close: the program drains, or stops once Serve has returned.
Shutdown ==
    /\ ~shutdown
    /\ shutdown' = TRUE
    /\ UNCHANGED <<closed, canceled, pulling, inFlight, pc, ack, final, ended, watch>>

\* handoffs.Wait: whoever was handing over has done so, or has ended its prompt.
CloseReturns ==
    /\ shutdown /\ ~closed
    /\ \A t \in Task : pc[t] # "handing"
    /\ closed' = TRUE
    /\ UNCHANGED <<shutdown, canceled, pulling, inFlight, pc, ack, final, ended, watch>>

Cancel ==
    /\ ~canceled
    /\ canceled' = TRUE
    /\ UNCHANGED <<shutdown, closed, pulling, inFlight, pc, ack, final, ended, watch>>

-----------------------------------------------------------------------------
Handle(t) ==
    \/ Admit(t) \/ RefuseAdmission(t) \/ WatchCancel(t) \/ WatchFails(t)
    \/ Refuse(t) \/ RefuseWatched(t) \/ Accept(t) \/ AcceptFails(t) \/ HandOff(t)
    \/ ServeRead(t)

EndTask(t) == CloseWatch(t) \/ GiveBack(t)

Serve(t) == EndHandOff(t) \/ StartRun(t) \/ Finish(t) \/ Abandon(t)

Next ==
    \/ \E t \in Task : Arrive(t) \/ Handle(t) \/ EndTask(t) \/ TakeWork(t) \/ Serve(t)
    \/ PullerLeaves \/ Shutdown \/ CloseReturns \/ Cancel

\* Serve has returned, and Stop follows.
Stopped == canceled /\ ~pulling /\ \A t \in Task : pc[t] # "running"

\* Handlers and goroutines go on by themselves, a run comes to its end, and a server
\* that was canceled is stopped.
Fairness ==
    /\ \A t \in Task : WF_vars(Handle(t)) /\ WF_vars(EndTask(t)) /\ WF_vars(Serve(t))
    /\ WF_vars(\E t \in Task : TakeWork(t))
    /\ WF_vars(PullerLeaves) /\ WF_vars(CloseReturns) /\ WF_vars(Stopped /\ Shutdown)

Spec == Init /\ [][Next]_vars /\ Fairness

-----------------------------------------------------------------------------
(* Correctness. *)

\* terminateWith and claimEnding (task.go 854-907): however its run, the shutdown and a
\* cancel meet, a caller is told one ending, only after an ack, and one that was accepted
\* is told.
AckedOnce ==
    \A t \in Task :
        /\ final[t] <= 1
        /\ final[t] = 1 => ack[t] # "none"
        /\ pc[t] = "over" /\ ack[t] = "yes" => final[t] = 1

\* admit (task.go 392-420): a conversation has one run at a time in this process.
OneTurn ==
    \A t, u \in Task :
        t # u /\ pc[t] \in Working /\ pc[u] \in Working => SessionOf[t] # SessionOf[u]

\* release (task.go 431-438): a task that works holds its request id, whichever refused
\* or finished request of the same id ends meanwhile, and only such a task holds one.
Accounted ==
    /\ \A t \in Task : pc[t] \in Working => inFlight[RequestOf[t]] = t
    /\ \A t \in Holders : pc[t] \in Working \union Ending

\* "Rather than left as an ack nothing ever answers" (channel.go 184-186): a prompt that
\* was accepted comes to its ending, also when Close and the server's end beat it to Next.
Answered == \A t \in Task : ack[t] = "yes" ~> pc[t] = "over"

\* Close returns, and in the end no worker is held (channel.go 190-200).
DrainEnds == shutdown ~> closed /\ Holders = {}
=============================================================================
