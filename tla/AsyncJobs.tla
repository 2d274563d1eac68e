------------------------------ MODULE AsyncJobs -----------------------------
(***************************************************************************)
(* serve/asyncjobs: workers that take the jobs of one work queue.  The     *)
(* engine leases a job to a worker and calls handle; handle offers it to   *)
(* the server, waits for the outcome and makes an ending of it, which the  *)
(* engine writes to the task.  A job's journal is named after its task, so *)
(* the next delivery resumes what an earlier one left.                     *)
(*                                                                         *)
(* The engine and the queue are external: they are what handle and Close   *)
(* rely on.  The server is WorkReport's, the journal RunJournal's, reduced *)
(* to who holds it and how far its run came.                               *)
(***************************************************************************)
EXTENDS Naturals, FiniteSets

CONSTANTS
    Job,
    Worker,
    Delivery,     \* deliveries under way at once; one that is over is used again
    Concurrency,  \* jobs a worker may have in flight
    MaxIncidents  \* interrupts, cancels, broken processors, lost leases, dead workers

VARIABLES
    item,     \* j -> "ready", "gone", or the delivery its lease is held by
    task,     \* j -> what its task record says
    journal,  \* j -> how far its journal is
    claim,    \* j -> the delivery whose run wrote to the journal last
    paid,     \* j -> how often a run worked out the answer and journaled it
    blind,    \* history: the jobs a run took up after their answer, without having seen it end
    job,      \* d -> the job it delivers
    at,       \* d -> the worker it was made to
    handler,  \* d -> where its handle is
    run,      \* d -> where the server is with it
    view,     \* d -> how far the journal was when its run loaded it
    outcome,  \* d -> what Done was called with
    ending,   \* d -> what handle returned
    suspend,  \* w -> the interrupt that asks runs to suspend and drains
    canceled, \* w -> the server's context has ended
    pulling,  \* w -> the server still comes to Next
    proc,     \* w -> the goroutine of start and the engine's processor
    closer,   \* w -> where its Close is
    incidents

workers == <<suspend, canceled, pulling, proc, closer>>
record == <<journal, claim, paid, blind>>
jobs == <<item, task, record>>
deliveries == <<job, at, handler, run, view, outcome, ending>>
vars == <<workers, jobs, deliveries, incidents>>

None == "none"

ASSUME DeliveryAssumption ==
    /\ None \notin Job \union Worker \union Delivery
    /\ MaxIncidents \in Nat

\* "replied" has the answer and no record that the run completed.
Journal == {"none", "open", "deferred", "replied", "done"}

Outcomes == {"answer", "failed", "cut", "crashed", "abandoned", "deferred", "suspended", "nothing"}

TypeOK ==
    /\ item \in [Job -> {"ready", "gone"} \union Delivery]
    /\ task \in [Job -> {"new", "answered", "failed", "terminated"}]
    /\ journal \in [Job -> Journal]
    /\ claim \in [Job -> Delivery \union {None}]
    /\ paid \in [Job -> Nat] /\ blind \subseteq Job
    /\ job \in [Delivery -> Job \union {None}]
    /\ at \in [Delivery -> Worker \union {None}]
    /\ handler \in [Delivery -> {"none", "offering", "waiting", "returned", "gone"}]
    /\ run \in [Delivery -> {"none", "held", "loaded", "running", "replied", "ended"}]
    /\ view \in [Delivery -> Journal]
    /\ outcome \in [Delivery -> Outcomes \union {None}]
    /\ ending \in [Delivery -> {None, "answered", "failed", "terminated", "ready"}]
    /\ suspend \in [Worker -> BOOLEAN] /\ canceled \in [Worker -> BOOLEAN]
    /\ pulling \in [Worker -> BOOLEAN]
    /\ proc \in [Worker -> {"running", "broken", "faulted", "over", "dead"}]
    /\ closer \in [Worker -> {"open", "waiting", "stopping", "stopped", "closed"}]
    /\ incidents \in 0 .. MaxIncidents

Init ==
    /\ item = [j \in Job |-> "ready"] /\ task = [j \in Job |-> "new"]
    /\ journal = [j \in Job |-> "none"] /\ claim = [j \in Job |-> None]
    /\ paid = [j \in Job |-> 0] /\ blind = {}
    /\ job = [d \in Delivery |-> None] /\ at = [d \in Delivery |-> None]
    /\ handler = [d \in Delivery |-> "none"] /\ run = [d \in Delivery |-> "none"]
    /\ view = [d \in Delivery |-> "none"]
    /\ outcome = [d \in Delivery |-> None] /\ ending = [d \in Delivery |-> None]
    /\ suspend = [w \in Worker |-> FALSE] /\ canceled = [w \in Worker |-> FALSE]
    /\ pulling = [w \in Worker |-> TRUE]
    /\ proc = [w \in Worker |-> "running"] /\ closer = [w \in Worker |-> "open"]
    /\ incidents = 0

Lives(w) == proc[w] # "dead"
At(w) == {d \in Delivery : at[d] = w}
Handling(w) == {d \in At(w) : handler[d] \in {"offering", "waiting"}}
Shutdown(w) == closer[w] # "open"
\* c.procCtx has ended.
ProcStopped(w) == closer[w] \in {"stopped", "closed"}
Leased(d) == handler[d] # "none" /\ item[job[d]] = d

\* The context handle was given: the engine ends it when it loses the lease, or stops.
ContextEnded(d) == ~Leased(d) \/ ProcStopped(at[d])

Incident == incidents < MaxIncidents /\ incidents' = incidents + 1

-----------------------------------------------------------------------------
(* The engine and the queue. *)

Deliver(d, j, w) ==
    /\ item[j] = "ready" /\ proc[w] = "running" /\ ~ProcStopped(w)
    /\ handler[d] = "none"
    /\ Cardinality(Handling(w)) < Concurrency
    /\ item' = [item EXCEPT ![j] = d]
    /\ job' = [job EXCEPT ![d] = j] /\ at' = [at EXCEPT ![d] = w]
    /\ handler' = [handler EXCEPT ![d] = "offering"]
    /\ UNCHANGED <<workers, task, record, run, view, outcome, ending, incidents>>

\* What handle returned is written to the task and then the item is settled; what a
\* delivery without its lease returns may come too late, and without the processor
\* nothing is written.
Settle(d) ==
    /\ handler[d] = "returned" /\ Lives(at[d])
    /\ handler' = [handler EXCEPT ![d] = "gone"]
    /\ outcome' = [outcome EXCEPT ![d] = None] /\ ending' = [ending EXCEPT ![d] = None]
    /\ LET j == job[d] IN
       \/ /\ ~ProcStopped(at[d])
          /\ task' = IF ending[d] = "ready" THEN task ELSE [task EXCEPT ![j] = ending[d]]
          /\ item' = IF ~Leased(d) THEN item
                     ELSE [item EXCEPT ![j] = IF ending[d] = "ready" THEN "ready" ELSE "gone"]
       \/ ContextEnded(d) /\ UNCHANGED <<task, item>>
    /\ UNCHANGED <<workers, record, job, at, run, view, incidents>>

\* Nobody renews the lease any more.
LeaseRunsOut(d) ==
    /\ handler[d] = "gone" \/ (handler[d] # "none" /\ ~Lives(at[d]))
    /\ Leased(d)
    /\ item' = [item EXCEPT ![job[d]] = "ready"]
    /\ UNCHANGED <<workers, task, record, deliveries, incidents>>

\* renew has failed for as long as the lease lasts.
RenewFails(d) ==
    /\ Incident
    /\ handler[d] \in {"offering", "waiting", "returned"} /\ Leased(d)
    /\ item' = [item EXCEPT ![job[d]] = "ready"]
    /\ UNCHANGED <<workers, task, record, deliveries>>

\* A delivery is over when its handler has returned and its run has ended.
Forget(d) ==
    /\ handler[d] = "gone" \/ (handler[d] # "none" /\ ~Lives(at[d]))
    /\ run[d] \in {"none", "ended"} /\ ~Leased(d)
    /\ job' = [job EXCEPT ![d] = None] /\ at' = [at EXCEPT ![d] = None]
    /\ handler' = [handler EXCEPT ![d] = "none"] /\ run' = [run EXCEPT ![d] = "none"]
    /\ outcome' = [outcome EXCEPT ![d] = None] /\ ending' = [ending EXCEPT ![d] = None]
    /\ claim' = [j \in Job |-> IF claim[j] = d THEN None ELSE claim[j]]
    /\ UNCHANGED <<workers, item, task, journal, paid, blind, view, incidents>>

\* Somebody supplies the answer a run waits on.  The record moves the journal's tail, so a
\* run that had it has lost it.
Supply(j) ==
    /\ journal[j] = "deferred"
    /\ journal' = [journal EXCEPT ![j] = "open"]
    /\ claim' = [claim EXCEPT ![j] = None]
    /\ UNCHANGED <<workers, item, task, paid, blind, deliveries, incidents>>

RetryTask(j) ==
    /\ task[j] = "terminated" /\ item[j] = "gone"
    /\ task' = [task EXCEPT ![j] = "new"] /\ item' = [item EXCEPT ![j] = "ready"]
    /\ UNCHANGED <<workers, record, deliveries, incidents>>

-----------------------------------------------------------------------------
(* handle and disposition. *)

Return(d, what) ==
    /\ handler' = [handler EXCEPT ![d] = "returned"]
    /\ ending' = [ending EXCEPT ![d] = what]
    /\ UNCHANGED <<workers, jobs, job, at, run, view, outcome, incidents>>

\* What intake refuses is never run.
Refuse(d) ==
    /\ handler[d] = "offering" /\ Lives(at[d]) /\ journal[job[d]] = "none"
    /\ Return(d, "terminated")

HandOver(d) ==
    /\ handler[d] = "offering" /\ Lives(at[d])
    /\ pulling[at[d]] /\ \A e \in At(at[d]) : run[e] # "held"
    /\ handler' = [handler EXCEPT ![d] = "waiting"]
    /\ run' = [run EXCEPT ![d] = "held"]
    /\ UNCHANGED <<workers, jobs, job, at, view, outcome, ending, incidents>>

\* Mutant: it is offered until the server has taken it, or its context has ended.
ReturnUntaken(d) == FALSE

\* A job that was claimed while the worker was stopping goes back.
ReturnClaimed(d) ==
    /\ handler[d] = "offering" /\ Lives(at[d])
    /\ Shutdown(at[d])
    /\ Return(d, "ready")

ReturnAbandoned(d) ==
    /\ handler[d] \in {"offering", "waiting"} /\ Lives(at[d])
    /\ ContextEnded(d)
    /\ Return(d, "ready")

\* Mutant: a failure is taken for an answer.
DispositionOfFailure(out) ==
    IF out \in {"answer", "failed"} THEN "answered" ELSE "ready"

disposition(out) ==
    CASE out \in {"crashed", "deferred"} -> "terminated"
      [] out \in {"abandoned", "suspended", "nothing"} -> "ready"
      [] out \in {"failed", "cut"} -> "failed"
      [] out = "answer" -> "answered"

Dispose(d) ==
    /\ handler[d] = "waiting" /\ Lives(at[d])
    /\ outcome[d] # None
    /\ Return(d, disposition(outcome[d]))

-----------------------------------------------------------------------------
(* The server and the run. *)

\* Done puts the outcome where a handler that still waits finds it.
Report(d, out) ==
    /\ run' = [run EXCEPT ![d] = "ended"]
    /\ view' = [view EXCEPT ![d] = "none"]
    /\ outcome' = IF handler[d] = "waiting" THEN [outcome EXCEPT ![d] = out] ELSE outcome
    /\ UNCHANGED <<workers, item, task, job, at, handler, ending, incidents>>

AbandonWork(d) ==
    /\ run[d] = "held" /\ Lives(at[d]) /\ canceled[at[d]]
    /\ Report(d, "abandoned")
    /\ UNCHANGED record

Active == {"loaded", "running", "replied"}

\* A slot of the worker is free, and Run loads the journal if there is one.  What it does
\* from here on it decides on that view and never looks again.
LoadRun(d) ==
    /\ run[d] = "held" /\ Lives(at[d])
    /\ Cardinality({e \in At(at[d]) : run[e] \in Active}) < Concurrency
    /\ run' = [run EXCEPT ![d] = "loaded"]
    /\ view' = [view EXCEPT ![d] = journal[job[d]]]
    /\ UNCHANGED <<workers, jobs, job, at, handler, outcome, ending, incidents>>

Loaded(d) == run[d] = "loaded" /\ Lives(at[d])

\* Mutant: a finished conversation has nothing left to say.
NothingStored == "nothing"
Stored == "answer"

\* A conversation that was finished when it was loaded is answered from what was loaded.
AnswerStored(d) ==
    /\ Loaded(d) /\ view[d] = "done"
    /\ Report(d, Stored)
    /\ UNCHANGED record

\* Open and the claim, which is fenced on the tail that Open found and not on the one that
\* was loaded; or Create, which wants no journal.
Claim(d) ==
    /\ run' = [run EXCEPT ![d] = "running"]
    /\ claim' = [claim EXCEPT ![job[d]] = d]
    /\ blind' = IF journal[job[d]] \in {"replied", "done"} /\ view[d] # "done"
                THEN blind \union {job[d]} ELSE blind
    /\ UNCHANGED <<workers, item, task, paid, job, at, handler, view, outcome, ending, incidents>>

\* Mutant: a task that is delivered again begins anew.
StartAnew(d) ==
    /\ Loaded(d)
    /\ Claim(d)
    /\ journal' = [journal EXCEPT ![job[d]] = "open"]

StartRun(d) ==
    /\ Loaded(d) /\ view[d] # "done"
    /\ view[d] = "none" => journal[job[d]] = "none"
    /\ Claim(d)
    /\ journal' = [journal EXCEPT ![job[d]] = IF @ = "none" THEN "open" ELSE @]

\* The journal is held by another run, was made meanwhile, or cannot be had.
RunRefused(d) ==
    /\ Loaded(d) /\ view[d] # "done"
    /\ Report(d, "nothing")
    /\ UNCHANGED record

Running(d) == run[d] = "running" /\ Lives(at[d])
Holds(d) == claim[job[d]] = d

\* The model's last answer is behind the claim; a journal that was finished stays so.
RunReplies(d) ==
    /\ Running(d) /\ Holds(d) /\ view[d] # "deferred"
    /\ run' = [run EXCEPT ![d] = "replied"]
    /\ journal' = [journal EXCEPT ![job[d]] = IF @ = "done" THEN @ ELSE "replied"]
    /\ paid' = [paid EXCEPT ![job[d]] = @ + 1]
    /\ UNCHANGED <<workers, item, task, claim, blind>>
    /\ UNCHANGED <<job, at, handler, view, outcome, ending, incidents>>

\* The record that ends a run is stored only for who has the journal, and may fail to be;
\* the run warns of it and has its outcome either way.
Terminal(d, to) ==
    /\ \/ Holds(d) /\ journal' = [journal EXCEPT ![job[d]] = to]
       \/ UNCHANGED journal
    /\ UNCHANGED <<claim, paid, blind>>

RunCompletes(d) ==
    /\ run[d] = "replied" /\ Lives(at[d])
    /\ Terminal(d, "done")
    /\ Report(d, "answer")

\* Any other ending behind a finished conversation is the last one and makes it unfinished.
Unfinished(j) == IF journal[j] = "done" THEN "replied" ELSE journal[j]

\* A tool defers, in a turn that is journaled, and what was finished stays so when the
\* terminal record is not stored; or the run was waiting when it was loaded, and waits on.
RunDefers(d) ==
    /\ Running(d)
    /\ \/ /\ view[d] # "deferred" /\ Holds(d)
          /\ \/ journal' = [journal EXCEPT ![job[d]] = "deferred"]
             \/ journal[job[d]] = "done" /\ UNCHANGED journal
          /\ UNCHANGED <<claim, paid, blind>>
       \/ view[d] = "deferred" /\ Terminal(d, Unfinished(job[d]))
    /\ Report(d, "deferred")

RunEnds(d, out) ==
    /\ Running(d)
    /\ Terminal(d, Unfinished(job[d]))
    /\ Report(d, out)

RunFails(d) == RunEnds(d, "failed")
RunSuspends(d) == RunEnds(d, "suspended") /\ suspend[at[d]]
\* The server's context has ended: the model call or the tool fails, and so the turn.
RunIsCut(d) == RunEnds(d, "cut") /\ canceled[at[d]]

\* A panic leaves no record behind.
RunCrashes(d) ==
    /\ Running(d)
    /\ Report(d, "crashed")
    /\ UNCHANGED record

PullerLeaves(w) ==
    /\ pulling[w] /\ Lives(w) /\ \A d \in At(w) : run[d] # "held"
    /\ canceled[w] \/ proc[w] = "over"
    /\ pulling' = [pulling EXCEPT ![w] = FALSE]
    /\ UNCHANGED <<suspend, canceled, proc, closer, jobs, deliveries, incidents>>

\* Serve has returned.
Served(w) == ~pulling[w] /\ \A d \in At(w) : run[d] \in {"none", "ended"}

-----------------------------------------------------------------------------
(* Close, start, and what stops a worker. *)

Interrupt(w) ==
    /\ ~suspend[w] /\ Lives(w) /\ Incident
    /\ suspend' = [suspend EXCEPT ![w] = TRUE]
    /\ UNCHANGED <<canceled, pulling, proc, closer, jobs, deliveries>>

Cancel(w) ==
    /\ ~canceled[w] /\ Lives(w) /\ Incident
    /\ canceled' = [canceled EXCEPT ![w] = TRUE]
    /\ UNCHANGED <<suspend, pulling, proc, closer, jobs, deliveries>>

CloserMoves(w, from, to) ==
    /\ closer[w] = from /\ Lives(w)
    /\ closer' = [closer EXCEPT ![w] = to]
    /\ UNCHANGED <<suspend, canceled, pulling, proc, jobs, deliveries, incidents>>

\* The server drains for an interrupt and for a fault, and stops after Serve.
Close(w) ==
    /\ suspend[w] \/ proc[w] = "faulted" \/ Served(w)
    /\ CloserMoves(w, "open", "waiting")

HandlersDone(w) == Handling(w) = {} /\ CloserMoves(w, "waiting", "stopping")
ProcStop(w) == CloserMoves(w, "stopping", "stopped")
CloseReturns(w) == proc[w] = "over" /\ CloserMoves(w, "stopped", "closed")

ProcMoves(w, from, to) ==
    /\ proc[w] = from
    /\ proc' = [proc EXCEPT ![w] = to]
    /\ UNCHANGED <<suspend, canceled, pulling, closer, jobs, deliveries>>

ProcEnds(w) == ProcStopped(w) /\ ProcMoves(w, "running", "over") /\ UNCHANGED incidents
ProcBreaks(w) == closer[w] # "closed" /\ ProcMoves(w, "running", "broken") /\ Incident
\* An end nobody asked for is a fault, and Next goes on until the fault was answered.
ReportFault(w) == ~Shutdown(w) /\ ProcMoves(w, "broken", "faulted") /\ UNCHANGED incidents
StopAsked(w) ==
    /\ Shutdown(w)
    /\ ProcMoves(w, "broken", "over") \/ ProcMoves(w, "faulted", "over")
    /\ UNCHANGED incidents

\* The process is killed: its runs are, and nothing of it is written any more.
Die(w) ==
    /\ Lives(w) /\ Incident
    /\ proc' = [proc EXCEPT ![w] = "dead"]
    /\ run' = [d \in Delivery |-> IF at[d] = w THEN "none" ELSE run[d]]
    /\ view' = [d \in Delivery |-> IF at[d] = w THEN "none" ELSE view[d]]
    /\ UNCHANGED <<suspend, canceled, pulling, closer, jobs, job, at, handler, outcome, ending>>

-----------------------------------------------------------------------------
Handle(d) == Refuse(d) \/ HandOver(d) \/ ReturnClaimed(d) \/ ReturnAbandoned(d) \/ Dispose(d)

Runs(d) ==
    \/ AbandonWork(d) \/ LoadRun(d) \/ AnswerStored(d) \/ StartRun(d) \/ RunRefused(d)
    \/ RunReplies(d) \/ RunCompletes(d) \/ RunDefers(d) \/ RunFails(d) \/ RunCrashes(d)
    \/ RunSuspends(d) \/ RunIsCut(d)

Closes(w) == HandlersDone(w) \/ ProcStop(w) \/ CloseReturns(w)
Proc(w) == ProcEnds(w) \/ ReportFault(w) \/ StopAsked(w)

Next ==
    \/ \E d \in Delivery, j \in Job, w \in Worker : Deliver(d, j, w)
    \/ \E d \in Delivery : Settle(d) \/ LeaseRunsOut(d) \/ RenewFails(d) \/ Forget(d)
    \/ \E d \in Delivery : Handle(d) \/ Runs(d)
    \/ \E j \in Job : Supply(j) \/ RetryTask(j)
    \/ \E w \in Worker : Interrupt(w) \/ Cancel(w) \/ Close(w) \/ Closes(w) \/ Proc(w)
    \/ \E w \in Worker : PullerLeaves(w) \/ ProcBreaks(w) \/ Die(w)

\* The engine, handlers, runs and Close go on by themselves; a Close waits for the
\* handlers to have been gone together once, whichever come after.
Fairness ==
    /\ \A j \in Job : WF_vars(\E d \in Delivery, w \in Worker : Deliver(d, j, w))
    /\ \A d \in Delivery :
        WF_vars(Settle(d) \/ LeaseRunsOut(d) \/ Forget(d)) /\ WF_vars(Handle(d)) /\ WF_vars(Runs(d))
    /\ \A w \in Worker :
        /\ WF_vars(Closes(w)) /\ SF_vars(HandlersDone(w)) /\ WF_vars(Proc(w))
        /\ WF_vars(PullerLeaves(w))
        /\ WF_vars((proc[w] = "faulted" \/ Served(w)) /\ Close(w))

Spec == Init /\ [][Next]_vars /\ Fairness

-----------------------------------------------------------------------------
(* Correctness. *)

\* "A redelivery after a crash resumes rather than starting again" (handler.go 28-118): the
\* answer of a job is worked out once, however often its task is delivered, its lease is
\* lost, its run dies or is superseded.  It is worked out again only where a run took the
\* journal up with the answer in it and had not loaded it complete.
PaidOnce == \A j \in Job : paid[j] <= 1 \/ j \in blind

\* disposition (handler.go 194-269): a task is answered only with what its journal holds as
\* the answer, unless such a run came behind it.
FromJournal ==
    \A j \in Job : task[j] = "answered" => journal[j] \in {"replied", "done"} \/ j \in blind

\* Close (asyncjobs.go 374-419) returns, whether it comes after an interrupt, a processor
\* that broke, or a server that no longer takes the jobs its handlers still offer.
CloseEnds == \A w \in Worker : Shutdown(w) ~> closer[w] = "closed" \/ ~Lives(w)

\* "Its answer is stored" (handler.go 205): what completed in the journal reaches the task
\* as long as some worker goes on, through lost leases and workers that die in between,
\* unless another run makes it unfinished again.
AnswerArrives ==
    \A j \in Job :
        journal[j] = "done" ~> \/ task[j] # "new" \/ journal[j] # "done"
                              \/ \A w \in Worker : closer[w] # "open" \/ ~Lives(w)

-----------------------------------------------------------------------------
(* What the code says of itself, and does not keep. *)

\* What a drain or a lost lease costs is "not a lost answer and not a second run", since
\* "the redelivery finds a completed session and is answered from its journal without
\* calling a model" (asyncjobs.go 58-66).  It finds so only if it loads the journal after
\* the other run completed it, and not while that one is about to.
NeverPaidTwice == \A j \in Job : paid[j] <= 1

\* On a stop "runs end wherever they had reached and their jobs go back to the queue"
\* (asyncjobs.go 43-44).
StopReturns ==
    \A d \in Delivery : outcome[d] = "cut" /\ handler[d] = "returned" => ending[d] = "ready"
=============================================================================
