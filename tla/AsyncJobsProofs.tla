-------------------------- MODULE AsyncJobsProofs ---------------------------
(***************************************************************************)
(* The asynchronous jobs channel works an answer out once and answers a    *)
(* task from its journal only, for any jobs, workers and deliveries.       *)
(***************************************************************************)
EXTENDS AsyncJobs, TLAPS

\* A delivery that was not made has no run and nothing to say; one that was is of a job,
\* to a worker.
MadeInv(d) ==
    /\ handler[d] = "none" => run[d] = "none" /\ outcome[d] = None /\ ending[d] = None
    /\ handler[d] = "returned" => ending[d] # None
    /\ handler[d] # "none" => job[d] \in Job /\ at[d] \in Worker

TypeInv == TypeOK /\ \A d \in Delivery : MadeInv(d)

\* Each variable has its type, and only what was delivered runs.
THEOREM TypeCorrect == Spec => []TypeInv
<1> USE DeliveryAssumption DEF None
<1>1. Init => TypeInv
  <2>1. Init => /\ item \in [Job -> {"ready", "gone"} \union Delivery]
                /\ task \in [Job -> {"new", "answered", "failed", "terminated"}]
                /\ journal \in [Job -> Journal]
    BY DEF Init, Journal
  <2>2. Init => claim \in [Job -> Delivery \union {None}] /\ paid \in [Job -> Nat] /\ blind \subseteq Job
    BY DEF Init
  <2>3. Init => job \in [Delivery -> Job \union {None}] /\ at \in [Delivery -> Worker \union {None}]
    BY DEF Init
  <2>4. Init => /\ handler \in [Delivery -> {"none", "offering", "waiting", "returned", "gone"}]
                /\ run \in [Delivery -> {"none", "held", "loaded", "running", "replied", "ended"}]
                /\ view \in [Delivery -> Journal]
    BY DEF Init, Journal
  <2>5. Init => /\ outcome \in [Delivery -> Outcomes \union {None}]
                /\ ending \in [Delivery -> {None, "answered", "failed", "terminated", "ready"}]
    BY DEF Init
  <2>6. Init => /\ suspend \in [Worker -> BOOLEAN] /\ canceled \in [Worker -> BOOLEAN]
                /\ pulling \in [Worker -> BOOLEAN]
    BY DEF Init
  <2>7. Init => /\ proc \in [Worker -> {"running", "broken", "faulted", "over", "dead"}]
                /\ closer \in [Worker -> {"open", "waiting", "stopping", "stopped", "closed"}]
                /\ incidents \in 0 .. MaxIncidents
    BY DEF Init
  <2>8. Init => \A d \in Delivery : MadeInv(d)
    BY DEF Init, MadeInv
  <2> QED
    BY <2>1, <2>2, <2>3, <2>4, <2>5, <2>6, <2>7, <2>8 DEF TypeInv, TypeOK
<1>2. TypeInv /\ [Next]_vars => TypeInv'
  <2> SUFFICES ASSUME TypeInv, [Next]_vars
               PROVE  TypeInv'
    OBVIOUS
  <2> USE DEF TypeInv, TypeOK, MadeInv, vars, workers, jobs, record, deliveries, Incident
  <2>1. ASSUME NEW d \in Delivery, NEW j \in Job, NEW w \in Worker, Deliver(d, j, w) PROVE TypeInv'
    BY <2>1 DEF Deliver
  <2>2. ASSUME NEW d \in Delivery, Settle(d) PROVE TypeInv'
    <3>1. job[d] \in Job /\ ending[d] \in {"answered", "failed", "terminated", "ready"}
      BY <2>2 DEF Settle
    <3>2. task' \in [Job -> {"new", "answered", "failed", "terminated"}]
      BY <2>2, <3>1 DEF Settle
    <3>3. item' \in [Job -> {"ready", "gone"} \union Delivery]
      BY <2>2, <3>1 DEF Settle
    <3> QED BY <2>2, <3>2, <3>3 DEF Settle
  <2>3. ASSUME NEW d \in Delivery, LeaseRunsOut(d) \/ RenewFails(d) PROVE TypeInv'
    BY <2>3 DEF LeaseRunsOut, RenewFails
  <2>4. ASSUME NEW d \in Delivery, Forget(d) PROVE TypeInv'
    BY <2>4 DEF Forget
  <2>5. ASSUME NEW j \in Job, Supply(j) \/ RetryTask(j) PROVE TypeInv'
    BY <2>5 DEF Supply, RetryTask, Journal
  <2>6. ASSUME NEW d \in Delivery, Refuse(d) \/ ReturnClaimed(d) \/ ReturnAbandoned(d) PROVE TypeInv'
    BY <2>6 DEF Refuse, ReturnClaimed, ReturnAbandoned, Return
  <2>7. ASSUME NEW d \in Delivery, HandOver(d) PROVE TypeInv'
    BY <2>7 DEF HandOver
  <2>8. ASSUME NEW d \in Delivery, Dispose(d) PROVE TypeInv'
    <3>1. disposition(outcome[d]) \in {"answered", "failed", "terminated", "ready"}
      BY <2>8 DEF Dispose, disposition, Outcomes
    <3> QED BY <2>8, <3>1 DEF Dispose, Return
  <2>9. ASSUME NEW d \in Delivery, NEW out \in Outcomes, Report(d, out), run[d] # "none",
               journal' \in [Job -> Journal], UNCHANGED <<claim, paid, blind>>
        PROVE  TypeInv'
    <3>1. view' \in [Delivery -> Journal]
      BY <2>9 DEF Report, Journal
    <3> QED BY <2>9, <3>1 DEF Report
  <2>10. ASSUME NEW d \in Delivery, AbandonWork(d) \/ AnswerStored(d) \/ RunRefused(d) \/ RunCrashes(d)
         PROVE  TypeInv'
    <3>1. UNCHANGED record /\ run[d] # "none"
      BY <2>10 DEF AbandonWork, AnswerStored, RunRefused, RunCrashes, Loaded, Running
    <3>2. \E out \in Outcomes : Report(d, out)
      BY <2>10 DEF AbandonWork, AnswerStored, RunRefused, RunCrashes, Stored, Outcomes
    <3> QED BY <2>9, <3>1, <3>2
  <2>11. ASSUME NEW d \in Delivery, LoadRun(d) PROVE TypeInv'
    <3>1. job[d] \in Job /\ run[d] = "held"
      BY <2>11 DEF LoadRun
    <3>2. view' \in [Delivery -> Journal]
      BY <2>11, <3>1 DEF LoadRun
    <3> QED BY <2>11, <3>1, <3>2 DEF LoadRun
  <2>12. ASSUME NEW d \in Delivery, StartRun(d) \/ RunReplies(d) PROVE TypeInv'
    <3>1. job[d] \in Job /\ run[d] \in {"loaded", "running"}
      BY <2>12 DEF StartRun, Loaded, RunReplies, Running
    <3>2. \E to \in Journal : journal' = [journal EXCEPT ![job[d]] = to]
      <4>1. CASE StartRun(d)
        <5>1. journal' = [journal EXCEPT ![job[d]] =
                            IF journal[job[d]] = "none" THEN "open" ELSE journal[job[d]]]
          BY <4>1 DEF StartRun
        <5>2. (IF journal[job[d]] = "none" THEN "open" ELSE journal[job[d]]) \in Journal
          BY <3>1 DEF Journal
        <5> QED BY <5>1, <5>2
      <4>2. CASE RunReplies(d)
        BY <4>2 DEF RunReplies, Journal
      <4> QED BY <2>12, <4>1, <4>2
    <3>3. journal' \in [Job -> Journal]
      <4>1. PICK to \in Journal : journal' = [journal EXCEPT ![job[d]] = to]
        BY <3>2
      <4>2. journal \in [Job -> Journal]
        OBVIOUS
      <4> HIDE DEF TypeInv, TypeOK, MadeInv
      <4> QED BY <4>1, <4>2
    <3>4. claim' \in [Job -> Delivery \union {None}] /\ paid' \in [Job -> Nat] /\ blind' \subseteq Job
      BY <2>12, <3>1 DEF StartRun, Claim, RunReplies
    <3> QED BY <2>12, <3>1, <3>3, <3>4 DEF StartRun, Claim, RunReplies
  <2>13. ASSUME NEW d \in Delivery,
                RunCompletes(d) \/ RunDefers(d) \/ RunFails(d) \/ RunSuspends(d) \/ RunIsCut(d)
         PROVE  TypeInv'
    <3>1. job[d] \in Job /\ run[d] # "none" /\ Unfinished(job[d]) \in Journal
      BY <2>13 DEF RunCompletes, RunDefers, RunFails, RunSuspends, RunIsCut, RunEnds, Running,
                   Unfinished, Journal
    <3>2. UNCHANGED <<claim, paid, blind>>
      BY <2>13 DEF RunCompletes, RunDefers, RunFails, RunSuspends, RunIsCut, RunEnds, Terminal
    <3>3. \/ UNCHANGED journal
          \/ \E to \in Journal : journal' = [journal EXCEPT ![job[d]] = to]
      BY <2>13, <3>1 DEF RunCompletes, RunDefers, RunFails, RunSuspends, RunIsCut, RunEnds, Terminal,
                         Journal
    <3>4. \E out \in Outcomes : Report(d, out)
      BY <2>13 DEF RunCompletes, RunDefers, RunFails, RunSuspends, RunIsCut, RunEnds, Outcomes
    <3> QED BY <2>9, <3>1, <3>2, <3>3, <3>4
  <2>14. ASSUME NEW w \in Worker, Interrupt(w) \/ Cancel(w) \/ PullerLeaves(w) PROVE TypeInv'
    <3>1. incidents' \in 0 .. MaxIncidents
      BY <2>14 DEF Interrupt, Cancel, PullerLeaves
    <3>2. /\ suspend' \in [Worker -> BOOLEAN] /\ canceled' \in [Worker -> BOOLEAN]
          /\ pulling' \in [Worker -> BOOLEAN]
      <4>1. CASE Interrupt(w)
        BY <4>1 DEF Interrupt
      <4>2. CASE Cancel(w)
        BY <4>2 DEF Cancel
      <4>3. CASE PullerLeaves(w)
        BY <4>3 DEF PullerLeaves
      <4> QED BY <2>14, <4>1, <4>2, <4>3
    <3>3. UNCHANGED <<proc, closer, jobs, deliveries>>
      BY <2>14 DEF Interrupt, Cancel, PullerLeaves
    <3> QED BY <3>1, <3>2, <3>3
  <2>15. ASSUME NEW w \in Worker, Close(w) \/ HandlersDone(w) \/ ProcStop(w) \/ CloseReturns(w)
         PROVE  TypeInv'
    BY <2>15 DEF Close, HandlersDone, ProcStop, CloseReturns, CloserMoves
  <2>16. ASSUME NEW w \in Worker, ProcEnds(w) \/ ProcBreaks(w) \/ ReportFault(w) \/ StopAsked(w)
         PROVE  TypeInv'
    BY <2>16 DEF ProcEnds, ProcBreaks, ReportFault, StopAsked, ProcMoves
  <2>17. ASSUME NEW w \in Worker, Die(w) PROVE TypeInv'
    <3>1. incidents' \in 0 .. MaxIncidents /\ proc' \in [Worker -> {"running", "broken", "faulted", "over", "dead"}]
      BY <2>17 DEF Die
    <3>2. view' \in [Delivery -> Journal]
      BY <2>17 DEF Die, Journal
    <3>3. \A e \in Delivery : run'[e] \in {run[e], "none"}
      BY <2>17 DEF Die
    <3>4. run' \in [Delivery -> {"none", "held", "loaded", "running", "replied", "ended"}]
      BY <2>17 DEF Die
    <3>5. UNCHANGED <<suspend, canceled, pulling, closer, jobs, job, at, handler, outcome, ending>>
      BY <2>17 DEF Die
    <3> QED BY <3>1, <3>2, <3>3, <3>4, <3>5
  <2>18. CASE UNCHANGED vars
    BY <2>18
  <2> QED
    BY <2>1, <2>2, <2>3, <2>4, <2>5, <2>6, <2>7, <2>8, <2>10, <2>11, <2>12, <2>13, <2>14, <2>15,
       <2>16, <2>17, <2>18
    DEF Next, Handle, Runs, Closes, Proc
<1> QED
  BY <1>1, <1>2, PTL DEF Spec

-----------------------------------------------------------------------------
(* Answers. *)

Answered(j) == journal[j] \in {"replied", "done"}

\* What a delivery may have in hand of a job.
FitsJournal(d) ==
    /\ run[d] = "running" /\ Holds(d) => ~Answered(job[d])
    /\ run[d] = "replied" => Answered(job[d])
    /\ run[d] = "loaded" /\ view[d] = "done" => Answered(job[d])
    /\ outcome[d] = "answer" => Answered(job[d])
    /\ ending[d] = "answered" => Answered(job[d])

\* Where no run took a journal up blind, a run that is at work and has the journal has not
\* answered yet, and an answer on its way to a task is in the journal and stays there.
AnswerInv ==
    /\ PaidOnce
    /\ FromJournal
    /\ \A j \in Job \ blind : paid[j] # 0 => Answered(j)
    /\ \A d \in Delivery : job[d] \notin blind => FitsJournal(d)

\* The claim on the journal keeps a superseded run from answering again or from taking an
\* answer back.
THEOREM AnswersKept == Spec => []AnswerInv
<1> USE DeliveryAssumption DEF None
<1>1. Init => AnswerInv
  BY DEF Init, AnswerInv, FitsJournal, PaidOnce, FromJournal
<1>2. TypeInv /\ AnswerInv /\ [Next]_vars => AnswerInv'
  <2> SUFFICES ASSUME TypeInv, AnswerInv, [Next]_vars
               PROVE  AnswerInv'
    OBVIOUS
  <2> USE DEF TypeInv, TypeOK, MadeInv, AnswerInv, PaidOnce, FromJournal, vars, workers, jobs, record, deliveries
  <2>0. \A d \in Delivery :
           run[d] # "none" \/ outcome[d] = "answer" \/ ending[d] = "answered" => job[d] \in Job
    OBVIOUS
  \* The journals are as they were, and nobody has more in hand of them.
  <2>a. ASSUME UNCHANGED record, task' = task,
               \A d \in Delivery :
                  /\ FitsJournal(d)' \/ (job'[d] = job[d] /\ (FitsJournal(d) => FitsJournal(d)'))
        PROVE  AnswerInv'
    BY <2>a DEF Answered
  <2>1. ASSUME NEW d \in Delivery, NEW j \in Job, NEW w \in Worker, Deliver(d, j, w) PROVE AnswerInv'
    <3>1. UNCHANGED <<record, task, run, view, outcome, ending>> /\ handler[d] = "none"
      BY <2>1 DEF Deliver
    <3>2. FitsJournal(d)'
      BY <3>1 DEF FitsJournal
    <3>3. \A e \in Delivery \ {d} : job'[e] = job[e]
      BY <2>1 DEF Deliver
    <3> QED BY <2>a, <3>1, <3>2, <3>3 DEF FitsJournal, Holds, Answered
  <2>2. ASSUME NEW d \in Delivery, Settle(d) PROVE AnswerInv'
    <3>1. job[d] \in Job /\ UNCHANGED <<record, job, run, view>>
      BY <2>2 DEF Settle
    <3>2. task' = task \/ task' = [task EXCEPT ![job[d]] = ending[d]]
      BY <2>2 DEF Settle
    <3>3. FromJournal'
      BY <2>2, <3>1, <3>2 DEF Settle, FitsJournal, Answered
    <3>4. \A e \in Delivery : FitsJournal(e) => FitsJournal(e)'
      BY <2>2, <3>1 DEF Settle, FitsJournal, Holds, Answered
    <3> QED BY <3>1, <3>3, <3>4 DEF Answered
  <2>3. ASSUME NEW d \in Delivery, LeaseRunsOut(d) \/ RenewFails(d) PROVE AnswerInv'
    BY <2>3, <2>a DEF LeaseRunsOut, RenewFails, FitsJournal, Holds, Answered
  <2>4. ASSUME NEW d \in Delivery, Forget(d) PROVE AnswerInv'
    <3>1. /\ UNCHANGED <<task, journal, paid, blind, view>>
          /\ run'[d] = "none" /\ outcome'[d] = None /\ ending'[d] = None
          /\ \A j \in Job : claim'[j] \in {claim[j], None}
          /\ \A e \in Delivery \ {d} : /\ run'[e] = run[e] /\ outcome'[e] = outcome[e]
                                      /\ ending'[e] = ending[e] /\ job'[e] = job[e]
      BY <2>4 DEF Forget
    <3>2. FitsJournal(d)'
      BY <3>1 DEF FitsJournal
    <3>3. ASSUME NEW e \in Delivery \ {d}, FitsJournal(e) PROVE FitsJournal(e)'
      BY <2>0, <3>1, <3>3 DEF FitsJournal, Holds, Answered
    <3> QED BY <3>1, <3>2, <3>3 DEF Answered
  <2>5. ASSUME NEW j \in Job, Supply(j) PROVE AnswerInv'
    <3>1. /\ journal[j] = "deferred" /\ journal' = [journal EXCEPT ![j] = "open"]
          /\ claim' = [claim EXCEPT ![j] = None]
          /\ UNCHANGED <<task, paid, blind, deliveries>>
      BY <2>5 DEF Supply
    <3>2. \A i \in Job : Answered(i)' <=> Answered(i)
      BY <3>1 DEF Answered
    <3>3. \A e \in Delivery : job[e] \in Job /\ FitsJournal(e) => FitsJournal(e)'
      BY <3>1, <3>2 DEF FitsJournal, Holds
    <3>4. \A e \in Delivery : job[e] \notin Job => FitsJournal(e)'
      BY <2>0, <3>1 DEF FitsJournal
    <3> QED BY <3>1, <3>2, <3>3, <3>4 DEF Answered
  <2>6. ASSUME NEW j \in Job, RetryTask(j) PROVE AnswerInv'
    BY <2>6 DEF RetryTask, FitsJournal, Holds, Answered
  <2>7. ASSUME NEW d \in Delivery,
               Refuse(d) \/ ReturnClaimed(d) \/ ReturnAbandoned(d) \/ HandOver(d) \/ Dispose(d)
        PROVE  AnswerInv'
    <3>1. UNCHANGED <<record, task, job, view, outcome>>
      BY <2>7 DEF Refuse, ReturnClaimed, ReturnAbandoned, Return, HandOver, Dispose
    <3>2. \/ run' = run
          \/ run' = [run EXCEPT ![d] = "held"]
      BY <2>7 DEF Refuse, ReturnClaimed, ReturnAbandoned, Return, HandOver, Dispose
    <3>3. Dispose(d) /\ disposition(outcome[d]) = "answered" => outcome[d] = "answer"
      BY DEF Dispose, disposition, Outcomes
    <3>4. \A e \in Delivery :
            ending'[e] = "answered" => ending[e] = "answered" \/ outcome[e] = "answer"
      <4>1. CASE Dispose(d)
        BY <3>3, <4>1 DEF Dispose, Return
      <4>2. CASE ~Dispose(d)
        BY <2>7, <4>2 DEF Refuse, ReturnClaimed, ReturnAbandoned, Return, HandOver
      <4> QED BY <4>1, <4>2
    <3> QED BY <2>a, <3>1, <3>2, <3>4 DEF FitsJournal, Holds, Answered
  <2>8. ASSUME NEW d \in Delivery, AbandonWork(d) \/ AnswerStored(d) \/ RunRefused(d) \/ RunCrashes(d)
        PROVE  AnswerInv'
    <3>1. UNCHANGED <<record, task, job, ending>>
      BY <2>8 DEF AbandonWork, AnswerStored, RunRefused, RunCrashes, Report
    <3>2. run'[d] = "ended" /\ \A e \in Delivery \ {d} : run'[e] = run[e] /\ view'[e] = view[e]
      BY <2>8 DEF AbandonWork, AnswerStored, RunRefused, RunCrashes, Report
    <3>3. \A e \in Delivery :
            outcome'[e] = "answer" =>
              outcome[e] = "answer" \/ (e = d /\ run[d] = "loaded" /\ view[d] = "done")
      BY <2>8 DEF AbandonWork, AnswerStored, RunRefused, RunCrashes, Report, Stored, Loaded
    <3> QED BY <2>a, <3>1, <3>2, <3>3 DEF FitsJournal, Holds, Answered
  <2>9. ASSUME NEW d \in Delivery, LoadRun(d) PROVE AnswerInv'
    <3>1. /\ UNCHANGED <<record, task, job, outcome, ending>>
          /\ run' = [run EXCEPT ![d] = "loaded"]
          /\ view' = [view EXCEPT ![d] = journal[job[d]]]
      BY <2>9 DEF LoadRun
    <3> QED BY <2>a, <3>1 DEF FitsJournal, Holds, Answered
  <2>10. ASSUME NEW d \in Delivery, StartRun(d) PROVE AnswerInv'
    <3>1. /\ job[d] \in Job /\ view[d] # "done"
          /\ UNCHANGED <<task, paid, job, outcome, ending, view>>
          /\ run' = [run EXCEPT ![d] = "running"] /\ claim' = [claim EXCEPT ![job[d]] = d]
      BY <2>10 DEF StartRun, Loaded, Claim
    <3>2. \A j \in Job : Answered(j)' <=> Answered(j)
      BY <2>10, <3>1 DEF StartRun, Answered
    <3>3. blind \subseteq blind' /\ (job[d] \notin blind' => ~Answered(job[d]))
      BY <2>10, <3>1 DEF StartRun, Claim, Answered
    <3>4. ASSUME NEW e \in Delivery, job[e] \notin blind', job[e] \in Job PROVE FitsJournal(e)'
      <4>1. FitsJournal(e)
        BY <3>3, <3>4
      <4>2. CASE e = d
        BY <3>1, <3>2, <3>3, <3>4, <4>1, <4>2 DEF FitsJournal
      <4>3. CASE e # d
        <5>1. Holds(e)' => Holds(e)
          BY <3>1, <3>4, <4>3 DEF Holds
        <5> QED BY <3>1, <3>2, <3>4, <4>1, <4>3, <5>1 DEF FitsJournal
      <4> QED BY <4>2, <4>3
    <3>5. ASSUME NEW e \in Delivery, job[e] \notin Job PROVE FitsJournal(e)'
      BY <2>0, <3>1, <3>5 DEF FitsJournal
    <3> QED BY <3>1, <3>2, <3>3, <3>4, <3>5 DEF Answered
  \* What is written by who has the journal, and has not answered before.
  <2>b. ASSUME NEW d \in Delivery, job[d] \in Job, UNCHANGED <<task, claim, blind, job, ending>>,
               job[d] \notin blind =>
                  /\ Answered(job[d]) => Answered(job[d])'
                  /\ Answered(job[d])' /\ ~Answered(job[d]) => run[d] = "running" /\ Holds(d)
                  /\ paid'[job[d]] <= 1
                  /\ paid'[job[d]] # 0 => Answered(job[d])'
                  /\ run'[d] = "replied" \/ outcome'[d] = "answer" => Answered(job[d])',
               run'[d] \in {"replied", "ended"},
               \A j \in Job \ {job[d]} : journal'[j] = journal[j] /\ paid'[j] = paid[j],
               \A e \in Delivery \ {d} :
                  run'[e] = run[e] /\ view'[e] = view[e] /\ outcome'[e] = outcome[e]
        PROVE  AnswerInv'
    <3>1. \A j \in Job \ blind : Answered(j) => Answered(j)'
      BY <2>b DEF Answered
    <3>2. ASSUME NEW e \in Delivery, job[e] \notin blind, job[e] \in Job PROVE FitsJournal(e)'
      <4>1. FitsJournal(e) /\ (Answered(job[e]) => Answered(job[e])')
        <5>1. job[e] \in Job \ blind /\ job'[e] = job[e]
          BY <2>b, <3>2
        <5>2. FitsJournal(e)
          BY <3>2
        <5>3. Answered(job[e]) => journal'[job[e]] \in {"replied", "done"}
          BY <3>1, <5>1 DEF Answered
        <5> QED BY <5>1, <5>2, <5>3 DEF Answered
      <4>2. CASE e = d
        BY <2>b, <3>2, <4>1, <4>2 DEF FitsJournal
      <4>3. CASE e # d
        <5>1. Holds(e)' <=> Holds(e)
          BY <2>b DEF Holds
        <5>2. run[e] = "running" /\ Holds(e) => ~Answered(job[e])'
          <6>1. CASE job[e] = job[d]
            BY <2>b, <3>2, <4>1, <4>3, <6>1 DEF FitsJournal, Holds
          <6>2. CASE job[e] # job[d]
            BY <2>b, <3>2, <4>1, <6>2 DEF FitsJournal, Answered
          <6> QED BY <6>1, <6>2
        <5> QED BY <2>b, <4>1, <4>3, <5>1, <5>2 DEF FitsJournal
      <4> QED BY <4>2, <4>3
    <3>3. ASSUME NEW e \in Delivery, job[e] \notin Job PROVE FitsJournal(e)'
      BY <2>0, <2>b, <3>3 DEF FitsJournal
    <3>4. PaidOnce' /\ \A j \in Job \ blind : paid'[j] # 0 => Answered(j)'
      BY <2>b DEF Answered
    <3>5. FromJournal'
      BY <2>b, <3>1 DEF Answered
    <3> QED BY <2>b, <3>2, <3>3, <3>4, <3>5
  <2>11. ASSUME NEW d \in Delivery, RunReplies(d) PROVE AnswerInv'
    <3>1. /\ job[d] \in Job /\ run[d] = "running" /\ Holds(d)
          /\ UNCHANGED <<task, claim, blind, job, view, outcome, ending>>
          /\ run' = [run EXCEPT ![d] = "replied"]
          /\ \E to \in {"replied", "done"} : journal' = [journal EXCEPT ![job[d]] = to]
          /\ paid' = [paid EXCEPT ![job[d]] = @ + 1]
      BY <2>11 DEF RunReplies, Running
    <3>2. job[d] \notin blind => ~Answered(job[d]) /\ paid[job[d]] = 0
      BY <3>1 DEF FitsJournal
    <3>3. Answered(job[d])' /\ paid'[job[d]] = paid[job[d]] + 1
      BY <3>1 DEF Answered
    <3> QED BY <2>b, <3>1, <3>2, <3>3
  <2>12. ASSUME NEW d \in Delivery, RunCompletes(d) PROVE AnswerInv'
    <3>1. /\ job[d] \in Job /\ run[d] = "replied" /\ Report(d, "answer")
          /\ UNCHANGED <<task, claim, paid, blind, job, ending>>
          /\ journal' = journal \/ journal' = [journal EXCEPT ![job[d]] = "done"]
      BY <2>12 DEF RunCompletes, Terminal, Report
    <3>2. job[d] \notin blind => Answered(job[d]) /\ Answered(job[d])'
      BY <3>1 DEF FitsJournal, Answered
    <3>3. \A j \in Job \ {job[d]} : journal'[j] = journal[j]
      BY <3>1
    <3> QED BY <2>b, <3>1, <3>2, <3>3 DEF Report
  <2>13. ASSUME NEW d \in Delivery, RunDefers(d) \/ RunFails(d) \/ RunSuspends(d) \/ RunIsCut(d)
         PROVE  AnswerInv'
    <3>1. /\ job[d] \in Job /\ run[d] = "running"
          /\ UNCHANGED <<task, claim, paid, blind, job, ending>>
      BY <2>13 DEF RunDefers, RunFails, RunSuspends, RunIsCut, RunEnds, Running, Terminal, Report
    <3>2. \/ UNCHANGED journal
          \/ /\ Holds(d)
             /\ \/ journal' = [journal EXCEPT ![job[d]] = "deferred"]
                \/ journal' = [journal EXCEPT ![job[d]] = Unfinished(job[d])]
      BY <2>13 DEF RunDefers, RunFails, RunSuspends, RunIsCut, RunEnds, Terminal
    <3>3. Holds(d) /\ job[d] \notin blind => ~Answered(job[d])
      BY <3>1 DEF FitsJournal
    <3>4. job[d] \notin blind => (Answered(job[d])' <=> Answered(job[d]))
      BY <3>1, <3>2, <3>3 DEF Answered, Unfinished
    <3>5. \A j \in Job \ {job[d]} : journal'[j] = journal[j]
      BY <3>2
    <3>6. \E out \in Outcomes \ {"answer"} : Report(d, out)
      BY <2>13 DEF RunDefers, RunFails, RunSuspends, RunIsCut, RunEnds, Outcomes
    <3>7. outcome'[d] = "answer" => outcome[d] = "answer"
      BY <3>6 DEF Report
    <3>8. job[d] \notin blind /\ outcome'[d] = "answer" => Answered(job[d])'
      BY <3>4, <3>7 DEF FitsJournal
    <3>9. /\ run'[d] = "ended"
          /\ \A e \in Delivery \ {d} :
                run'[e] = run[e] /\ view'[e] = view[e] /\ outcome'[e] = outcome[e]
      BY <3>6 DEF Report
    <3> QED BY <2>b, <3>1, <3>4, <3>5, <3>8, <3>9
  <2>14. ASSUME NEW w \in Worker, Interrupt(w) \/ Cancel(w) \/ PullerLeaves(w) PROVE AnswerInv'
    BY <2>14 DEF Interrupt, Cancel, PullerLeaves, FitsJournal, Holds, Answered
  <2>15. ASSUME NEW w \in Worker, Close(w) \/ HandlersDone(w) \/ ProcStop(w) \/ CloseReturns(w)
         PROVE  AnswerInv'
    BY <2>15 DEF Close, HandlersDone, ProcStop, CloseReturns, CloserMoves, FitsJournal, Holds, Answered
  <2>16. ASSUME NEW w \in Worker, ProcEnds(w) \/ ProcBreaks(w) \/ ReportFault(w) \/ StopAsked(w)
         PROVE  AnswerInv'
    BY <2>16 DEF ProcEnds, ProcBreaks, ReportFault, StopAsked, ProcMoves, FitsJournal, Holds, Answered
  <2>17. ASSUME NEW w \in Worker, Die(w) PROVE AnswerInv'
    BY <2>17 DEF Die, FitsJournal, Holds, Answered
  <2>18. CASE UNCHANGED vars
    BY <2>18 DEF FitsJournal, Holds, Answered
  <2> QED
    BY <2>1, <2>2, <2>3, <2>4, <2>5, <2>6, <2>7, <2>8, <2>9, <2>10, <2>11, <2>12, <2>13, <2>14,
       <2>15, <2>16, <2>17, <2>18
    DEF Next, Handle, Runs, Closes, Proc
<1> QED
  BY <1>1, <1>2, TypeCorrect, PTL DEF Spec

\* The answer of a job is worked out once, however often its task is delivered, but where a
\* run took its journal up blind (PaidOnce).
THEOREM AnswerPaidOnce == Spec => []PaidOnce
<1>1. AnswerInv => PaidOnce
  BY DEF AnswerInv
<1> QED
  BY <1>1, AnswersKept, PTL

\* A task is answered only with what its journal holds as the answer, with that exception
\* (FromJournal).
THEOREM AnsweredFromJournal == Spec => []FromJournal
<1>1. AnswerInv => FromJournal
  BY DEF AnswerInv
<1> QED
  BY <1>1, AnswersKept, PTL
=============================================================================
