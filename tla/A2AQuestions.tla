---------------------------- MODULE A2AQuestions ----------------------------
(***************************************************************************)
(* The prompt channel with the prompter of one of its tasks, Asker: the    *)
(* run asks between its start and its end, cannot end in the middle of a   *)
(* question, and is one the channel's Close and the server wait for.  Its  *)
(* caller reaches it as long as its subscriptions stand.                   *)
(***************************************************************************)
EXTENDS A2AEndpoint

CONSTANTS
    Asker,      \* the task whose run asks
    Question, Approval, Answer, AnswerOf, Window    \* ElicitPrompter's

ASSUME AnswerAssumption == Answer \intersect {"none", "deferred", "aborted", "failed"} = {}

VARIABLES asking, wait, left, pending, buffer, alive, result, reply, stop, over

\* Its drain is the channel's shutdown, its context the server's.
Prompter == INSTANCE ElicitPrompter WITH drain <- shutdown

prompter == <<asking, wait, left, pending, buffer, alive, result, reply, stop, over>>
everything == <<vars, prompter>>

QInit == Init /\ Prompter!Init

-----------------------------------------------------------------------------
\* A run is at an end when it is at no question; end closes its prompter.
FinishRun(t) == Finish(t) /\ (t = Asker => wait = "idle")

CloseTask(t) ==
    /\ CloseWatch(t)
    /\ IF t = Asker THEN Prompter!EndTask ELSE UNCHANGED prompter

ServeTask(t) == EndHandOff(t) \/ StartRun(t) \/ FinishRun(t) \/ Abandon(t)

Endpoint ==
    \/ \E t \in Task : Arrive(t) \/ Handle(t) \/ GiveBack(t) \/ TakeWork(t) \/ ServeTask(t)
    \/ PullerLeaves \/ Shutdown \/ CloseReturns \/ Cancel

Asks ==
    \/ pc[Asker] = "running" /\ \E q \in Question : Prompter!Register(q)
    \/ Prompter!Publish \/ Prompter!PublishFails \/ Prompter!TakeAnswer \/ Prompter!TakeAlive
    \/ Prompter!Tick \/ Prompter!GiveUp \/ Prompter!Forget

\* What the transport brings: it has come in before the subscriptions go.
Hears ==
    \/ /\ watch[Asker]
       /\ \/ Prompter!HandleCancel
          \/ \E m \in Answer : Prompter!Route(m)
          \/ \E q \in Question : Prompter!StillWaiting(q)
    \/ \E m \in Answer : Prompter!Deliver(m)

QNext ==
    \/ Endpoint /\ UNCHANGED prompter
    \/ \E t \in Task : CloseTask(t)
    \/ (Asks \/ Hears) /\ UNCHANGED vars

\* A run that asks nothing comes to its end, and no run asks for ever; what else goes on
\* by itself does so as in the two alone.
QFairness ==
    /\ \A t \in Task :
        /\ WF_everything(Handle(t) /\ UNCHANGED prompter)
        /\ WF_everything(CloseTask(t)) /\ WF_everything(GiveBack(t) /\ UNCHANGED prompter)
        /\ WF_everything(ServeTask(t) /\ UNCHANGED prompter)
    /\ WF_everything((\E t \in Task : TakeWork(t)) /\ UNCHANGED prompter)
    /\ WF_everything((PullerLeaves \/ CloseReturns) /\ UNCHANGED prompter)
    /\ WF_everything(Stopped /\ Shutdown /\ UNCHANGED prompter)
    /\ WF_everything((Prompter!Publish \/ Prompter!Forget) /\ UNCHANGED vars)
    /\ SF_everything(Prompter!Tick /\ UNCHANGED vars)
    /\ SF_everything(Prompter!GiveUp /\ UNCHANGED vars)

QSpec == QInit /\ [][QNext]_everything /\ QFairness

-----------------------------------------------------------------------------
(* Correctness. *)

\* deliver (prompter.go 363-378): a question is answered by an answer to it, of which the
\* sender was told that it arrived, however late it was routed.
RightAnswer ==
    \A q \in Question, m \in Answer : result[q] = m => AnswerOf[m] = q /\ reply[m] = "delivered"

\* A drain "lets the window in force run down" (prompter.go 250-254): Close and the end of
\* the run are not held up by a caller that keeps its question open.
DrainEndsQuestions == shutdown ~> closed /\ Holders = {}

\* handleCancel closes stop (task.go 675-678): a caller that cancels is answered with an
\* ending, whichever question the run is at or comes to.
CancelEnds == stop ~> pc[Asker] = "over"
=============================================================================
