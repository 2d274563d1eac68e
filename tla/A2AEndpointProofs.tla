------------------------- MODULE A2AEndpointProofs --------------------------
(***************************************************************************)
(* The prompt channel of the A2A endpoint accounts for its workers, runs   *)
(* one turn of a conversation at a time and tells each caller one ending,  *)
(* for any requests, any ids and any number of workers; and it goes on to  *)
(* do so with a prompter in it, whose answers are those to its questions.  *)
(***************************************************************************)
EXTENDS A2AQuestions, TLAPS

\* What the channel may do, without what it is bound to.
Safety == Init /\ [][Next]_vars

\* Each variable has its type.
LEMMA Typed == Safety => []TypeOK
<1>1. Init => TypeOK
  <2>1. Init => inFlight \in [Request -> Task \union {Nobody}]
    BY DEF Init
  <2>2. Init => pc \in [Task -> Working \union Handling \union Ending \union {"new", "over"}]
    BY DEF Init
  <2>3. Init => ack \in [Task -> {"none", "no", "yes"}] /\ final \in [Task -> Nat]
    BY DEF Init
  <2>4. Init => ended \in [Task -> BOOLEAN] /\ watch \in [Task -> BOOLEAN]
    BY DEF Init
  <2> QED
    BY <2>1, <2>2, <2>3, <2>4 DEF Init, TypeOK
<1>2. TypeOK /\ [Next]_vars => TypeOK'
  <2> SUFFICES ASSUME TypeOK, [Next]_vars
               PROVE  TypeOK'
    OBVIOUS
  <2> USE DEF TypeOK, Goes, Handling, Working, Ending
  <2>a. \A t \in Task : RequestOf[t] \in Request
    BY DEF Request
  <2>1. ASSUME NEW t \in Task, Arrive(t) \/ RefuseAdmission(t) PROVE TypeOK'
    BY <2>1 DEF Arrive, RefuseAdmission
  <2>2. ASSUME NEW t \in Task, Admit(t) PROVE TypeOK'
    BY <2>2, <2>a DEF Admit
  <2>3. ASSUME NEW t \in Task, WatchCancel(t) \/ Accept(t) \/ AcceptFails(t) \/ HandOff(t) PROVE TypeOK'
    BY <2>3 DEF WatchCancel, Accept, AcceptFails, HandOff
  <2>4. ASSUME NEW t \in Task, WatchFails(t) PROVE TypeOK'
    BY <2>4, <2>a DEF WatchFails, Release
  <2>b. ASSUME NEW t \in Task, NEW from, NEW refusing, Terminate(t, from, refusing), pulling' \in BOOLEAN
        PROVE  TypeOK'
    <3>1. ack' \in [Task -> {"none", "no", "yes"}]
      BY <2>b DEF Terminate, Say
    <3>2. final' \in [Task -> Nat]
      BY <2>b DEF Terminate, Say
    <3>3. /\ pc' \in [Task -> Working \union Handling \union Ending \union {"new", "over"}]
          /\ ended' \in [Task -> BOOLEAN]
      BY <2>b DEF Terminate
    <3> QED BY <2>b, <3>1, <3>2, <3>3 DEF Terminate
  <2>5. ASSUME NEW t \in Task, Refuse(t) \/ RefuseWatched(t) PROVE TypeOK'
    BY <2>5, <2>b DEF Refuse, RefuseWatched
  <2>6. ASSUME NEW t \in Task, EndHandOff(t) \/ Finish(t) \/ Abandon(t) PROVE TypeOK'
    BY <2>6, <2>b DEF EndHandOff, Finish, Abandon
  <2>7. ASSUME NEW t \in Task, ServeRead(t) PROVE TypeOK'
    BY <2>7 DEF ServeRead
  <2>8. ASSUME NEW t \in Task, CloseWatch(t) PROVE TypeOK'
    BY <2>8 DEF CloseWatch
  <2>9. ASSUME NEW t \in Task, GiveBack(t) PROVE TypeOK'
    BY <2>9, <2>a DEF GiveBack, Release
  <2>10. ASSUME NEW t \in Task, TakeWork(t) \/ StartRun(t) PROVE TypeOK'
    BY <2>10 DEF TakeWork, StartRun
  <2>11. CASE PullerLeaves \/ Shutdown \/ CloseReturns \/ Cancel
    BY <2>11 DEF PullerLeaves, Shutdown, CloseReturns, Cancel
  <2>12. CASE UNCHANGED vars
    BY <2>12 DEF vars
  <2> QED
    BY <2>1, <2>2, <2>3, <2>4, <2>5, <2>6, <2>7, <2>8, <2>9, <2>10, <2>11, <2>12
    DEF Next, Handle, EndTask, Serve
<1> QED
  BY <1>1, <1>2, PTL DEF Safety

-----------------------------------------------------------------------------
(* Endings. *)

\* How far a request's acknowledgement and ending are, by where it is: an ending is
\* claimed on the way to "ending", and only an accepted prompt is handed over.
ToldInv(t) ==
    /\ pc[t] \notin Ending \union {"over"} => ~ended[t]
    /\ ~ended[t] => final[t] = 0
    /\ final[t] <= 1
    /\ final[t] = 1 => ack[t] # "none"
    /\ pc[t] \in {"accepted", "handing", "held", "running"} => ack[t] = "yes"
    /\ pc[t] \in {"new", "arrived", "reading", "refusing", "admitted", "watched"} => ack[t] = "none"
    /\ pc[t] \in Ending \union {"over"} /\ ack[t] = "yes" => final[t] = 1

\* A caller is told one ending, only after an ack, and one that was accepted is told.
LEMMA Told == Safety => []AckedOnce
<1> DEFINE Inv == \A t \in Task : ToldInv(t)
<1>1. Init => Inv
  BY DEF Init, ToldInv, Ending
<1>2. TypeOK /\ Inv /\ [Next]_vars => Inv'
  <2> SUFFICES ASSUME TypeOK, Inv, [Next]_vars
               PROVE  Inv'
    OBVIOUS
  <2> USE DEF TypeOK, ToldInv, Goes, Handling, Working, Ending
  <2>1. ASSUME NEW t \in Task, Arrive(t) \/ RefuseAdmission(t) PROVE Inv'
    BY <2>1 DEF Arrive, RefuseAdmission
  <2>2. ASSUME NEW t \in Task, Admit(t) \/ WatchCancel(t) \/ WatchFails(t) PROVE Inv'
    BY <2>2 DEF Admit, WatchCancel, WatchFails
  <2>3. ASSUME NEW t \in Task, Accept(t) \/ AcceptFails(t) \/ HandOff(t) PROVE Inv'
    BY <2>3 DEF Accept, AcceptFails, HandOff
  <2>4. ASSUME NEW t \in Task, Refuse(t) \/ RefuseWatched(t) PROVE Inv'
    BY <2>4 DEF Refuse, RefuseWatched, Terminate, Say
  <2>5. ASSUME NEW t \in Task, EndHandOff(t) \/ Finish(t) \/ Abandon(t) PROVE Inv'
    BY <2>5 DEF EndHandOff, Finish, Abandon, Terminate, Say
  <2>6. ASSUME NEW t \in Task, ServeRead(t) PROVE Inv'
    BY <2>6 DEF ServeRead
  <2>7. ASSUME NEW t \in Task, CloseWatch(t) \/ GiveBack(t) PROVE Inv'
    BY <2>7 DEF CloseWatch, GiveBack
  <2>8. ASSUME NEW t \in Task, TakeWork(t) \/ StartRun(t) PROVE Inv'
    BY <2>8 DEF TakeWork, StartRun
  <2>9. CASE PullerLeaves \/ Shutdown \/ CloseReturns \/ Cancel
    BY <2>9 DEF PullerLeaves, Shutdown, CloseReturns, Cancel
  <2>10. CASE UNCHANGED vars
    BY <2>10 DEF vars
  <2> QED
    BY <2>1, <2>2, <2>3, <2>4, <2>5, <2>6, <2>7, <2>8, <2>9, <2>10
    DEF Next, Handle, EndTask, Serve
<1>3. Inv => AckedOnce
  BY DEF ToldInv, AckedOnce
<1> QED
  BY <1>1, <1>2, <1>3, Typed, PTL DEF Safety

-----------------------------------------------------------------------------
(* Workers. *)

\* The workers are held by the tasks that were admitted and have not given theirs back,
\* each under its own request id, and no two of them prompt one conversation.
HoldInv ==
    /\ \A t \in Task : pc[t] \in Working => inFlight[RequestOf[t]] = t
    /\ \A r \in Request : inFlight[r] # Nobody =>
         RequestOf[inFlight[r]] = r /\ pc[inFlight[r]] \in Working \union Ending
    /\ \A r, s \in Request :
         r # s /\ inFlight[r] # Nobody /\ inFlight[s] # Nobody =>
           SessionOf[inFlight[r]] # SessionOf[inFlight[s]]

\* The workers stay accounted for.
LEMMA Holding == Safety => []HoldInv
<1> USE TaskAssumption
<1>a. \A t \in Task : RequestOf[t] \in Request
  BY DEF Request
<1>1. Init => HoldInv
  BY DEF Init, HoldInv, Working
<1>2. TypeOK /\ HoldInv /\ [Next]_vars => HoldInv'
  <2> SUFFICES ASSUME TypeOK, HoldInv, [Next]_vars
               PROVE  HoldInv'
    OBVIOUS
  <2> USE <1>a DEF TypeOK, HoldInv, Goes, Working, Ending
  <2>1. ASSUME NEW t \in Task, Admit(t) PROVE HoldInv'
    <3>1. \A r \in Request : inFlight[r] # Nobody => SessionOf[inFlight[r]] # SessionOf[t]
      BY <2>1 DEF Admit, Admissible, Holders
    <3> QED BY <2>1, <3>1 DEF Admit, Admissible
  <2>2. ASSUME NEW t \in Task, WatchFails(t) \/ GiveBack(t) PROVE HoldInv'
    BY <2>2 DEF WatchFails, GiveBack, Release
  <2>3. ASSUME NEW t \in Task, UNCHANGED inFlight, pc' = [pc EXCEPT ![t] = pc'[t]],
               \/ pc[t] \notin Working \union Ending /\ pc'[t] \notin Working
               \/ pc[t] \in Working /\ pc'[t] \in Working \union Ending
               \/ pc[t] \in Ending /\ pc'[t] \in Ending
        PROVE  HoldInv'
    BY <2>3
  <2>4. ASSUME NEW t \in Task,
               Arrive(t) \/ RefuseAdmission(t) \/ WatchCancel(t) \/ Accept(t) \/ AcceptFails(t) \/ HandOff(t)
        PROVE  HoldInv'
    BY <2>3, <2>4 DEF Arrive, RefuseAdmission, WatchCancel, Accept, AcceptFails, HandOff
  <2>5. ASSUME NEW t \in Task, CloseWatch(t) \/ TakeWork(t) \/ StartRun(t) PROVE HoldInv'
    BY <2>3, <2>5 DEF CloseWatch, TakeWork, StartRun
  <2>c. ASSUME NEW t \in Task, NEW from \in {"refusing", "watched", "handing", "held", "running"},
               NEW refusing, Terminate(t, from, refusing)
        PROVE  HoldInv'
    <3>1. /\ UNCHANGED inFlight
          /\ pc[t] = from
          /\ pc' = [pc EXCEPT ![t] = "ending"]
      BY <2>c DEF Terminate
    <3> QED BY <2>3, <3>1
  <2>6. ASSUME NEW t \in Task, Refuse(t) \/ RefuseWatched(t) PROVE HoldInv'
    BY <2>c, <2>6 DEF Refuse, RefuseWatched
  <2>d. ASSUME NEW t \in Task, ServeRead(t) PROVE HoldInv'
    BY <2>d DEF ServeRead
  <2>7. ASSUME NEW t \in Task, EndHandOff(t) \/ Finish(t) \/ Abandon(t) PROVE HoldInv'
    BY <2>c, <2>7 DEF EndHandOff, Finish, Abandon
  <2>8. CASE PullerLeaves \/ Shutdown \/ CloseReturns \/ Cancel
    BY <2>8 DEF PullerLeaves, Shutdown, CloseReturns, Cancel
  <2>9. CASE UNCHANGED vars
    BY <2>9 DEF vars
  <2> QED
    BY <2>1, <2>2, <2>4, <2>5, <2>6, <2>7, <2>8, <2>9, <2>d
    DEF Next, Handle, EndTask, Serve
<1> QED
  BY <1>1, <1>2, Typed, PTL DEF Safety

\* A task that works holds its request id, and only a task not over yet holds one.
LEMMA Accounts == Safety => []Accounted
<1>1. HoldInv => Accounted
  BY DEF HoldInv, Accounted, Holders
<1> QED
  BY <1>1, Holding, PTL

\* A conversation has one run at a time in this process.
LEMMA Apart == Safety => []OneTurn
<1>1. TypeOK /\ HoldInv => OneTurn
  <2> SUFFICES ASSUME TypeOK, HoldInv,
                      NEW t \in Task, NEW u \in Task,
                      t # u, pc[t] \in Working, pc[u] \in Working
               PROVE  SessionOf[t] # SessionOf[u]
    BY DEF OneTurn
  <2>1. RequestOf[t] \in Request /\ RequestOf[u] \in Request
    BY DEF Request
  <2>2. inFlight[RequestOf[t]] = t /\ inFlight[RequestOf[u]] = u
    BY DEF HoldInv
  <2> QED
    BY <2>1, <2>2, TaskAssumption DEF HoldInv
<1> QED
  BY <1>1, Holding, Typed, PTL
-----------------------------------------------------------------------------
(* The channel by itself. *)

\* Each variable has its type.
THEOREM TypeCorrect == Spec => []TypeOK
  BY Typed, PTL DEF Spec, Safety

\* However its run, the shutdown and a cancel meet, a caller is told one ending, only after
\* an ack, and one that was accepted is told.
THEOREM ToldOnce == Spec => []AckedOnce
  BY Told, PTL DEF Spec, Safety

\* A task that works holds its request id, and only a task not over yet holds one.
THEOREM WorkersAccounted == Spec => []Accounted
  BY Accounts, PTL DEF Spec, Safety

\* A conversation has one run at a time in this process.
THEOREM TurnsApart == Spec => []OneTurn
  BY Apart, PTL DEF Spec, Safety

-----------------------------------------------------------------------------
(* The channel with the prompter of one of its tasks. *)

\* The prompter takes nothing from the channel's promises: what goes on in the two together
\* is, of the channel, a behaviour of its own.
THEOREM PrompterAdds == QSpec => Safety
<1>1. QInit => Init
  BY DEF QInit
<1>2. [QNext]_everything => [Next]_vars
  <2> SUFFICES ASSUME [QNext]_everything
               PROVE  [Next]_vars
    OBVIOUS
  <2>1. CASE Endpoint
    BY <2>1 DEF Endpoint, ServeTask, FinishRun, Next, EndTask, Serve
  <2>2. ASSUME NEW t \in Task, CloseTask(t)
        PROVE  [Next]_vars
    BY <2>2 DEF CloseTask, Next, EndTask
  <2>3. CASE UNCHANGED vars
    BY <2>3
  <2>4. CASE UNCHANGED everything
    BY <2>4, <2>3 DEF everything
  <2> QED BY <2>1, <2>2, <2>3, <2>4 DEF QNext
<1> QED BY <1>1, <1>2, PTL DEF QSpec, Safety

\* So a caller that is asked is still told one ending, its conversation still has one run,
\* and its worker is still accounted for.
THEOREM StillKept == QSpec => [](AckedOnce /\ OneTurn /\ Accounted)
  BY PrompterAdds, Told, Apart, Accounts, PTL

\* An answer that is in the buffer of a question, or is what ask made of it, is one to that
\* question and its sender was told that it arrived.
AnswersTo(q, m) == AnswerOf[m] = q /\ reply[m] = "delivered"

AnswerInv ==
    /\ buffer \in [Question -> Answer \union {"none"}]
    /\ result \in [Question -> Answer \union {"none", "deferred", "aborted", "failed"}]
    /\ reply \in [Answer -> {"unsent", "routed", "delivered", "refused"}]
    /\ \A q \in Question, m \in Answer : buffer[q] = m \/ result[q] = m => AnswersTo(q, m)

\* A step that leaves what was answered alone.
LEMMA AnswersStay ==
    ASSUME AnswerInv, UNCHANGED <<buffer, result, reply>>
    PROVE  AnswerInv'
  BY DEF AnswerInv, AnswersTo

\* ask makes of a question an answer to it, or what is no answer.
LEMMA Decided ==
    ASSUME AnswerInv, NEW r \in Answer \union {"deferred", "aborted", "failed"},
           r \in Answer /\ asking \in Question => AnswersTo(asking, r),
           Prompter!Decide(r), buffer' = buffer \/ buffer' = [buffer EXCEPT ![asking] = "none"]
    PROVE  AnswerInv'
<1>1. result' = [result EXCEPT ![asking] = r] /\ reply' = reply
  BY DEF Prompter!Decide
<1>2. buffer' \in [Question -> Answer \union {"none"}]
      /\ result' \in [Question -> Answer \union {"none", "deferred", "aborted", "failed"}]
  BY <1>1 DEF AnswerInv
<1>3. \A q \in Question, m \in Answer : buffer'[q] = m => buffer[q] = m
  BY AnswerAssumption DEF AnswerInv
<1>4. \A q \in Question, m \in Answer : result'[q] = m => result[q] = m \/ (q = asking /\ m = r)
  BY <1>1 DEF AnswerInv
<1> QED BY <1>1, <1>2, <1>3, <1>4 DEF AnswerInv, AnswersTo

\* Every step of the two keeps it.
LEMMA PrompterStep ==
    ASSUME AnswerInv, [QNext]_everything
    PROVE  AnswerInv'
<1>1. CASE UNCHANGED prompter
  BY <1>1, AnswersStay DEF prompter
<1>2. ASSUME NEW t \in Task, CloseTask(t)
      PROVE  AnswerInv'
  BY <1>1, <1>2, AnswersStay DEF CloseTask, Prompter!EndTask
<1>3. CASE Asks
  <2>1. CASE \/ \E q \in Question : Prompter!Register(q)
             \/ Prompter!Publish \/ Prompter!TakeAlive \/ Prompter!Tick \/ Prompter!Forget
    BY <2>1, AnswersStay
    DEF Prompter!Register, Prompter!Publish, Prompter!TakeAlive, Prompter!Tick, Prompter!Forget
  <2>2. CASE Prompter!PublishFails
    <3>1. Prompter!Decide("failed") /\ buffer' = buffer
      BY <2>2 DEF Prompter!PublishFails
    <3> QED BY <3>1, AnswerAssumption, Decided
  <2>3. CASE Prompter!TakeAnswer
    <3>1. /\ buffer[asking] # "none" /\ Prompter!Decide(buffer[asking])
          /\ buffer' = [buffer EXCEPT ![asking] = "none"]
      BY <2>3 DEF Prompter!TakeAnswer, Prompter!None
    <3>2. CASE asking \in Question
      <4>1. buffer[asking] \in Answer /\ AnswersTo(asking, buffer[asking])
        BY <3>1, <3>2 DEF AnswerInv
      <4> QED BY <3>1, <4>1, Decided
    <3>3. CASE asking \notin Question
      <4>1. buffer' = buffer /\ result' = result /\ reply' = reply
        BY <3>1, <3>3 DEF AnswerInv, Prompter!Decide
      <4> QED BY <4>1, AnswersStay
    <3> QED BY <3>2, <3>3
  <2>4. CASE Prompter!GiveUp
    <3>1. PICK r \in {"aborted", "deferred"} : Prompter!Decide(r) /\ buffer' = buffer
      BY <2>4 DEF Prompter!GiveUp
    <3> QED BY <3>1, AnswerAssumption, Decided
  <2> QED BY <1>3, <2>1, <2>2, <2>3, <2>4 DEF Asks
<1>4. CASE Hears
  <2>1. CASE Prompter!HandleCancel \/ \E q \in Question : Prompter!StillWaiting(q)
    BY <2>1, AnswersStay DEF Prompter!HandleCancel, Prompter!StillWaiting
  <2>2. ASSUME NEW m \in Answer, Prompter!Route(m)
        PROVE  AnswerInv'
    <3>1. /\ reply[m] = "unsent" /\ UNCHANGED <<buffer, result>>
          /\ reply' = [reply EXCEPT ![m] = IF AnswerOf[m] \in pending THEN "routed" ELSE "refused"]
      BY <2>2 DEF Prompter!Route
    <3> QED BY <3>1 DEF AnswerInv, AnswersTo
  <2>3. ASSUME NEW m \in Answer, Prompter!Deliver(m)
        PROVE  AnswerInv'
    <3>1. reply[m] = "routed" /\ result' = result
      BY <2>3 DEF Prompter!Deliver
    <3>2. \/ /\ buffer' = [buffer EXCEPT ![AnswerOf[m]] = m]
             /\ reply' = [reply EXCEPT ![m] = "delivered"]
          \/ buffer' = buffer /\ reply' = [reply EXCEPT ![m] = "refused"]
      BY <2>3 DEF Prompter!Deliver, Prompter!Addressed
    <3>3. /\ buffer' \in [Question -> Answer \union {"none"}]
          /\ reply' \in [Answer -> {"unsent", "routed", "delivered", "refused"}]
          /\ \A n \in Answer : reply[n] = "delivered" => reply'[n] = "delivered"
          /\ \A q \in Question, n \in Answer :
                buffer'[q] = n => buffer[q] = n \/ (n = m /\ q = AnswerOf[m] /\ reply'[m] = "delivered")
      BY <3>1, <3>2 DEF AnswerInv
    <3> QED BY <3>1, <3>3 DEF AnswerInv, AnswersTo
  <2> QED BY <1>4, <2>1, <2>2, <2>3 DEF Hears
<1> QED BY <1>1, <1>2, <1>3, <1>4 DEF QNext, everything

\* A question is answered by an answer to it, of which the sender was told that it arrived,
\* however late it was routed (RightAnswer).
THEOREM AnswersRight == QSpec => []RightAnswer
<1>1. QInit => AnswerInv
  BY AnswerAssumption DEF QInit, Prompter!Init, Prompter!None, AnswerInv
<1>2. AnswerInv => RightAnswer
  BY DEF AnswerInv, AnswersTo, RightAnswer
<1> QED BY <1>1, <1>2, PrompterStep, PTL DEF QSpec
=============================================================================
