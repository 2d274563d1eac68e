------------------------- MODULE ServeServerProofs --------------------------
(***************************************************************************)
(* serve.Server keeps its promise to its channels, and ends for a reason,  *)
(* for any channels, any work and any number of slots.                     *)
(***************************************************************************)
EXTENDS ServeServer, TLAPS

\* Each variable has its type.
THEOREM TypeCorrect == Spec => []TypeOK
<1>1. Init => TypeOK
  <2>1. 0 \in 0 .. Len(Channels) + 2
    BY ServerAssumption
  <2> SUFFICES ASSUME Init
               PROVE  TypeOK
    OBVIOUS
  <2>2. drain \in [Drainer -> 0 .. Len(Channels) + 2]
    BY <2>1 DEF Init
  <2>3. /\ work \in [Work -> {"offered", "discarded", "held", "running", "reported", "ended", "abandoned"}]
        /\ reports \in [Work -> Nat]
    BY DEF Init
  <2>4. /\ canceled \in BOOLEAN /\ services \in BOOLEAN /\ faulted \in BOOLEAN
        /\ watcher \in {"watching", "faulting", "gone"} /\ serve \in {"serving", "nil", "error"}
    BY DEF Init
  <2>5. /\ raised \in [Channel -> {"no", "yes", "read"}]
        /\ puller \in [Channel -> {"next", "retry", "slot", "faulting", "draining", "gone"}]
        /\ closing \in [Channel -> {"open", "closing", "closed"}]
    BY DEF Init
  <2> QED BY <2>2, <2>3, <2>4, <2>5 DEF TypeOK
<1>2. TypeOK /\ [Next]_vars => TypeOK'
  <2> SUFFICES ASSUME TypeOK, [Next]_vars
               PROVE  TypeOK'
    OBVIOUS
  <2> USE DEF TypeOK
  <2>a. Len(Channels) \in Nat /\ DOMAIN Channels = 1 .. Len(Channels)
    BY ServerAssumption
  <2>b. \A w \in Work : From[w] \in Channel
    BY ServerAssumption
  <2>c. \A d \in Drainer : drain[d] \in 0 .. Len(Channels) + 2
    OBVIOUS
  <2>d. Channel \subseteq Drainer /\ {"program", "stop", "watcher"} \subseteq Drainer
    BY DEF Drainer
  <2>1. ASSUME NEW w \in Work, TakeWork(w) PROVE TypeOK'
    BY <2>1, <2>b DEF TakeWork, Pulling
  <2>2. ASSUME NEW w \in Work, DiscardWork(w) PROVE TypeOK'
    BY <2>2 DEF DiscardWork
  <2>3. ASSUME NEW w \in Work, StartRun(w) PROVE TypeOK'
    BY <2>3, <2>b DEF StartRun
  <2>4. ASSUME NEW w \in Work, AbandonWork(w) PROVE TypeOK'
    BY <2>4, <2>b DEF AbandonWork, Told
  <2>5. ASSUME NEW w \in Work, EndRun(w) PROVE TypeOK'
    BY <2>5 DEF EndRun
  <2>6. ASSUME NEW w \in Work, FreeSlot(w) PROVE TypeOK'
    BY <2>6 DEF FreeSlot
  <2>7. ASSUME NEW ch \in Channel, NextFails(ch) \/ RetryNext(ch) \/ NextPanics(ch) \/ NextIsDone(ch)
        PROVE TypeOK'
    BY <2>7 DEF NextFails, RetryNext, NextPanics, NextIsDone, PullerMoves
  <2>8. ASSUME NEW ch \in Channel, PullCanceled(ch) \/ LeaveAfterDrain(ch) PROVE TypeOK'
    BY <2>8 DEF PullCanceled, LeaveAfterDrain, PullerMoves
  <2>9. ASSUME NEW ch \in Channel, FaultPuller(ch) PROVE TypeOK'
    BY <2>9, <2>a, <2>d DEF FaultPuller, Fault
  <2>10. ASSUME NEW ch \in Channel, RaiseFault(ch) PROVE TypeOK'
    BY <2>10 DEF RaiseFault
  <2>11. ASSUME NEW ch \in Channel, ReadFault(ch) PROVE TypeOK'
    BY <2>11 DEF ReadFault
  <2>12. ASSUME NEW ch \in Channel, FinishClose(ch) PROVE TypeOK'
    BY <2>12 DEF FinishClose
  <2>13. CASE FaultWatcher
    BY <2>13, <2>a, <2>d DEF FaultWatcher, Fault
  <2>14. CASE StopWatching
    BY <2>14 DEF StopWatching
  <2>15. CASE Drain \/ Stop
    <3>1. \E d \in Drainer : BeginRelease(d)
      BY <2>15, <2>d DEF Drain, Stop
    <3>2. PICK d \in Drainer : BeginRelease(d)
      BY <3>1
    <3>3. 1 \in 0 .. Len(Channels) + 2
      BY <2>a
    <3>4. drain' \in [Drainer -> 0 .. Len(Channels) + 2]
      BY <3>2, <3>3 DEF BeginRelease
    <3> QED BY <3>2, <3>4 DEF BeginRelease
  <2>16. CASE Return
    BY <2>16 DEF Return
  <2>17. CASE Cancel
    BY <2>17 DEF Cancel
  <2>18. ASSUME NEW d \in Drainer, BeginClose(d) PROVE TypeOK'
    BY <2>18 DEF BeginClose
  <2>19. ASSUME NEW d \in Drainer, LeaveChannel(d) PROVE TypeOK'
    <3>1. drain[d] + 1 \in 0 .. Len(Channels) + 2
      BY <2>19, <2>a, <2>c DEF LeaveChannel, AtChannel
    <3>2. drain' \in [Drainer -> 0 .. Len(Channels) + 2]
      BY <2>19, <3>1 DEF LeaveChannel
    <3> QED BY <2>19, <3>2 DEF LeaveChannel
  <2>20. ASSUME NEW d \in Drainer, CloseServices(d) PROVE TypeOK'
    <3>1. drain[d] + 1 \in 0 .. Len(Channels) + 2
      BY <2>20, <2>a, <2>c DEF CloseServices, AtServices
    <3>2. drain' \in [Drainer -> 0 .. Len(Channels) + 2]
      BY <2>20, <3>1 DEF CloseServices
    <3> QED BY <2>20, <3>2 DEF CloseServices
  <2>21. CASE UNCHANGED vars
    BY <2>21 DEF vars
  <2> QED
    BY <2>1, <2>2, <2>3, <2>4, <2>5, <2>6, <2>7, <2>8, <2>9, <2>10, <2>11, <2>12, <2>13, <2>14,
       <2>15, <2>16, <2>17, <2>18, <2>19, <2>20, <2>21 DEF Next
<1> QED
  BY <1>1, <1>2, PTL DEF Spec

-----------------------------------------------------------------------------
(* Reports. *)

\* What happens to a piece of work, whoever does it: it is left alone, or it is taken,
\* discarded, run, given up, reported or over, and only the last two but one are told of.
LEMMA WorkSteps ==
  ASSUME TypeOK, [Next]_vars
  PROVE  \/ UNCHANGED <<work, reports>>
         \/ \E w \in Work :
              \/ /\ UNCHANGED reports
                 /\ \/ work[w] = "offered" /\ work' = [work EXCEPT ![w] = "held"]
                    \/ work[w] = "offered" /\ work' = [work EXCEPT ![w] = "discarded"]
                    \/ work[w] = "held" /\ work' = [work EXCEPT ![w] = "running"]
                    \/ work[w] = "reported" /\ work' = [work EXCEPT ![w] = "ended"]
              \/ /\ reports' = [reports EXCEPT ![w] = @ + 1]
                 /\ \/ work[w] = "held" /\ work' = [work EXCEPT ![w] = "abandoned"]
                    \/ work[w] = "running" /\ work' = [work EXCEPT ![w] = "reported"]
<1>1. ASSUME NEW w \in Work,
             TakeWork(w) \/ DiscardWork(w) \/ StartRun(w) \/ AbandonWork(w) \/ EndRun(w) \/ FreeSlot(w)
      PROVE  \/ /\ UNCHANGED reports
                /\ \/ work[w] = "offered" /\ work' = [work EXCEPT ![w] = "held"]
                   \/ work[w] = "offered" /\ work' = [work EXCEPT ![w] = "discarded"]
                   \/ work[w] = "held" /\ work' = [work EXCEPT ![w] = "running"]
                   \/ work[w] = "reported" /\ work' = [work EXCEPT ![w] = "ended"]
             \/ /\ reports' = [reports EXCEPT ![w] = @ + 1]
                /\ \/ work[w] = "held" /\ work' = [work EXCEPT ![w] = "abandoned"]
                   \/ work[w] = "running" /\ work' = [work EXCEPT ![w] = "reported"]
  BY <1>1 DEF TakeWork, DiscardWork, StartRun, AbandonWork, NotStarted, Told, EndRun, FreeSlot
<1>2. ASSUME NEW ch \in Channel,
             \/ NextFails(ch) \/ RetryNext(ch) \/ NextPanics(ch) \/ NextIsDone(ch) \/ PullCanceled(ch)
             \/ FaultPuller(ch) \/ LeaveAfterDrain(ch) \/ RaiseFault(ch) \/ ReadFault(ch) \/ FinishClose(ch)
      PROVE  UNCHANGED <<work, reports>>
  BY <1>2 DEF NextFails, RetryNext, NextPanics, NextIsDone, PullCanceled, FaultPuller,
     LeaveAfterDrain, RaiseFault, ReadFault, FinishClose, PullerMoves
<1>3. ASSUME FaultWatcher \/ StopWatching \/ Drain \/ Stop \/ Return \/ Cancel
      PROVE  UNCHANGED <<work, reports>>
  BY <1>3 DEF FaultWatcher, StopWatching, Drain, Stop, BeginRelease, Return, Cancel
<1>4. ASSUME NEW d \in Drainer, BeginClose(d) \/ LeaveChannel(d) \/ CloseServices(d)
      PROVE  UNCHANGED <<work, reports>>
  BY <1>4 DEF BeginClose, LeaveChannel, CloseServices
<1>5. CASE UNCHANGED vars
  BY <1>5 DEF vars
<1> QED
  BY <1>1, <1>2, <1>3, <1>4, <1>5 DEF Next

\* Every piece of work that was run or given up is reported exactly once.
THEOREM ReportedOnce == Spec => []Once
<1>1. Init => Once
  BY DEF Init, Once
<1>2. TypeOK /\ Once /\ [Next]_vars => Once'
  <2> SUFFICES ASSUME TypeOK, Once, [Next]_vars
               PROVE  Once'
    OBVIOUS
  <2> USE DEF Once, TypeOK
  <2>1. CASE UNCHANGED <<work, reports>>
    BY <2>1
  <2>2. ASSUME NEW w \in Work, UNCHANGED reports,
               \/ work[w] = "offered" /\ work' = [work EXCEPT ![w] = "held"]
               \/ work[w] = "offered" /\ work' = [work EXCEPT ![w] = "discarded"]
               \/ work[w] = "held" /\ work' = [work EXCEPT ![w] = "running"]
               \/ work[w] = "reported" /\ work' = [work EXCEPT ![w] = "ended"]
        PROVE  Once'
    <3>1. \A v \in Work \ {w} : work'[v] = work[v]
      BY <2>2
    <3>2. \/ /\ work[w] \notin {"reported", "ended", "abandoned"}
             /\ work'[w] \notin {"reported", "ended", "abandoned"}
          \/ work[w] = "reported" /\ work'[w] = "ended"
      BY <2>2
    <3> QED BY <2>2, <3>1, <3>2
  <2>3. ASSUME NEW w \in Work, reports' = [reports EXCEPT ![w] = @ + 1],
               \/ work[w] = "held" /\ work' = [work EXCEPT ![w] = "abandoned"]
               \/ work[w] = "running" /\ work' = [work EXCEPT ![w] = "reported"]
        PROVE  Once'
    <3>1. reports[w] = 0
      BY <2>3
    <3> QED BY <2>3, <3>1
  <2> QED
    BY <2>1, <2>2, <2>3, WorkSteps
<1> QED
  BY <1>1, <1>2, TypeCorrect, PTL DEF Spec

\* The server implements what it promises the channels it takes work from.
THEOREM Implementation == Spec => KeepsPromise
<1>1. Init => Report!Init
  BY DEF Init, Report!Init, Seen
<1>2. TypeOK /\ [Next]_vars => [Report!Next]_Seen
  <2> SUFFICES ASSUME TypeOK, [Next]_vars
               PROVE  Report!Next \/ UNCHANGED Seen
    OBVIOUS
  <2> DEFINE As(p) == CASE p \in {"offered", "discarded"} -> "offered"
                        [] p = "held" -> "taken"
                        [] p = "running" -> "started"
                        [] p \in {"reported", "ended"} -> "reported"
                        [] p = "abandoned" -> "abandoned"
  <2>a. Seen = [w \in Work |-> As(work[w])] /\ Seen' = [w \in Work |-> As(work'[w])]
    BY DEF Seen
  <2>b. /\ As("offered") = "offered" /\ As("discarded") = "offered" /\ As("held") = "taken"
        /\ As("running") = "started" /\ As("reported") = "reported" /\ As("ended") = "reported"
        /\ As("abandoned") = "abandoned"
    OBVIOUS
  <2> HIDE DEF As
  <2>c. ASSUME NEW w \in Work, NEW to, work' = [work EXCEPT ![w] = to]
        PROVE  Seen[w] = As(work[w]) /\ Seen' = [Seen EXCEPT ![w] = As(to)]
    BY <2>a, <2>c DEF TypeOK
  <2>d. ASSUME NEW w \in Work, NEW to, work' = [work EXCEPT ![w] = to], As(to) = As(work[w])
        PROVE  UNCHANGED Seen
    BY <2>a, <2>d DEF TypeOK
  <2>1. CASE UNCHANGED <<work, reports>>
    BY <2>1 DEF Seen
  <2>2. ASSUME NEW w \in Work, work[w] = "offered", work' = [work EXCEPT ![w] = "held"]
        PROVE  Report!Take(w)
    <3>1. Seen[w] = As("offered") /\ Seen' = [Seen EXCEPT ![w] = As("held")]
      BY <2>2, <2>c
    <3> QED BY <2>b, <3>1 DEF Report!Take, Report!Become
  <2>3. ASSUME NEW w \in Work, work[w] = "offered", work' = [work EXCEPT ![w] = "discarded"]
        PROVE  UNCHANGED Seen
    BY <2>3, <2>b, <2>d
  <2>4. ASSUME NEW w \in Work, work[w] = "held", work' = [work EXCEPT ![w] = "running"]
        PROVE  Report!Start(w)
    <3>1. Seen[w] = As("held") /\ Seen' = [Seen EXCEPT ![w] = As("running")]
      BY <2>4, <2>c
    <3> QED BY <2>b, <3>1 DEF Report!Start, Report!Become
  <2>5. ASSUME NEW w \in Work, work[w] = "reported", work' = [work EXCEPT ![w] = "ended"]
        PROVE  UNCHANGED Seen
    BY <2>5, <2>b, <2>d
  <2>6. ASSUME NEW w \in Work, work[w] = "held", work' = [work EXCEPT ![w] = "abandoned"]
        PROVE  Report!Abandon(w)
    <3>1. Seen[w] = As("held") /\ Seen' = [Seen EXCEPT ![w] = As("abandoned")]
      BY <2>6, <2>c
    <3> QED BY <2>b, <3>1 DEF Report!Abandon, Report!Become
  <2>7. ASSUME NEW w \in Work, work[w] = "running", work' = [work EXCEPT ![w] = "reported"]
        PROVE  Report!Report(w)
    <3>1. Seen[w] = As("running") /\ Seen' = [Seen EXCEPT ![w] = As("reported")]
      BY <2>7, <2>c
    <3> QED BY <2>b, <3>1 DEF Report!Report, Report!Become
  <2> QED
    BY <2>1, <2>2, <2>3, <2>4, <2>5, <2>6, <2>7, WorkSteps DEF Report!Next
<1> QED
  BY <1>1, <1>2, TypeCorrect, PTL DEF Spec, KeepsPromise, Report!Spec

-----------------------------------------------------------------------------
(* The reason Serve ended for. *)

\* Whoever released did so because of an error, or was asked to.
ReleaserInv(d) ==
    drain[d] # 0 =>
        \/ d = "program"
        \/ d = "stop" /\ serve # "serving"
        \/ d \in {"watcher"} \union Channel /\ faulted

ReasonInv ==
    /\ \A d \in Drainer : ReleaserInv(d)
    /\ \A ch \in Channel : closing[ch] # "open" => released
    /\ \A ch \in Channel : puller[ch] = "draining" => faulted
    /\ \A ch \in Channel : puller[ch] = "gone" => canceled \/ faulted \/ closing[ch] # "open"
    /\ ForAReason

\* Serve returns without an error only if it was canceled or the program drained it.
THEOREM ReasonHolds == Spec => []ForAReason
<1>1. Init => ReasonInv
  BY ServerAssumption DEF Init, ReasonInv, ReleaserInv, ForAReason
<1>2. TypeOK /\ ReasonInv /\ [Next]_vars => ReasonInv'
  <2> SUFFICES ASSUME TypeOK, ReasonInv, [Next]_vars
               PROVE  ReasonInv'
    OBVIOUS
  <2> USE DEF TypeOK, ReasonInv, ReleaserInv, ForAReason, released
  <2>a. Channel \subseteq Drainer /\ {"program", "stop", "watcher"} \subseteq Drainer
    BY DEF Drainer
  <2>b. Channel \intersect {"program", "stop", "watcher"} = {}
    BY ServerAssumption
  <2>1. ASSUME NEW w \in Work,
               TakeWork(w) \/ DiscardWork(w) \/ StartRun(w) \/ AbandonWork(w) \/ EndRun(w) \/ FreeSlot(w)
        PROVE  ReasonInv'
    <3>1. From[w] \in Channel
      BY ServerAssumption
    <3> QED
      BY <2>1, <3>1 DEF TakeWork, DiscardWork, StartRun, AbandonWork, NotStarted, EndRun, FreeSlot, Pulling
  <2>2. ASSUME NEW ch \in Channel, NextFails(ch) \/ RetryNext(ch) \/ NextPanics(ch)
        PROVE  ReasonInv'
    BY <2>2 DEF NextFails, RetryNext, NextPanics, PullerMoves
  <2>3. ASSUME NEW ch \in Channel, NextIsDone(ch) \/ PullCanceled(ch) \/ LeaveAfterDrain(ch)
        PROVE  ReasonInv'
    BY <2>3 DEF NextIsDone, Done, PullCanceled, LeaveAfterDrain, Pulling, PullerMoves
  <2>4. ASSUME NEW ch \in Channel, FaultPuller(ch) PROVE ReasonInv'
    BY <2>4, <2>a, <2>b DEF FaultPuller, Fault
  <2>5. ASSUME NEW ch \in Channel, RaiseFault(ch) \/ ReadFault(ch) PROVE ReasonInv'
    BY <2>5 DEF RaiseFault, ReadFault
  <2>6. ASSUME NEW ch \in Channel, FinishClose(ch) PROVE ReasonInv'
    BY <2>6 DEF FinishClose
  <2>7. CASE FaultWatcher
    BY <2>7, <2>a, <2>b DEF FaultWatcher, Fault
  <2>8. CASE StopWatching \/ Cancel
    BY <2>8 DEF StopWatching, Cancel
  <2>9. CASE Drain
    BY <2>9, <2>a DEF Drain, BeginRelease
  <2>10. CASE Stop
    BY <2>10, <2>a DEF Stop, BeginRelease
  <2>11. CASE Return
    <3>1. CASE faulted
      BY <2>11, <3>1 DEF Return
    <3>2. CASE ~faulted /\ Channels = <<>>
      <4>1. canceled \/ released
        BY <2>11, <3>2 DEF Return, NobodyLeft
      <4> QED BY <2>11, <3>2, <4>1 DEF Return
    <3>3. CASE ~faulted /\ Channels # <<>>
      <4>1. Channels[1] \in Channel
        BY <3>3, ServerAssumption
      <4>2. canceled \/ released
        BY <2>11, <3>3, <4>1 DEF Return, NobodyLeft
      <4> QED BY <2>11, <3>3, <4>2 DEF Return
    <3> QED BY <3>1, <3>2, <3>3
  <2>12. ASSUME NEW d \in Drainer, BeginClose(d) PROVE ReasonInv'
    <3>1. drain[d] # 0
      BY <2>12, ServerAssumption DEF BeginClose, AtChannel
    <3> QED BY <2>12, <3>1 DEF BeginClose
  <2>13. ASSUME NEW d \in Drainer, LeaveChannel(d) \/ CloseServices(d) PROVE ReasonInv'
    <3>1. drain[d] \in Nat /\ drain[d] # 0
      BY <2>13, ServerAssumption DEF LeaveChannel, CloseServices, AtChannel, AtServices
    <3>2. drain' = [drain EXCEPT ![d] = @ + 1]
      BY <2>13 DEF LeaveChannel, CloseServices
    <3>3. \A e \in Drainer : drain'[e] # 0 <=> drain[e] # 0
      BY <3>1, <3>2
    <3>4. UNCHANGED <<canceled, faulted, closing, puller, serve>>
      BY <2>13 DEF LeaveChannel, CloseServices
    <3>5. released' <=> released
      BY <3>3
    <3>6. drain'["program"] # 0 <=> drain["program"] # 0
      BY <3>3, <2>a
    <3>7. \A e \in Drainer : ReleaserInv(e)'
      BY <3>3, <3>4
    <3>8. ForAReason'
      BY <3>4, <3>6
    <3> QED BY <3>4, <3>5, <3>7, <3>8
  <2>14. CASE UNCHANGED vars
    BY <2>14 DEF vars
  <2> QED
    BY <2>1, <2>2, <2>3, <2>4, <2>5, <2>6, <2>7, <2>8, <2>9, <2>10, <2>11, <2>12, <2>13, <2>14 DEF Next
<1>3. ReasonInv => ForAReason
  BY DEF ReasonInv
<1> QED
  BY <1>1, <1>2, <1>3, TypeCorrect, PTL DEF Spec
=============================================================================
