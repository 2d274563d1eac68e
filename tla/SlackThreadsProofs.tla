------------------------- MODULE SlackThreadsProofs -------------------------
(***************************************************************************)
(* One turn a thread, one turn a line and a bounded backlog in the Slack   *)
(* channel, for any lines, threads, people, bounds and workers.            *)
(*                                                                         *)
(* Every step of the channel is one of a few moves of turns between places *)
(* (Moves), and each move keeps what ties the places to inFlight, waiting, *)
(* queued, the counters and what a turn carries (Kept).                    *)
(***************************************************************************)
EXTENDS SlackThreads, TLAPS, FiniteSetTheorems

Place == Live \union {"none", "queued", "over", "dropped"}
Fate == {"unsent", "checked", "taken", "given", "told", "untold", "lost"}
People == {PersonOf[l] : l \in Line} \union {None}
TurnRecord == [thread : Thread \union {None}, resume : BOOLEAN, who : People,
               lines : SUBSET Line, folded : SUBSET Line]

\* What TypeOK says of the turns, but for the counts, and of the rest.
TypeInv ==
    /\ fate \in [Line -> Fate]
    /\ turn \in [Turn -> TurnRecord]
    /\ where \in [Turn -> Place]
    /\ inFlight \in [Thread -> Turn \union {Nobody}]
    /\ waiting \in Seq(Turn) /\ queued \in [Thread -> Seq(Turn)]

ServerInv ==
    /\ closing \in {"open", "shutdown", "ended", "dropped"}
    /\ canceled \in BOOLEAN /\ pulling \in BOOLEAN
    /\ question \in [Turn -> Standing]
    /\ \A t \in Turn : question[t] # None => turn[t].thread \in Thread

\* The turn a thread is held for is the only one of its that is live.
Threads ==
    /\ \A t \in Turn : where[t] \in Live =>
          turn[t].thread \in Thread /\ inFlight[turn[t].thread] = t
    /\ \A th \in Thread : inFlight[th] # Nobody =>
          inFlight[th] \in Turn /\ where[inFlight[th]] \in Live /\ turn[inFlight[th]].thread = th

\* What waits is in its queue once.
Queues ==
    /\ \A th \in Thread : \A i \in 1..Len(queued[th]) :
          /\ where[queued[th][i]] = "queued" /\ turn[queued[th][i]].thread = th
          /\ \A j \in 1..Len(queued[th]) : queued[th][i] = queued[th][j] => i = j
    /\ \A i \in 1..Len(waiting) :
          /\ where[waiting[i]] = "waiting"
          /\ \A j \in 1..Len(waiting) : waiting[i] = waiting[j] => i = j

\* t has still to hand line l over.
Carries(t, l) ==
    /\ where[t] \notin {"over", "dropped"}
    /\ \/ l \in turn[t].folded
       \/ l \in turn[t].lines /\ where[t] \in {"queued", "waiting", "reading"}

\* One turn carries a line that was taken, and none any other.
Held ==
    /\ \A t \in Turn : where[t] = "none" => turn[t].folded = {}
    /\ \A l \in Line :
          /\ \A t \in Turn : Carries(t, l) => fate[l] = "taken"
          /\ \A t, u \in Turn : Carries(t, l) /\ Carries(u, l) => t = u
          /\ fate[l] = "taken" => \E t \in Turn : Carries(t, l)

\* How many turns are in one of the places.
Placed(w, places) == Cardinality({t \in Turn : w[t] \in places})
Busy == {"reading", "held", "running"}

\* What the counters count, and the room there is.
Counts ==
    /\ parked = Placed(where, {"queued"})
    /\ handed = Placed(where, {"held", "running"})
    /\ Placed(where, {"running"}) <= Workers
    /\ Placed(where, {"reading", "held"}) <= 1
    /\ Len(waiting) + parked + Placed(where, Busy) <= MaxWait + Workers + 1

\* What is true of the turns at every step.
Kept == TypeInv /\ Threads /\ Queues /\ Held /\ Counts

-----------------------------------------------------------------------------
(* What the steps do to the turns. *)

\* Nothing but what becomes of a line that nobody carries.
Stands ==
    /\ UNCHANGED <<turn, where, inFlight, waiting, queued, parked, handed>>
    /\ fate' \in [Line -> Fate]
    /\ \A l \in Line : fate'[l] = fate[l] \/ (fate[l] # "taken" /\ fate'[l] # "taken")

\* The line joins the turn its thread is held for.
Folded(l, t) ==
    /\ t \in Turn /\ where[t] \in Live /\ fate[l] = "checked"
    /\ turn' = [turn EXCEPT ![t].folded = @ \union {l}]
    /\ fate' = [fate EXCEPT ![l] = "taken"]
    /\ UNCHANGED <<where, inFlight, waiting, queued, parked, handed>>

\* A new turn: with one line that nobody carries, or none.
Admitted(t, new) ==
    /\ Take(t, new) /\ ~full
    /\ new \in TurnRecord /\ new.thread \in Thread /\ new.folded = {}
    /\ \/ new.lines = {} /\ fate' = fate
       \/ \E l \in Line : /\ new.lines = {l} /\ fate[l] = "checked"
                          /\ fate' = [fate EXCEPT ![l] = "taken"]

\* It leaves its thread to the turn that is behind it, to one that follows it, or to none.
ToNone(t) ==
    LET th == turn[t].thread IN
    /\ queued[th] = <<>> /\ queued' = queued /\ parked' = parked /\ waiting' = waiting
    /\ inFlight' = [inFlight EXCEPT ![th] = Nobody]
    /\ where' = [where EXCEPT ![t] = "over"]

ToNext(t) ==
    LET th == turn[t].thread
        h == Head(queued[th]) IN
    /\ queued[th] # <<>> /\ queued' = [queued EXCEPT ![th] = Tail(queued[th])] /\ parked' = parked - 1
    /\ waiting' = Append(waiting, h)
    /\ inFlight' = [inFlight EXCEPT ![th] = h]
    /\ where' = [where EXCEPT ![t] = "over", ![h] = "waiting"]

ToNew(t, n) ==
    LET th == turn[t].thread IN
    /\ n \in Turn /\ where[n] = "none" /\ queued' = queued /\ parked' = parked
    /\ waiting' = Append(waiting, n)
    /\ inFlight' = [inFlight EXCEPT ![th] = n]
    /\ where' = [where EXCEPT ![t] = "over", ![n] = "waiting"]

\* The others' turns are as they were.
Others(S) == \A u \in Turn \ S : turn'[u] = turn[u]

\* What it carried is told, or carried on.
Leaves(t) ==
    /\ where[t] \in Busy
    /\ handed' = IF where[t] = "reading" THEN handed ELSE handed - 1
    /\ turn' \in [Turn -> TurnRecord] /\ fate' \in [Line -> Fate]
    /\ turn'[t].thread = turn[t].thread
    /\ \/ /\ ToNone(t) \/ ToNext(t)
          /\ Others({t})
          /\ \A l \in Line : fate'[l] = IF Carries(t, l) THEN "told" ELSE fate[l]
       \/ \E n \in Turn :
             /\ ToNew(t, n)
             /\ Others({t, n}) /\ turn'[n].thread = turn[t].thread
             /\ turn'[n].lines = {l \in Line : Carries(t, l)} /\ turn'[n].folded = {}
             /\ fate' = fate

\* A turn is live: its thread is held for it.
LEMMA LiveHasThread ==
    ASSUME TypeInv, Threads, NEW t \in Turn, where[t] \in Live
    PROVE  /\ turn[t].thread \in Thread /\ inFlight[turn[t].thread] = t
           /\ queued[turn[t].thread] \in Seq(Turn)
BY DEF TypeInv, Threads

\* What a turn carries, by where it is.
LEMMA CarriedBy ==
    ASSUME TypeInv, NEW t \in Turn
    PROVE  /\ where[t] = "reading" => \A l \in Line : Carries(t, l) <=> l \in turn[t].lines \union turn[t].folded
           /\ where[t] \in {"held", "running"} => \A l \in Line : Carries(t, l) <=> l \in turn[t].folded
BY DEF Carries

\* The store fails, and the thread is told.
LEMMA StoreFailsLeaves ==
    ASSUME TypeInv, Threads, Queues, NEW t \in Turn, StoreFails(t)
    PROVE  Leaves(t)
<1> DEFINE th == turn[t].thread
           behind == queued[th]
<1>1. /\ where[t] = "reading" /\ Release(t, behind, parked)
      /\ where' = [u \in Turn |-> IF u = t THEN "over"
                                  ELSE IF behind # <<>> /\ u = Head(behind) THEN "waiting" ELSE where[u]]
      /\ fate' = [l \in Line |-> IF l \in turn[t].lines \union turn[t].folded THEN "told" ELSE fate[l]]
      /\ turn' = turn /\ handed' = handed
  BY DEF StoreFails, Becomes
<1>2. where[t] \in Live /\ where[t] \in Busy
  BY <1>1 DEF Live, Busy
<1>3. th \in Thread /\ inFlight[th] = t /\ behind \in Seq(Turn)
  BY <1>2, LiveHasThread
<1>4. where \in [Turn -> Place] /\ queued \in [Thread -> Seq(Turn)]
  BY DEF TypeInv
<1>5. \A l \in Line : fate'[l] = IF Carries(t, l) THEN "told" ELSE fate[l]
  BY <1>1, CarriedBy
<1>6. turn' \in [Turn -> TurnRecord] /\ fate' \in [Line -> Fate] /\ turn'[t].thread = turn[t].thread
  BY <1>1 DEF TypeInv, Fate
<1>7. CASE behind = <<>>
  <2>1. ToNone(t)
    <3>1. inFlight' = [inFlight EXCEPT ![th] = Nobody] /\ queued' = [queued EXCEPT ![th] = <<>>]
            /\ parked' = parked /\ waiting' = waiting
      BY <1>1, <1>3, <1>7 DEF Release
    <3>2. queued' = queued
      BY <1>3, <1>4, <1>7, <3>1
    <3>3. where' = [where EXCEPT ![t] = "over"]
      BY <1>1, <1>4, <1>7
    <3> QED BY <1>7, <3>1, <3>2, <3>3 DEF ToNone
  <2> QED BY <1>1, <1>2, <1>5, <1>6, <2>1 DEF Leaves, Others
<1>8. CASE behind # <<>>
  <2>1. ToNext(t)
    <3> DEFINE h == Head(behind)
    <3>1. /\ inFlight' = [inFlight EXCEPT ![th] = h] /\ queued' = [queued EXCEPT ![th] = Tail(behind)]
          /\ parked' = parked - 1 /\ waiting' = Append(waiting, h)
      BY <1>1, <1>3, <1>8 DEF Release, Awaiting
    <3>2. h = behind[1] /\ h \in Turn /\ Len(behind) \in Nat /\ Len(behind) > 0
      BY <1>3, <1>8
    <3>3. where[h] = "queued"
      BY <1>3, <3>2 DEF Queues
    <3>4. where' = [where EXCEPT ![t] = "over", ![h] = "waiting"]
      BY <1>1, <1>4, <1>8, <3>2, <3>3
    <3> QED BY <1>8, <3>1, <3>4 DEF ToNext
  <2> QED BY <1>1, <1>2, <1>5, <1>6, <2>1 DEF Leaves, Others
<1> QED BY <1>7, <1>8

\* How many turns are in some places is a number.
LEMMA PlacedNat ==
    ASSUME NEW w, NEW P
    PROVE  Placed(w, P) \in Nat
<1>1. MaxTurns \in Nat
  BY BoundAssumption
<1>2. IsFiniteSet(Turn)
  BY <1>1, FS_Interval DEF Turn
<1>3. IsFiniteSet({u \in Turn : w[u] \in P})
  BY <1>2, FS_Subset
<1> QED BY <1>3, FS_CardinalityType DEF Placed

\* One turn goes to another place.
Sent(w, v, t, q) == v = [w EXCEPT ![t] = q]

One(p, P) == IF p \in P THEN 1 ELSE 0

\* The counts after one turn has gone to another place.
LEMMA Moved ==
    ASSUME NEW w \in [Turn -> Place], NEW v, NEW t \in Turn, NEW q \in Place,
           Sent(w, v, t, q), NEW P
    PROVE  /\ v \in [Turn -> Place]
           /\ Placed(w, P) \in Nat
           /\ Placed(v, P) = Placed(w, P) + One(q, P) - One(w[t], P)
<1> DEFINE S == {u \in Turn : w[u] \in P}
           T == {u \in Turn : v[u] \in P}
<1>1. IsFiniteSet(Turn)
  <2>1. MaxTurns \in Nat
    BY BoundAssumption
  <2> QED BY <2>1, FS_Interval DEF Turn
<1>2. IsFiniteSet(S) /\ Cardinality(S) \in Nat
  BY <1>1, FS_Subset, FS_CardinalityType
<1>3. v[t] = q /\ \A u \in Turn : u # t => v[u] = w[u]
  BY DEF Sent
<1>4. Cardinality(T) = Cardinality(S) + One(q, P) - One(w[t], P)
  <2>1. ASSUME q \in P <=> w[t] \in P
        PROVE  T = S
    BY <1>3, <2>1
  <2>2. CASE q \in P /\ w[t] \in P
    <3> HIDE DEF S, T
    <3> QED BY <1>2, <2>1, <2>2 DEF One
  <2>3. CASE q \notin P /\ w[t] \notin P
    <3> HIDE DEF S, T
    <3> QED BY <1>2, <2>1, <2>3 DEF One
  <2>4. CASE q \in P /\ w[t] \notin P
    <3>1. T = S \union {t} /\ t \notin S
      BY <1>3, <2>4
    <3>2. Cardinality(T) = Cardinality(S) + 1
      BY <1>2, <3>1, FS_AddElement
    <3> HIDE DEF S, T
    <3> QED BY <1>2, <2>4, <3>2 DEF One
  <2>5. CASE q \notin P /\ w[t] \in P
    <3>1. T = S \ {t} /\ t \in S
      BY <1>3, <2>5
    <3>2. Cardinality(S \ {t}) = Cardinality(S) - 1
      BY <1>2, <3>1, FS_RemoveElement
    <3> HIDE DEF S, T
    <3> QED BY <1>2, <2>5, <3>1, <3>2 DEF One
  <2> HIDE DEF S, T
  <2> QED BY <2>4, <2>5, <2>2, <2>3
<1>5. Placed(w, P) = Cardinality(S) /\ Placed(v, P) = Cardinality(T)
  BY DEF Placed
<1>6. v \in [Turn -> Place]
  BY DEF Sent
<1> HIDE DEF S, T
<1> QED BY <1>2, <1>4, <1>5, <1>6

\* A turn has gone from the place p to the place q, with what that does to the counts.
Shifts(w, v, p, q) ==
    \E t \in Turn : w \in [Turn -> Place] /\ w[t] = p /\ q \in Place /\ Sent(w, v, t, q)

LEMMA Shifted ==
    ASSUME NEW w, NEW v, NEW p, NEW q, Shifts(w, v, p, q), NEW P
    PROVE  /\ Placed(w, P) \in Nat /\ Placed(v, P) \in Nat
           /\ Placed(v, P) = Placed(w, P) + One(q, P) - One(p, P)
<1>1. PICK t \in Turn : w \in [Turn -> Place] /\ w[t] = p /\ q \in Place /\ Sent(w, v, t, q)
  BY DEF Shifts
<1>2. Placed(v, P) = Placed(w, P) + One(q, P) - One(w[t], P)
  BY <1>1, Moved
<1>3. Placed(v, P) = Placed(w, P) + One(q, P) - One(p, P)
  BY <1>1, <1>2
<1> QED BY <1>3, PlacedNat

\* A run that ends, or that got no slot, gives its thread on: what was folded into it
\* follows it, or goes back to who said it.
LEMMA FinishLeaves ==
    ASSUME TypeInv, Threads, Queues, NEW t \in Turn, NEW boundary \in BOOLEAN, parked \in Int,
           where[t] \in {"held", "running"}, Finish(t, boundary)
    PROVE  Leaves(t)
<1> DEFINE th == turn[t].thread
           folded == turn[t].folded
           next == CHOOSE u \in Turn : Fresh(u)
           follows == folded # {} /\ boundary
           behind == (IF follows THEN <<next>> ELSE <<>>) \o queued[th]
<1>1. /\ follows => \E u \in Turn : Fresh(u)
      /\ turn' = IF follows
                 THEN [turn EXCEPT ![t].folded = {},
                       ![next] = [NoTurn EXCEPT !.thread = th, !.who = turn[t].who, !.lines = folded]]
                 ELSE [turn EXCEPT ![t].folded = {}]
      /\ fate' = IF follows THEN fate ELSE [l \in Line |-> IF l \in folded THEN "told" ELSE fate[l]]
      /\ handed' = handed - 1
      /\ Release(t, behind, IF follows THEN parked + 1 ELSE parked)
      /\ where' = [u \in Turn |->
                     IF u = t THEN "over"
                     ELSE IF behind # <<>> /\ u = Head(behind) /\ inFlight[th] = t THEN "waiting"
                     ELSE IF follows /\ u = next THEN "queued" ELSE where[u]]
  BY DEF Finish
<1>2. where[t] \in Live /\ where[t] \in Busy /\ where[t] # "reading"
  BY DEF Live, Busy
<1>3. th \in Thread /\ inFlight[th] = t /\ queued[th] \in Seq(Turn)
  BY <1>2, LiveHasThread
<1>4. /\ where \in [Turn -> Place] /\ queued \in [Thread -> Seq(Turn)]
      /\ turn \in [Turn -> TurnRecord] /\ fate \in [Line -> Fate] /\ turn[t] \in TurnRecord
  BY DEF TypeInv
<1>5. folded \in SUBSET Line /\ \A l \in Line : Carries(t, l) <=> l \in folded
  BY <1>4, CarriedBy DEF TurnRecord
<1>6. CASE ~follows
  <2>1. behind = queued[th]
    <3>1. behind = <<>> \o queued[th]
      BY <1>6
    <3>2. <<>> \o queued[th] = queued[th]
      BY <1>3
    <3> HIDE DEF behind
    <3> QED BY <3>1, <3>2
  <2>2. turn' = [turn EXCEPT ![t].folded = {}]
    BY <1>1, <1>6
  <2>3. turn' \in [Turn -> TurnRecord] /\ Others({t}) /\ turn'[t].thread = turn[t].thread
    BY <1>4, <2>2 DEF TurnRecord, Others
  <2>4. fate' = [l \in Line |-> IF l \in folded THEN "told" ELSE fate[l]]
    BY <1>1, <1>6
  <2>5. /\ fate' \in [Line -> Fate]
        /\ \A l \in Line : fate'[l] = IF Carries(t, l) THEN "told" ELSE fate[l]
    BY <1>4, <1>5, <2>4 DEF Fate
  <2>6. Release(t, queued[th], parked)
    BY <1>1, <1>6, <2>1
  <2>7. where' = [u \in Turn |-> IF u = t THEN "over"
                     ELSE IF queued[th] # <<>> /\ u = Head(queued[th]) THEN "waiting" ELSE where[u]]
    BY <1>1, <1>3, <1>6, <2>1
  <2>8. CASE queued[th] = <<>>
    <3>1. ToNone(t)
      <4>1. inFlight' = [inFlight EXCEPT ![th] = Nobody] /\ queued' = [queued EXCEPT ![th] = <<>>]
            /\ parked' = parked /\ waiting' = waiting
        BY <1>3, <2>6, <2>8 DEF Release
      <4>2. queued' = queued
        BY <1>3, <1>4, <2>8, <4>1
      <4>3. where' = [where EXCEPT ![t] = "over"]
        BY <1>4, <2>7, <2>8
      <4> QED BY <2>8, <4>1, <4>2, <4>3 DEF ToNone
    <3> QED BY <1>1, <1>2, <2>3, <2>5, <3>1 DEF Leaves
  <2>9. CASE queued[th] # <<>>
    <3>1. ToNext(t)
      <4> DEFINE h == Head(queued[th])
      <4>1. /\ inFlight' = [inFlight EXCEPT ![th] = h] /\ queued' = [queued EXCEPT ![th] = Tail(queued[th])]
            /\ parked' = parked - 1 /\ waiting' = Append(waiting, h)
        BY <1>3, <2>6, <2>9 DEF Release, Awaiting
      <4>2. h = queued[th][1] /\ h \in Turn /\ Len(queued[th]) \in Nat /\ Len(queued[th]) > 0
        BY <1>3, <2>9
      <4>3. where[h] = "queued"
        BY <1>3, <4>2 DEF Queues
      <4>4. where' = [where EXCEPT ![t] = "over", ![h] = "waiting"]
        BY <1>4, <2>7, <2>9, <4>2, <4>3
      <4> QED BY <2>9, <4>1, <4>4 DEF ToNext
    <3> QED BY <1>1, <1>2, <2>3, <2>5, <3>1 DEF Leaves
  <2> QED BY <2>8, <2>9
<1>7. CASE follows
  <2>1. next \in Turn /\ where[next] = "none"
    BY <1>1, <1>7 DEF Fresh
  <2>2. next # t
    BY <1>2, <2>1 DEF Live
  <2>3. behind = <<next>> \o queued[th]
    BY <1>7
  <2>4. behind # <<>> /\ Head(behind) = next /\ Tail(behind) = queued[th]
    <3> HIDE DEF next, behind
    <3> DEFINE q == queued[th]
    <3>1. q \in Seq(Turn) /\ <<next>> \in Seq(Turn) /\ next \in Turn
      BY <1>3, <2>1
    <3> HIDE DEF q
    <3>2. Len(<<next>> \o q) = Len(q) + 1 /\ (<<next>> \o q)[1] = next
      BY <3>1
    <3>3. <<next>> \o q # <<>> /\ Head(<<next>> \o q) = next
      BY <3>1, <3>2
    <3>4. Tail(<<next>> \o q) = q
      BY <3>1, <3>2
    <3>5. behind = <<next>> \o q
      BY <2>3 DEF q, behind
    <3>6. behind # <<>> /\ Head(behind) = next /\ Tail(behind) = q
      BY <3>3, <3>4, <3>5
    <3> QED BY <3>6 DEF q
  <2>5. /\ inFlight' = [inFlight EXCEPT ![th] = next] /\ waiting' = Append(waiting, next)
        /\ queued' = [queued EXCEPT ![th] = queued[th]] /\ parked' = (parked + 1) - 1
    BY <1>1, <1>3, <1>7, <2>4 DEF Release, Awaiting
  <2>6. where' = [where EXCEPT ![t] = "over", ![next] = "waiting"]
    BY <1>1, <1>3, <1>4, <1>7, <2>1, <2>2, <2>4
  <2>7. ToNew(t, next)
    BY <1>3, <1>4, <2>1, <2>5, <2>6 DEF ToNew
  <2>8. turn' = [turn EXCEPT ![t].folded = {},
                   ![next] = [NoTurn EXCEPT !.thread = th, !.who = turn[t].who, !.lines = folded]]
    BY <1>1, <1>7
  <2> DEFINE new == [NoTurn EXCEPT !.thread = th, !.who = turn[t].who, !.lines = folded]
  <2>9. new \in TurnRecord /\ new.thread = th /\ new.lines = folded /\ new.folded = {}
    <3>1. turn[t].who \in People
      BY <1>4 DEF TurnRecord
    <3> QED BY <1>3, <1>5, <3>1 DEF NoTurn, TurnRecord
  <2>10. /\ turn' \in [Turn -> TurnRecord] /\ Others({t, next}) /\ turn'[t].thread = turn[t].thread
         /\ turn'[next].thread = th /\ turn'[next].lines = folded /\ turn'[next].folded = {}
    <3> HIDE DEF next, new
    <3>1. turn' = [[turn EXCEPT ![t].folded = {}] EXCEPT ![next] = new]
      BY <2>8 DEF new
    <3>2. /\ [turn EXCEPT ![t].folded = {}] \in [Turn -> TurnRecord]
          /\ [turn EXCEPT ![t].folded = {}][t].thread = turn[t].thread
      BY <1>4 DEF TurnRecord
    <3> QED BY <1>3, <1>4, <1>5, <2>1, <2>2, <2>9, <3>1, <3>2 DEF Others
  <2>11. fate' = fate /\ fate' \in [Line -> Fate]
    BY <1>1, <1>4, <1>7
  <2>12. folded = {l \in Line : Carries(t, l)}
    BY <1>5
  <2>13. /\ ToNew(t, next) /\ Others({t, next}) /\ turn'[next].thread = turn[t].thread
         /\ turn'[next].lines = {l \in Line : Carries(t, l)} /\ turn'[next].folded = {} /\ fate' = fate
    BY <2>7, <2>10, <2>11, <2>12
  <2> HIDE DEF next
  <2>14. \E n \in Turn :
             /\ ToNew(t, n)
             /\ Others({t, n}) /\ turn'[n].thread = turn[t].thread
             /\ turn'[n].lines = {l \in Line : Carries(t, l)} /\ turn'[n].folded = {}
             /\ fate' = fate
    BY <2>1, <2>13
  <2> QED BY <1>1, <1>2, <2>10, <2>11, <2>14 DEF Leaves
<1> QED BY <1>6, <1>7

\* Receive, RefuseLine, the presses of a run that waits and Close keep what is kept.
LEMMA StandsKeeps ==
    ASSUME Kept, Stands
    PROVE  Kept'
<1>1. TypeInv'
  BY DEF Kept, TypeInv, Stands
<1>2. Threads' /\ Queues'
  BY DEF Kept, Threads, Queues, Stands
<1>3. Held'
  <2>1. \A t \in Turn, l \in Line : Carries(t, l)' <=> Carries(t, l)
    BY DEF Carries, Stands
  <2>2. \A l \in Line : fate'[l] = "taken" <=> fate[l] = "taken"
    BY DEF Stands
  <2>3. turn' = turn /\ where' = where
    BY DEF Stands
  <2> QED BY <2>1, <2>2, <2>3 DEF Kept, Held
<1>4. Counts'
  BY DEF Kept, Counts, Stands
<1> QED BY <1>1, <1>2, <1>3, <1>4 DEF Kept

\* A line folded into the turn of its thread was nobody's before, and is that turn's now.
LEMMA FoldedKeeps ==
    ASSUME Kept, NEW l \in Line, NEW t \in Turn, Folded(l, t)
    PROVE  Kept'
<1>1. /\ where[t] \in Live /\ fate[l] = "checked"
      /\ turn' = [turn EXCEPT ![t].folded = @ \union {l}]
      /\ fate' = [fate EXCEPT ![l] = "taken"]
      /\ UNCHANGED <<where, inFlight, waiting, queued, parked, handed>>
  BY DEF Folded
<1>2. turn \in [Turn -> TurnRecord] /\ fate \in [Line -> Fate] /\ where \in [Turn -> Place]
  BY DEF Kept, TypeInv
<1>3. /\ turn' \in [Turn -> TurnRecord] /\ fate' \in [Line -> Fate]
      /\ \A u \in Turn : turn'[u].thread = turn[u].thread /\ turn'[u].lines = turn[u].lines
      /\ \A u \in Turn : u # t => turn'[u] = turn[u]
      /\ turn'[t].folded = turn[t].folded \union {l}
  BY <1>1, <1>2 DEF TurnRecord, Fate
<1>4. TypeInv'
  BY <1>1, <1>3 DEF Kept, TypeInv
<1>5. Threads' /\ Queues'
  <2>1. Threads'
    BY <1>1, <1>3 DEF Kept, TypeInv, Threads
  <2>2. Queues'
    <3>1. \A th \in Thread : \A i \in 1..Len(queued[th]) : queued[th][i] \in Turn
      BY DEF Kept, TypeInv
    <3> QED BY <1>1, <1>3, <3>1 DEF Kept, Queues
  <2> QED BY <2>1, <2>2
<1>6. Held'
  <2>1. \A u \in Turn : ~Carries(u, l)
    BY <1>1 DEF Kept, Held
  <2>2. where[t] # "none" /\ where[t] \notin {"over", "dropped"}
    BY <1>1 DEF Live
  <2>3. \A u \in Turn, k \in Line : Carries(u, k)' <=> (Carries(u, k) \/ (u = t /\ k = l))
    BY <1>1, <1>3, <2>2 DEF Carries
  <2>4. \A k \in Line : fate'[k] = "taken" <=> (fate[k] = "taken" \/ k = l)
    BY <1>1, <1>2
  <2>5. \A u \in Turn : where'[u] = "none" => turn'[u].folded = {}
    BY <1>1, <1>3, <2>2 DEF Kept, Held
  <2>6. \A k \in Line : fate[k] # "taken" => \A u \in Turn : ~Carries(u, k)
    BY DEF Kept, Held
  <2>7. /\ \A k \in Line : \A u, v \in Turn : Carries(u, k) /\ Carries(v, k) => u = v
        /\ \A k \in Line : fate[k] = "taken" => \E u \in Turn : Carries(u, k)
        /\ \A k \in Line : \A u \in Turn : Carries(u, k) => fate[k] = "taken"
    BY DEF Kept, Held
  <2>8. ASSUME NEW k \in Line
        PROVE  /\ \A u \in Turn : Carries(u, k)' => fate'[k] = "taken"
               /\ \A u, v \in Turn : Carries(u, k)' /\ Carries(v, k)' => u = v
               /\ fate'[k] = "taken" => \E u \in Turn : Carries(u, k)'
    BY <2>1, <2>3, <2>4, <2>7
  <2> QED BY <2>5, <2>8 DEF Held
<1>7. Counts'
  BY <1>1 DEF Kept, Counts
<1> QED BY <1>4, <1>5, <1>6, <1>7 DEF Kept

\* What is handed over is nobody's any more.
LEMMA HandOverKeeps ==
    ASSUME Kept, NEW t \in Turn, HandOver(t)
    PROVE  Kept'
<1>1. /\ where[t] = "reading" /\ where' = [where EXCEPT ![t] = "held"]
      /\ fate' = [l \in Line |-> IF l \in turn[t].lines \union turn[t].folded
                                 THEN IF turn[t].resume THEN "lost" ELSE "given" ELSE fate[l]]
      /\ turn' = [turn EXCEPT ![t].folded = {}]
      /\ handed' = handed + 1
      /\ UNCHANGED <<inFlight, waiting, queued, parked>>
  BY DEF HandOver, Becomes, Drained
<1>2. turn \in [Turn -> TurnRecord] /\ fate \in [Line -> Fate] /\ where \in [Turn -> Place]
  BY DEF Kept, TypeInv
<1>3. /\ turn' \in [Turn -> TurnRecord] /\ fate' \in [Line -> Fate] /\ where' \in [Turn -> Place]
      /\ \A u \in Turn : turn'[u].thread = turn[u].thread /\ turn'[u].lines = turn[u].lines
      /\ \A u \in Turn : u # t => turn'[u] = turn[u] /\ where'[u] = where[u]
      /\ turn'[t].folded = {} /\ where'[t] = "held"
  <2>1. turn' \in [Turn -> TurnRecord]
    BY <1>1, <1>2 DEF TurnRecord
  <2>2. fate' \in [Line -> Fate]
    BY <1>1, <1>2 DEF Fate
  <2>3. where' \in [Turn -> Place]
    BY <1>1, <1>2 DEF Place, Live
  <2> QED BY <1>1, <1>2, <2>1, <2>2, <2>3 DEF TurnRecord
<1>4. TypeInv'
  BY <1>1, <1>3 DEF Kept, TypeInv
<1>5. Threads'
  BY <1>1, <1>3 DEF Kept, TypeInv, Threads, Live
<1>6. Queues'
  <2>1. /\ \A th \in Thread : \A i \in 1..Len(queued[th]) : queued[th][i] \in Turn /\ queued[th][i] # t
        /\ \A i \in 1..Len(waiting) : waiting[i] \in Turn /\ waiting[i] # t
    BY <1>1 DEF Kept, TypeInv, Queues
  <2> QED BY <1>1, <1>3, <2>1 DEF Kept, Queues
<1>7. Held'
  <2>1. \A l \in Line : Carries(t, l) <=> l \in turn[t].lines \union turn[t].folded
    BY <1>1, CarriedBy DEF Kept
  <2>2. \A l \in Line : ~Carries(t, l)'
    BY <1>3 DEF Carries
  <2>3. \A u \in Turn, l \in Line : u # t => (Carries(u, l)' <=> Carries(u, l))
    BY <1>3 DEF Carries
  <2>4. \A l \in Line : fate'[l] = "taken" <=> (fate[l] = "taken" /\ ~Carries(t, l))
    BY <1>1, <2>1
  <2>5. \A u \in Turn : where'[u] = "none" => turn'[u].folded = {}
    BY <1>3 DEF Kept, Held
  <2>6. ASSUME NEW l \in Line
        PROVE  /\ \A u \in Turn : Carries(u, l)' => fate'[l] = "taken"
               /\ \A u, v \in Turn : Carries(u, l)' /\ Carries(v, l)' => u = v
               /\ fate'[l] = "taken" => \E u \in Turn : Carries(u, l)'
    BY <2>2, <2>3, <2>4 DEF Kept, Held
  <2> QED BY <2>5, <2>6 DEF Held
<1>8. Counts'
  <2>1. \A P : /\ Placed(where, P) \in Nat
               /\ Placed(where', P) = Placed(where, P) + One("held", P) - One("reading", P)
    <3>1. Shifts(where, where', "reading", "held")
      BY <1>1, <1>2 DEF Place, Live, Shifts, Sent
    <3> QED BY <3>1, Shifted
  <2>2. /\ Placed(where', {"queued"}) = Placed(where, {"queued"})
        /\ Placed(where', {"held", "running"}) = Placed(where, {"held", "running"}) + 1
        /\ Placed(where', {"running"}) = Placed(where, {"running"})
        /\ Placed(where', {"reading", "held"}) = Placed(where, {"reading", "held"})
        /\ Placed(where', Busy) = Placed(where, Busy)
    BY <2>1 DEF Busy, One
  <2> QED BY <1>1, <2>2 DEF Kept, Counts
<1> QED BY <1>4, <1>5, <1>6, <1>7, <1>8 DEF Kept

\* A run keeps what was folded into its turn while it waited for its slot.
LEMMA StartRunKeeps ==
    ASSUME Kept, NEW t \in Turn, StartRun(t)
    PROVE  Kept'
<1>1. /\ where[t] = "held" /\ where' = [where EXCEPT ![t] = "running"]
      /\ Placed(where, {"running"}) < Workers
      /\ UNCHANGED <<fate, turn, inFlight, waiting, queued, parked, handed>>
  <2>1. {u \in Turn : where[u] = "running"} = {u \in Turn : where[u] \in {"running"}}
    OBVIOUS
  <2> QED BY <2>1 DEF StartRun, held, Placed
<1>2. where \in [Turn -> Place]
  BY DEF Kept, TypeInv
<1>3. where' \in [Turn -> Place] /\ where'[t] = "running" /\ \A u \in Turn : u # t => where'[u] = where[u]
  BY <1>1, <1>2 DEF Place, Live
<1>4. TypeInv'
  BY <1>1, <1>3 DEF Kept, TypeInv
<1>5. Threads'
  BY <1>1, <1>3 DEF Kept, TypeInv, Threads, Live
<1>6. Queues'
  <2>1. /\ \A th \in Thread : \A i \in 1..Len(queued[th]) : queued[th][i] \in Turn /\ queued[th][i] # t
        /\ \A i \in 1..Len(waiting) : waiting[i] \in Turn /\ waiting[i] # t
    <3>1. waiting \in Seq(Turn) /\ \A th \in Thread : queued[th] \in Seq(Turn)
      BY DEF Kept, TypeInv
    <3>2. /\ \A th \in Thread : \A i \in 1..Len(queued[th]) : where[queued[th][i]] = "queued"
          /\ \A i \in 1..Len(waiting) : where[waiting[i]] = "waiting"
      BY DEF Kept, Queues
    <3>3. where[t] = "held"
      BY <1>1
    <3>4. \A th \in Thread : \A i \in 1..Len(queued[th]) : queued[th][i] \in Turn
      BY <3>1
    <3>5. \A i \in 1..Len(waiting) : waiting[i] \in Turn
      BY <3>1
    <3> QED BY <3>2, <3>3, <3>4, <3>5
  <2> QED BY <1>1, <1>3, <2>1 DEF Kept, Queues
<1>7. Held'
  <2>1. \A u \in Turn, l \in Line : Carries(u, l)' <=> Carries(u, l)
    BY <1>1, <1>3 DEF Carries
  <2>2. \A u \in Turn : where'[u] = "none" => turn'[u].folded = {}
    BY <1>1, <1>3 DEF Kept, Held
  <2> QED BY <1>1, <2>1, <2>2 DEF Kept, Held
<1>8. Counts'
  <2>1. \A P : /\ Placed(where, P) \in Nat
               /\ Placed(where', P) = Placed(where, P) + One("running", P) - One("held", P)
    <3>1. Shifts(where, where', "held", "running")
      BY <1>1, <1>2 DEF Place, Live, Shifts, Sent
    <3> QED BY <3>1, Shifted
  <2>2. /\ Placed(where', {"queued"}) = Placed(where, {"queued"})
        /\ Placed(where', {"held", "running"}) = Placed(where, {"held", "running"})
        /\ Placed(where', {"running"}) = Placed(where, {"running"}) + 1
        /\ Placed(where', {"reading", "held"}) = Placed(where, {"reading", "held"}) - 1
        /\ Placed(where', Busy) = Placed(where, Busy)
    BY <2>1 DEF Busy, One
  <2>3. Workers \in Nat /\ \A P : Placed(where, P) \in Nat
    BY <2>1, BoundAssumption
  <2> QED BY <1>1, <2>2, <2>3 DEF Kept, Counts
<1> QED BY <1>4, <1>5, <1>6, <1>7, <1>8 DEF Kept

\* The puller takes the first turn that waits, and no second one.
LEMMA TakeWaitingKeeps ==
    ASSUME Kept, TakeWaiting
    PROVE  Kept'
<1> DEFINE h == Head(waiting)
<1>1. /\ waiting # <<>> /\ waiting' = Tail(waiting) /\ where' = [where EXCEPT ![h] = "reading"]
      /\ \A u \in Turn : where[u] \notin {"reading", "held"}
      /\ UNCHANGED <<fate, turn, inFlight, queued, parked, handed>>
  BY DEF TakeWaiting
<1>2. where \in [Turn -> Place] /\ waiting \in Seq(Turn)
  BY DEF Kept, TypeInv
<1>3. h = waiting[1] /\ h \in Turn /\ Len(waiting) \in Nat /\ Len(waiting) > 0 /\ 1 \in 1..Len(waiting)
  BY <1>1, <1>2
<1>4. where[h] = "waiting"
  BY <1>3 DEF Kept, Queues
<1>5. /\ waiting' \in Seq(Turn) /\ Len(waiting') = Len(waiting) - 1
      /\ \A i \in 1..Len(waiting') : waiting'[i] = waiting[i + 1] /\ i + 1 \in 1..Len(waiting) /\ i + 1 # 1
  BY <1>1, <1>2, <1>3
<1> HIDE DEF h
<1>6. where' \in [Turn -> Place] /\ where'[h] = "reading" /\ \A u \in Turn : u # h => where'[u] = where[u]
  BY <1>1, <1>2, <1>3 DEF Place, Live
<1>7. TypeInv'
  BY <1>1, <1>5, <1>6 DEF Kept, TypeInv
<1>8. Threads'
  BY <1>1, <1>4, <1>6 DEF Kept, TypeInv, Threads, Live
<1>9. Queues'
  <2>1. \A th \in Thread : \A i \in 1..Len(queued[th]) : queued[th][i] \in Turn /\ queued[th][i] # h
    BY <1>4 DEF Kept, TypeInv, Queues
  <2>2. \A i \in 1..Len(waiting') : waiting'[i] \in Turn /\ waiting'[i] # h
    BY <1>2, <1>3, <1>5 DEF Kept, Queues
  <2>3. \A i \in 1..Len(waiting') :
           /\ where'[waiting'[i]] = "waiting"
           /\ \A j \in 1..Len(waiting') : waiting'[i] = waiting'[j] => i = j
    <3>1. \A i \in 1..Len(waiting') : where[waiting'[i]] = "waiting"
      BY <1>5 DEF Kept, Queues
    <3>2. \A i \in 1..Len(waiting') : where'[waiting'[i]] = "waiting"
      BY <1>6, <2>2, <3>1
    <3>3. ASSUME NEW i \in 1..Len(waiting'), NEW j \in 1..Len(waiting'), waiting'[i] = waiting'[j]
          PROVE  i = j
      <4>1. waiting[i + 1] = waiting[j + 1] /\ i + 1 \in 1..Len(waiting) /\ j + 1 \in 1..Len(waiting)
        BY <1>5, <3>3
      <4>2. i + 1 = j + 1
        BY <4>1 DEF Kept, Queues
      <4>3. i \in Int /\ j \in Int
        BY <1>3, <1>5
      <4> QED BY <4>2, <4>3
    <3> QED BY <3>2, <3>3
  <2> QED BY <1>1, <1>6, <2>1, <2>3 DEF Kept, Queues
<1>10. Held'
  <2>1. \A u \in Turn, l \in Line : Carries(u, l)' <=> Carries(u, l)
    BY <1>1, <1>4, <1>6 DEF Carries
  <2>2. \A u \in Turn : where'[u] = "none" => turn'[u].folded = {}
    BY <1>1, <1>6 DEF Kept, Held
  <2> QED BY <1>1, <2>1, <2>2 DEF Kept, Held
<1>11. Counts'
  <2>1. \A P : /\ Placed(where, P) \in Nat
               /\ Placed(where', P) = Placed(where, P) + One("reading", P) - One("waiting", P)
    <3>1. Shifts(where, where', "waiting", "reading")
      BY <1>1, <1>2, <1>3, <1>4 DEF Place, Live, Shifts, Sent
    <3> QED BY <3>1, Shifted
  <2>2. /\ Placed(where', {"queued"}) = Placed(where, {"queued"})
        /\ Placed(where', {"held", "running"}) = Placed(where, {"held", "running"})
        /\ Placed(where', {"running"}) = Placed(where, {"running"})
        /\ Placed(where', {"reading", "held"}) = Placed(where, {"reading", "held"}) + 1
        /\ Placed(where', Busy) = Placed(where, Busy) + 1
    BY <2>1 DEF Busy, One
  <2>3. Placed(where, {"reading", "held"}) = 0
    <3>1. {u \in Turn : where[u] \in {"reading", "held"}} = {}
      BY <1>1
    <3> QED BY <3>1, FS_EmptySet DEF Placed
  <2>4. MaxWait \in Nat /\ Workers \in Nat /\ Placed(where, Busy) \in Nat /\ parked \in Nat
    BY <2>1, BoundAssumption DEF Kept, Counts
  <2> QED BY <1>1, <1>3, <1>5, <2>2, <2>3, <2>4 DEF Kept, Counts
<1> QED BY <1>7, <1>8, <1>9, <1>10, <1>11 DEF Kept

\* A new turn takes a thread that is free or waits behind the one that has it, and finds
\* the room that full has looked for.
LEMMA AdmittedKeeps ==
    ASSUME Kept, NEW t \in Turn, NEW new, Admitted(t, new)
    PROVE  Kept'
<1> DEFINE th == new.thread
<1>1. /\ where[t] = "none" /\ new \in TurnRecord /\ th \in Thread /\ new.folded = {}
      /\ turn' = [turn EXCEPT ![t] = new]
      /\ handed' = handed
      /\ \/ new.lines = {} /\ fate' = fate
         \/ \E l \in Line : /\ new.lines = {l} /\ fate[l] = "checked"
                            /\ fate' = [fate EXCEPT ![l] = "taken"]
  BY DEF Admitted, Take, Fresh
<1>2. Len(waiting) \in Nat /\ parked \in Nat /\ MaxWait \in Nat /\ Len(waiting) + parked < MaxWait
  <2>1. Placed(where, {"queued"}) \in Nat
    BY PlacedNat
  <2>2. Len(waiting) \in Nat /\ parked \in Nat /\ MaxWait \in Nat
    BY <2>1, BoundAssumption DEF Kept, Counts, TypeInv
  <2> QED BY <2>2 DEF Admitted, full
<1>3. /\ turn \in [Turn -> TurnRecord] /\ fate \in [Line -> Fate] /\ where \in [Turn -> Place]
      /\ inFlight \in [Thread -> Turn \union {Nobody}]
      /\ waiting \in Seq(Turn) /\ queued \in [Thread -> Seq(Turn)]
  BY DEF Kept, TypeInv
<1>4. Nobody \notin Turn
  BY DEF Nobody, Turn
<1>5. /\ turn' \in [Turn -> TurnRecord] /\ fate' \in [Line -> Fate] /\ turn'[t] = new
      /\ \A u \in Turn : u # t => turn'[u] = turn[u]
  BY <1>1, <1>3 DEF Fate
<1>6. \/ /\ inFlight[th] = Nobody /\ inFlight' = [inFlight EXCEPT ![th] = t]
         /\ waiting' = Append(waiting, t) /\ queued' = queued /\ parked' = parked
         /\ where' = [where EXCEPT ![t] = "waiting"]
      \/ /\ inFlight[th] # Nobody /\ queued' = [queued EXCEPT ![th] = Append(@, t)]
         /\ parked' = parked + 1 /\ inFlight' = inFlight /\ waiting' = waiting
         /\ where' = [where EXCEPT ![t] = "queued"]
  BY DEF Admitted, Take
<1> HIDE DEF th
<1>7. /\ where' \in [Turn -> Place] /\ where'[t] \in {"waiting", "queued"}
      /\ \A u \in Turn : u # t => where'[u] = where[u]
  BY <1>3, <1>6 DEF Place, Live
<1>8. /\ \A h \in Thread : \A i \in 1..Len(queued[h]) : queued[h][i] \in Turn /\ queued[h][i] # t
      /\ \A i \in 1..Len(waiting) : waiting[i] \in Turn /\ waiting[i] # t
  BY <1>1, <1>3 DEF Kept, Queues
<1>9. Held'
  <2>1. \A l \in Line : ~Carries(t, l)
    BY <1>1 DEF Kept, Held, Carries
  <2>2. \A l \in Line : Carries(t, l)' <=> l \in new.lines
    BY <1>1, <1>5, <1>7 DEF Carries
  <2>3. \A u \in Turn, l \in Line : u # t => (Carries(u, l)' <=> Carries(u, l))
    BY <1>5, <1>7 DEF Carries
  <2>4. \A u \in Turn : where'[u] = "none" => turn'[u].folded = {}
    BY <1>5, <1>7 DEF Kept, Held
  <2>5. \A l \in Line : /\ fate'[l] = "taken" <=> fate[l] = "taken" \/ l \in new.lines
                        /\ l \in new.lines => fate[l] = "checked"
    BY <1>1, <1>3
  <2>6. /\ \A l \in Line : \A u \in Turn : Carries(u, l) => fate[l] = "taken"
        /\ \A l \in Line : \A u, v \in Turn : Carries(u, l) /\ Carries(v, l) => u = v
        /\ \A l \in Line : fate[l] = "taken" => \E u \in Turn : Carries(u, l)
    BY DEF Kept, Held
  <2>7. ASSUME NEW l \in Line
        PROVE  /\ \A u \in Turn : Carries(u, l)' => fate'[l] = "taken"
               /\ \A u, v \in Turn : Carries(u, l)' /\ Carries(v, l)' => u = v
               /\ fate'[l] = "taken" => \E u \in Turn : Carries(u, l)'
    <3>1. CASE l \in new.lines
      BY <2>2, <2>3, <2>5, <2>6, <3>1
    <3>2. CASE l \notin new.lines
      BY <2>1, <2>2, <2>3, <2>5, <2>6, <3>2
    <3> QED BY <3>1, <3>2
  <2> QED BY <2>4, <2>7 DEF Held
<1>10. Placed(where', Busy) = Placed(where, Busy) /\ Placed(where, Busy) \in Nat
       /\ Placed(where', {"running"}) = Placed(where, {"running"})
       /\ Placed(where', {"held", "running"}) = Placed(where, {"held", "running"})
       /\ Placed(where', {"reading", "held"}) = Placed(where, {"reading", "held"})
       /\ Placed(where', {"queued"}) = Placed(where, {"queued"}) + One(where'[t], {"queued"})
  <2>1. Shifts(where, where', "none", where'[t])
    BY <1>1, <1>3, <1>6, <1>7 DEF Shifts, Sent
  <2>2. \A P : /\ Placed(where, P) \in Nat
               /\ Placed(where', P) = Placed(where, P) + One(where'[t], P) - One("none", P)
    BY <2>1, Shifted
  <2> QED BY <1>7, <2>2 DEF Busy, One
<1>11. Placed(where, Busy) <= Workers + 1
  <2> DEFINE R == {u \in Turn : where[u] \in {"running"}}
             H == {u \in Turn : where[u] \in {"reading", "held"}}
  <2>1. IsFiniteSet(Turn)
    <3>1. MaxTurns \in Nat
      BY BoundAssumption
    <3> QED BY <3>1, FS_Interval DEF Turn
  <2>2. IsFiniteSet(R) /\ IsFiniteSet(H) /\ R \intersect H = {}
    BY <2>1, FS_Subset
  <2>3. {u \in Turn : where[u] \in Busy} = R \union H
    BY DEF Busy
  <2>4. Cardinality(R \union H) = Cardinality(R) + Cardinality(H)
    <3>1. Cardinality(R \union H) = Cardinality(R) + Cardinality(H) - Cardinality(R \intersect H)
      BY <2>2, FS_Union
    <3>2. Cardinality(R \intersect H) = 0
      BY <2>2, FS_EmptySet
    <3>3. Cardinality(R) \in Nat /\ Cardinality(H) \in Nat
      BY <2>2, FS_CardinalityType
    <3> HIDE DEF R, H
    <3> QED BY <3>1, <3>2, <3>3
  <2>5. Cardinality(R) <= Workers /\ Cardinality(H) <= 1
    BY DEF Kept, Counts, Placed
  <2>6. Placed(where, Busy) = Cardinality(R) + Cardinality(H)
    BY <2>3, <2>4 DEF Placed
  <2>7. Cardinality(R) \in Nat /\ Cardinality(H) \in Nat /\ Workers \in Nat
    BY <2>2, FS_CardinalityType, BoundAssumption
  <2> HIDE DEF R, H
  <2> QED BY <2>5, <2>6, <2>7
<1>12. Workers \in Nat
  BY BoundAssumption
<1>13. CASE inFlight[th] = Nobody
  <2>1. /\ inFlight' = [inFlight EXCEPT ![th] = t] /\ where'[t] = "waiting"
        /\ waiting' = Append(waiting, t) /\ queued' = queued /\ parked' = parked
    BY <1>3, <1>6, <1>13
  <2>2. waiting' \in Seq(Turn) /\ Len(waiting') = Len(waiting) + 1 /\ waiting'[Len(waiting) + 1] = t
        /\ \A i \in 1..Len(waiting) : waiting'[i] = waiting[i]
    BY <1>3, <2>1
  <2>3. TypeInv'
    BY <1>1, <1>3, <1>5, <1>7, <2>1, <2>2 DEF TypeInv, th
  <2>4. Threads'
    <3>1. \A u \in Turn : u # t /\ where'[u] \in Live =>
             turn'[u].thread \in Thread /\ turn'[u].thread # th /\ inFlight'[turn'[u].thread] = u
      BY <1>1, <1>3, <1>4, <1>5, <1>7, <1>13, <2>1 DEF Kept, Threads, th
    <3>2. turn'[t].thread = th /\ inFlight'[th] = t /\ where'[t] \in Live
      BY <1>1, <1>3, <1>5, <2>1 DEF Live, th
    <3>3. \A h \in Thread : h # th => inFlight'[h] = inFlight[h]
      BY <1>3, <2>1
    <3>4. \A h \in Thread : h # th /\ inFlight[h] # Nobody =>
             inFlight[h] \in Turn /\ inFlight[h] # t /\ where[inFlight[h]] \in Live /\ turn[inFlight[h]].thread = h
      BY <1>1 DEF Kept, Threads, Live
    <3>5. \A h \in Thread : inFlight'[h] # Nobody =>
             inFlight'[h] \in Turn /\ where'[inFlight'[h]] \in Live /\ turn'[inFlight'[h]].thread = h
      BY <1>5, <1>7, <3>2, <3>3, <3>4
    <3>6. th \in Thread
      BY <1>1 DEF th
    <3> QED BY <3>1, <3>2, <3>5, <3>6 DEF Threads
  <2>5. Queues'
    <3>1. \A h \in Thread : \A i \in 1..Len(queued[h]) : 
             where'[queued[h][i]] = "queued" /\ turn'[queued[h][i]].thread = h
      BY <1>5, <1>7, <1>8 DEF Kept, Queues
    <3>2. \A i \in 1..Len(waiting) : where'[waiting[i]] = "waiting"
      BY <1>7, <1>8 DEF Kept, Queues
    <3>3. \A i \in 1..Len(waiting') : i \in 1..Len(waiting) \/ i = Len(waiting) + 1
      BY <1>2, <2>2
    <3>4. \A i \in 1..Len(waiting') :
            /\ where'[waiting'[i]] = "waiting"
            /\ \A j \in 1..Len(waiting') : waiting'[i] = waiting'[j] => i = j
      BY <1>8, <2>1, <2>2, <3>2, <3>3 DEF Kept, Queues
    <3> QED BY <2>1, <3>1, <3>4 DEF Kept, Queues
  <2>6. Counts'
    <3>1. Placed(where', {"queued"}) = Placed(where, {"queued"})
      BY <1>10, <2>1, PlacedNat DEF One
    <3>2. Counts
      BY DEF Kept
    <3>3. handed' = handed /\ parked' = parked /\ Len(waiting') = Len(waiting) + 1
      BY <1>1, <2>1, <2>2
    <3>4. Len(waiting') + parked' + Placed(where', Busy) <= MaxWait + Workers + 1
      BY <1>2, <1>10, <1>11, <1>12, <3>3
    <3> QED BY <1>10, <3>1, <3>2, <3>3, <3>4 DEF Counts
  <2> QED BY <1>9, <2>3, <2>4, <2>5, <2>6 DEF Kept
<1>14. CASE inFlight[th] # Nobody
  <2>1. /\ inFlight' = inFlight /\ where'[t] = "queued" /\ waiting' = waiting
        /\ queued' = [queued EXCEPT ![th] = Append(@, t)] /\ parked' = parked + 1
    BY <1>3, <1>6, <1>14
  <2>2. th \in Thread /\ queued[th] \in Seq(Turn)
    BY <1>1, <1>3 DEF th
  <2>3. /\ queued' \in [Thread -> Seq(Turn)] /\ Len(queued'[th]) = Len(queued[th]) + 1
        /\ queued'[th][Len(queued[th]) + 1] = t /\ Len(queued[th]) \in Nat
        /\ \A i \in 1..Len(queued[th]) : queued'[th][i] = queued[th][i]
        /\ \A h \in Thread : h # th => queued'[h] = queued[h]
    BY <1>3, <2>1, <2>2
  <2>4. TypeInv'
    BY <1>3, <1>5, <1>7, <2>1, <2>3 DEF TypeInv
  <2>5. Threads'
    <3>1. \A u \in Turn : where'[u] \in Live => u # t
      BY <2>1 DEF Live
    <3>2. \A h \in Thread : inFlight[h] # Nobody => inFlight[h] # t
      BY <1>1 DEF Kept, Threads, Live
    <3> QED BY <1>5, <1>7, <2>1, <3>1, <3>2 DEF Kept, Threads
  <2>6. Queues'
    <3>1. \A h \in Thread : h # th => \A i \in 1..Len(queued'[h]) :
            /\ where'[queued'[h][i]] = "queued" /\ turn'[queued'[h][i]].thread = h
            /\ \A j \in 1..Len(queued'[h]) : queued'[h][i] = queued'[h][j] => i = j
      BY <1>5, <1>7, <1>8, <2>3 DEF Kept, Queues
    <3>2. \A i \in 1..Len(queued'[th]) : i \in 1..Len(queued[th]) \/ i = Len(queued[th]) + 1
      BY <2>3
    <3>3. turn'[t].thread = th
      BY <1>5 DEF th
    <3>4. \A i \in 1..Len(queued[th]) : where'[queued[th][i]] = "queued" /\ turn'[queued[th][i]].thread = th
      BY <1>5, <1>7, <1>8, <2>2 DEF Kept, Queues
    <3>5. \A i \in 1..Len(queued'[th]) :
            /\ where'[queued'[th][i]] = "queued" /\ turn'[queued'[th][i]].thread = th
            /\ \A j \in 1..Len(queued'[th]) : queued'[th][i] = queued'[th][j] => i = j
      <4>1. \A i \in 1..Len(queued'[th]) :
               where'[queued'[th][i]] = "queued" /\ turn'[queued'[th][i]].thread = th
        BY <2>1, <2>3, <3>2, <3>3, <3>4
      <4>2. \A i \in 1..Len(queued[th]) : queued'[th][i] # t
        BY <1>8, <2>2, <2>3
      <4>3. \A i, j \in 1..Len(queued[th]) : queued'[th][i] = queued'[th][j] => i = j
        BY <2>2, <2>3 DEF Kept, Queues
      <4>4. \A i, j \in 1..Len(queued'[th]) : queued'[th][i] = queued'[th][j] => i = j
        BY <2>3, <3>2, <4>2, <4>3
      <4> QED BY <4>1, <4>4
    <3>6. \A i \in 1..Len(waiting) : where'[waiting[i]] = "waiting"
      BY <1>7, <1>8 DEF Kept, Queues
    <3> QED BY <2>1, <3>1, <3>5, <3>6 DEF Kept, Queues
  <2>7. Counts'
    <3>1. Placed(where', {"queued"}) = Placed(where, {"queued"}) + 1
      BY <1>10, <2>1 DEF One
    <3>2. Counts
      BY DEF Kept
    <3>3. handed' = handed /\ parked' = parked + 1 /\ waiting' = waiting
      BY <1>1, <2>1
    <3>4. Len(waiting') + parked' + Placed(where', Busy) <= MaxWait + Workers + 1
      BY <1>2, <1>10, <1>11, <1>12, <3>3
    <3> QED BY <1>10, <3>1, <3>2, <3>3, <3>4 DEF Counts
  <2> QED BY <1>9, <2>4, <2>5, <2>6, <2>7 DEF Kept
<1> QED BY <1>13, <1>14

\* A turn that leaves its thread leaves no line behind.
LEMMA LeavesHeld ==
    ASSUME Kept, NEW t \in Turn, Leaves(t)
    PROVE  Held'
<1>1. /\ where \in [Turn -> Place] /\ turn \in [Turn -> TurnRecord] /\ where[t] \in Busy
      /\ queued \in [Thread -> Seq(Turn)]
  BY DEF Kept, TypeInv, Leaves
<1>2. /\ \A l \in Line : \A u \in Turn : Carries(u, l) => fate[l] = "taken"
      /\ \A l \in Line : \A u, v \in Turn : Carries(u, l) /\ Carries(v, l) => u = v
      /\ \A l \in Line : fate[l] = "taken" => \E u \in Turn : Carries(u, l)
      /\ \A u \in Turn : where[u] = "none" => turn[u].folded = {}
  BY DEF Kept, Held
<1>3. CASE /\ ToNone(t) \/ ToNext(t)
           /\ Others({t})
           /\ \A l \in Line : fate'[l] = IF Carries(t, l) THEN "told" ELSE fate[l]
  <2>1. /\ where'[t] = "over"
        /\ \A u \in Turn : u # t => \/ where'[u] = where[u]
                                    \/ where[u] = "queued" /\ where'[u] = "waiting"
    <3>1. CASE ToNone(t)
      BY <1>1, <3>1 DEF ToNone
    <3>2. CASE ToNext(t)
      <4> DEFINE h == Head(queued[turn[t].thread])
      <4>1. where' = [where EXCEPT ![t] = "over", ![h] = "waiting"] /\ queued[turn[t].thread] # <<>>
        BY <3>2 DEF ToNext
      <4>2. h \in Turn /\ where[h] = "queued"
        <5>1. where[t] \in Live
          BY <1>1 DEF Live, Busy
        <5>2. queued[turn[t].thread] \in Seq(Turn) /\ turn[t].thread \in Thread
          BY <5>1, LiveHasThread DEF Kept
        <5>3. h = queued[turn[t].thread][1] /\ 1 \in 1..Len(queued[turn[t].thread])
          BY <4>1, <5>2
        <5> QED BY <4>1, <5>2, <5>3 DEF Kept, Queues
      <4>3. h # t
        BY <1>1, <4>2 DEF Busy
      <4> HIDE DEF h
      <4> QED BY <1>1, <4>1, <4>2, <4>3
    <3> QED BY <1>3, <3>1, <3>2
  <2>2. \A u \in Turn : u # t => turn'[u] = turn[u]
    BY <1>3 DEF Others
  <2>3. \A u \in Turn, l \in Line : u # t => (Carries(u, l)' <=> Carries(u, l))
    BY <2>1, <2>2 DEF Carries
  <2>4. \A l \in Line : ~Carries(t, l)'
    BY <2>1 DEF Carries
  <2>5. \A u \in Turn : where'[u] = "none" => turn'[u].folded = {}
    BY <1>2, <2>1, <2>2
  <2>6. \A l \in Line : fate'[l] = "taken" <=> fate[l] = "taken" /\ ~Carries(t, l)
    BY <1>3
  <2>7. ASSUME NEW l \in Line
        PROVE  /\ \A u \in Turn : Carries(u, l)' => fate'[l] = "taken"
               /\ \A u, v \in Turn : Carries(u, l)' /\ Carries(v, l)' => u = v
               /\ fate'[l] = "taken" => \E u \in Turn : Carries(u, l)'
    BY <1>2, <2>3, <2>4, <2>6
  <2> QED BY <2>5, <2>7 DEF Held
<1>4. ASSUME NEW n \in Turn, ToNew(t, n), Others({t, n}),
             turn'[n].lines = {l \in Line : Carries(t, l)}, turn'[n].folded = {}, fate' = fate
      PROVE  Held'
  <2>1. /\ where[n] = "none" /\ n # t /\ where'[t] = "over" /\ where'[n] = "waiting"
        /\ \A u \in Turn \ {t, n} : where'[u] = where[u] /\ turn'[u] = turn[u]
    BY <1>1, <1>4 DEF ToNew, Others, Busy
  <2>2. \A u \in Turn \ {t, n}, l \in Line : Carries(u, l)' <=> Carries(u, l)
    BY <2>1 DEF Carries
  <2>3. \A l \in Line : ~Carries(t, l)'
    BY <2>1 DEF Carries
  <2>4. \A l \in Line : Carries(n, l)' <=> Carries(t, l)
    BY <1>4, <2>1 DEF Carries
  <2>5. \A l \in Line : ~Carries(n, l)
    BY <1>2, <2>1 DEF Carries
  <2>6. \A u \in Turn : where'[u] = "none" => turn'[u].folded = {}
    BY <1>2, <2>1
  <2>7. ASSUME NEW l \in Line
        PROVE  /\ \A u \in Turn : Carries(u, l)' => fate'[l] = "taken"
               /\ \A u, v \in Turn : Carries(u, l)' /\ Carries(v, l)' => u = v
               /\ fate'[l] = "taken" => \E u \in Turn : Carries(u, l)'
    BY <1>2, <1>4, <2>2, <2>3, <2>4, <2>5
  <2> QED BY <2>6, <2>7 DEF Held
<1> QED BY <1>3, <1>4 DEF Leaves, ToNew

\* The counts after a turn that was taken is over.
LEMMA OverCounts ==
    ASSUME Kept, NEW t \in Turn, where[t] \in Busy, NEW v, Sent(where, v, t, "over")
    PROVE  /\ v \in [Turn -> Place]
           /\ Placed(v, {"queued"}) = parked
           /\ Placed(v, {"running"}) <= Workers
           /\ Placed(v, {"reading", "held"}) <= 1
           /\ Placed(v, Busy) = Placed(where, Busy) - 1
           /\ Placed(v, {"held", "running"}) = IF where[t] = "reading" THEN handed ELSE handed - 1
<1>1. where \in [Turn -> Place] /\ "over" \in Place
  BY DEF Kept, TypeInv, Place
<1>2. /\ v \in [Turn -> Place]
      /\ \A P : /\ Placed(where, P) \in Nat /\ Placed(v, P) \in Nat
                /\ Placed(v, P) = Placed(where, P) + One("over", P) - One(where[t], P)
  <2>1. v \in [Turn -> Place] /\ Shifts(where, v, where[t], "over")
    BY <1>1 DEF Shifts, Sent
  <2> QED BY <2>1, Shifted
<1>3. where[t] = "reading" \/ where[t] = "held" \/ where[t] = "running"
  BY DEF Busy
<1>4. Placed(v, {"queued"}) = Placed(where, {"queued"})
  <2>1. One("over", {"queued"}) = 0 /\ One(where[t], {"queued"}) = 0
    BY <1>3 DEF One
  <2> QED BY <1>2, <2>1
<1>5. Placed(v, {"running"}) <= Placed(where, {"running"})
  <2>1. One("over", {"running"}) = 0 /\ One(where[t], {"running"}) \in {0, 1}
    BY DEF One
  <2> QED BY <1>2, <2>1
<1>6. Placed(v, {"reading", "held"}) <= Placed(where, {"reading", "held"})
  <2>1. One("over", {"reading", "held"}) = 0 /\ One(where[t], {"reading", "held"}) \in {0, 1}
    BY DEF One
  <2> QED BY <1>2, <2>1
<1>7. Placed(v, Busy) = Placed(where, Busy) - 1
  <2>1. One("over", Busy) = 0 /\ One(where[t], Busy) = 1
    BY DEF One, Busy
  <2> QED BY <1>2, <2>1
<1>8. Placed(v, {"held", "running"}) = IF where[t] = "reading" THEN handed ELSE handed - 1
  <2>1. /\ One("over", {"held", "running"}) = 0
        /\ One(where[t], {"held", "running"}) = IF where[t] = "reading" THEN 0 ELSE 1
    BY <1>3 DEF One
  <2>2. handed = Placed(where, {"held", "running"})
    BY DEF Kept, Counts
  <2> QED BY <1>2, <2>1, <2>2
<1>9. Workers \in Nat
  BY BoundAssumption
<1> QED BY <1>2, <1>4, <1>5, <1>6, <1>7, <1>8, <1>9 DEF Kept, Counts

\* A thread without a queue is free.
LEMMA LeavesToNone ==
    ASSUME Kept, NEW t \in Turn, Leaves(t), ToNone(t), Others({t})
    PROVE  (TypeInv /\ Threads /\ Queues /\ Counts)'
<1> DEFINE th == turn[t].thread
<1>1. /\ where[t] \in Busy /\ where' = [where EXCEPT ![t] = "over"]
      /\ inFlight' = [inFlight EXCEPT ![th] = Nobody]
      /\ UNCHANGED <<queued, parked, waiting>>
      /\ handed' = IF where[t] = "reading" THEN handed ELSE handed - 1
      /\ turn' \in [Turn -> TurnRecord] /\ fate' \in [Line -> Fate]
      /\ \A u \in Turn : u # t => turn'[u] = turn[u]
  BY DEF Leaves, ToNone, Others
<1>2. where \in [Turn -> Place] /\ inFlight \in [Thread -> Turn \union {Nobody}]
  BY DEF Kept, TypeInv
<1>3. th \in Thread /\ inFlight[th] = t
  <2>1. where[t] \in Live
    BY <1>1 DEF Live, Busy
  <2> QED BY <2>1, LiveHasThread DEF Kept
<1> HIDE DEF th
<1>4. where' \in [Turn -> Place] /\ where'[t] = "over" /\ \A u \in Turn : u # t => where'[u] = where[u]
  BY <1>1, <1>2 DEF Place
<1>5. TypeInv'
  BY <1>1, <1>2, <1>4 DEF Kept, TypeInv
<1>6. Threads'
  <2>1. \A u \in Turn : where'[u] \in Live =>
           u # t /\ turn'[u].thread \in Thread /\ turn'[u].thread # th /\ inFlight'[turn'[u].thread] = u
    BY <1>1, <1>2, <1>3, <1>4 DEF Kept, Threads, Live
  <2>2. \A h \in Thread : inFlight'[h] # Nobody =>
           h # th /\ inFlight'[h] = inFlight[h] /\ inFlight[h] # t
    BY <1>1, <1>2 DEF Kept, Threads, th
  <2> QED BY <1>1, <1>4, <2>1, <2>2 DEF Kept, Threads
<1>7. Queues'
  <2>1. /\ \A h \in Thread : \A i \in 1..Len(queued[h]) : queued[h][i] \in Turn /\ queued[h][i] # t
        /\ \A i \in 1..Len(waiting) : waiting[i] \in Turn /\ waiting[i] # t
    <3>1. where[t] # "queued" /\ where[t] # "waiting"
      BY <1>1 DEF Busy
    <3>2. /\ \A h \in Thread : \A i \in 1..Len(queued[h]) : queued[h][i] \in Turn
          /\ \A i \in 1..Len(waiting) : waiting[i] \in Turn
      BY DEF Kept, TypeInv
    <3> QED BY <3>1, <3>2 DEF Kept, Queues
  <2> QED BY <1>1, <1>4, <2>1 DEF Kept, Queues
<1>8. Counts'
  <2>1. Sent(where, where', t, "over")
    BY <1>1 DEF Sent
  <2> DEFINE v == where'
  <2> HIDE DEF v
  <2>2. /\ Placed(v, {"queued"}) = parked
        /\ Placed(v, {"running"}) <= Workers
        /\ Placed(v, {"reading", "held"}) <= 1
        /\ Placed(v, Busy) = Placed(where, Busy) - 1
        /\ Placed(v, {"held", "running"}) = handed'
    BY <1>1, <2>1, OverCounts DEF v
  <2>3. /\ Len(waiting) \in Nat /\ parked \in Nat /\ MaxWait \in Nat /\ Workers \in Nat
        /\ Placed(where, Busy) \in Nat
        /\ Len(waiting) + parked + Placed(where, Busy) <= MaxWait + Workers + 1
    BY PlacedNat, BoundAssumption DEF Kept, Counts, TypeInv
  <2>4. Len(waiting) + parked + Placed(v, Busy) <= MaxWait + Workers + 1
    BY <2>2, <2>3
  <2> QED BY <1>1, <2>2, <2>4 DEF Counts, v
<1> QED BY <1>5, <1>6, <1>7, <1>8

\* The turn that gets the thread is the only one it is held for.
LEMMA LeavesToWaiting ==
    ASSUME Kept, NEW t \in Turn, Leaves(t), NEW n \in Turn,
           n # t, where[n] \in {"none", "queued"},
           where' = [where EXCEPT ![t] = "over", ![n] = "waiting"],
           waiting' = Append(waiting, n),
           inFlight' = [inFlight EXCEPT ![turn[t].thread] = n],
           queued' \in [Thread -> Seq(Turn)],
           turn'[n].thread = turn[t].thread, Others({t, n})
    PROVE  /\ TypeInv' /\ Threads'
           /\ \A i \in 1..Len(waiting') :
                /\ where'[waiting'[i]] = "waiting"
                /\ \A j \in 1..Len(waiting') : waiting'[i] = waiting'[j] => i = j
           /\ Len(waiting') = Len(waiting) + 1
<1> DEFINE th == turn[t].thread
<1>1. /\ where[t] \in Busy /\ turn' \in [Turn -> TurnRecord] /\ fate' \in [Line -> Fate]
      /\ \A u \in Turn \ {t, n} : turn'[u] = turn[u]
  BY DEF Leaves, Others
<1>2. /\ where \in [Turn -> Place] /\ inFlight \in [Thread -> Turn \union {Nobody}] /\ waiting \in Seq(Turn)
      /\ Nobody \notin Turn
  BY DEF Kept, TypeInv, Nobody, Turn
<1>3. th \in Thread /\ inFlight[th] = t
  <2>1. where[t] \in Live
    BY <1>1 DEF Live, Busy
  <2> QED BY <2>1, LiveHasThread DEF Kept
<1>4. /\ where' \in [Turn -> Place] /\ where'[t] = "over" /\ where'[n] = "waiting"
      /\ \A u \in Turn \ {t, n} : where'[u] = where[u]
  BY <1>2 DEF Place, Live
<1>5. /\ inFlight' \in [Thread -> Turn \union {Nobody}] /\ inFlight'[th] = n
      /\ \A h \in Thread : h # th => inFlight'[h] = inFlight[h]
  BY <1>2, <1>3
<1>6. turn'[n].thread = th
  OBVIOUS
<1> HIDE DEF th
<1>7. /\ waiting' \in Seq(Turn) /\ Len(waiting') = Len(waiting) + 1 /\ waiting'[Len(waiting) + 1] = n
      /\ \A i \in 1..Len(waiting) : waiting'[i] = waiting[i]
      /\ \A i \in 1..Len(waiting') : i \in 1..Len(waiting) \/ i = Len(waiting) + 1
  BY <1>2
<1>8. TypeInv'
  BY <1>1, <1>4, <1>5, <1>7 DEF Kept, TypeInv
<1>9. Threads'
  <2>1. \A u \in Turn : u # n /\ where'[u] \in Live =>
           u # t /\ turn'[u].thread \in Thread /\ turn'[u].thread # th /\ inFlight'[turn'[u].thread] = u
    <3>1. ASSUME NEW u \in Turn, u # n, where'[u] \in Live
          PROVE  u # t /\ turn'[u].thread \in Thread /\ turn'[u].thread # th
                 /\ inFlight'[turn'[u].thread] = u
      <4>1. u # t
        BY <1>4, <3>1 DEF Live
      <4>2. where'[u] = where[u] /\ turn'[u] = turn[u]
        BY <1>1, <1>4, <3>1, <4>1
      <4>3. turn[u].thread \in Thread /\ inFlight[turn[u].thread] = u
        BY <3>1, <4>2 DEF Kept, Threads
      <4>4. turn[u].thread # th
        BY <1>3, <4>1, <4>3
      <4> QED BY <1>5, <4>1, <4>2, <4>3, <4>4
    <3> QED BY <3>1
  <2>2. \A h \in Thread : h # th /\ inFlight[h] # Nobody =>
           /\ inFlight[h] \in Turn \ {t, n} /\ where[inFlight[h]] \in Live
           /\ turn[inFlight[h]].thread = h
    BY <1>3 DEF Kept, Threads, Live, th
  <2>3. \A h \in Thread : inFlight'[h] # Nobody =>
           inFlight'[h] \in Turn /\ where'[inFlight'[h]] \in Live /\ turn'[inFlight'[h]].thread = h
    <3>1. "waiting" \in Live
      BY DEF Live
    <3>2. \A h \in Thread : h # th /\ inFlight'[h] # Nobody =>
             inFlight'[h] \in Turn /\ where'[inFlight'[h]] \in Live /\ turn'[inFlight'[h]].thread = h
      <4>1. ASSUME NEW h \in Thread, h # th, inFlight'[h] # Nobody
            PROVE  inFlight'[h] \in Turn /\ where'[inFlight'[h]] \in Live /\ turn'[inFlight'[h]].thread = h
        <5>1. inFlight'[h] = inFlight[h] /\ inFlight[h] \in Turn \ {t, n}
              /\ where[inFlight[h]] \in Live /\ turn[inFlight[h]].thread = h
          BY <1>5, <2>2, <4>1
        <5>2. where'[inFlight[h]] = where[inFlight[h]] /\ turn'[inFlight[h]] = turn[inFlight[h]]
          BY <1>1, <1>4, <5>1
        <5> QED BY <5>1, <5>2
      <4> QED BY <4>1
    <3> QED BY <1>4, <1>5, <1>6, <3>1, <3>2
  <2>4. ASSUME NEW u \in Turn, where'[u] \in Live
        PROVE  turn'[u].thread \in Thread /\ inFlight'[turn'[u].thread] = u
    <3>1. CASE u = n
      BY <1>3, <1>5, <1>6, <3>1
    <3>2. CASE u # n
      BY <2>1, <2>4, <3>2
    <3> QED BY <3>1, <3>2
  <2> QED BY <2>3, <2>4 DEF Threads
<1>10. \A i \in 1..Len(waiting') :
          /\ where'[waiting'[i]] = "waiting"
          /\ \A j \in 1..Len(waiting') : waiting'[i] = waiting'[j] => i = j
  <2>1. \A i \in 1..Len(waiting) : waiting[i] \in Turn \ {t, n} /\ where[waiting[i]] = "waiting"
    <3>1. where[t] # "waiting"
      BY <1>1 DEF Busy
    <3> QED BY <1>2, <3>1 DEF Kept, Queues
  <2>2. \A i \in 1..Len(waiting) : where'[waiting'[i]] = "waiting" /\ waiting'[i] # n
    BY <1>4, <1>7, <2>1
  <2>3. \A i, j \in 1..Len(waiting) : waiting'[i] = waiting'[j] => i = j
    BY <1>7 DEF Kept, Queues
  <2>4. \A i \in 1..Len(waiting') : where'[waiting'[i]] = "waiting"
    BY <1>4, <1>7, <2>2
  <2>5. \A i, j \in 1..Len(waiting') : waiting'[i] = waiting'[j] => i = j
    BY <1>7, <2>2, <2>3
  <2> QED BY <2>4, <2>5
<1> QED BY <1>7, <1>8, <1>9, <1>10

\* The first turn of the queue gets the thread.
LEMMA LeavesToNext ==
    ASSUME Kept, NEW t \in Turn, Leaves(t), ToNext(t), Others({t})
    PROVE  (TypeInv /\ Threads /\ Queues /\ Counts)'
<1> DEFINE th == turn[t].thread
           n == Head(queued[th])
<1>1. /\ where[t] \in Busy /\ queued[th] # <<>>
      /\ queued' = [queued EXCEPT ![th] = Tail(queued[th])] /\ parked' = parked - 1
      /\ waiting' = Append(waiting, n) /\ inFlight' = [inFlight EXCEPT ![th] = n]
      /\ where' = [where EXCEPT ![t] = "over", ![n] = "waiting"]
      /\ handed' = IF where[t] = "reading" THEN handed ELSE handed - 1
      /\ \A u \in Turn : u # t => turn'[u] = turn[u]
  BY DEF Leaves, ToNext, Others
<1>2. queued \in [Thread -> Seq(Turn)] /\ where \in [Turn -> Place]
  BY DEF Kept, TypeInv
<1>3. th \in Thread /\ queued[th] \in Seq(Turn)
  <2>1. where[t] \in Live
    BY <1>1 DEF Live, Busy
  <2> QED BY <2>1, LiveHasThread DEF Kept
<1>4. /\ n = queued[th][1] /\ n \in Turn /\ Len(queued[th]) \in Nat /\ Len(queued[th]) > 0
      /\ 1 \in 1..Len(queued[th])
  BY <1>1, <1>3
<1>5. where[n] = "queued" /\ turn[n].thread = th /\ n # t
  <2>1. where[n] = "queued" /\ turn[n].thread = th
    BY <1>3, <1>4 DEF Kept, Queues
  <2> QED BY <1>1, <2>1 DEF Busy
<1>6. /\ queued' \in [Thread -> Seq(Turn)] /\ Len(queued'[th]) = Len(queued[th]) - 1
      /\ \A i \in 1..Len(queued'[th]) :
            queued'[th][i] = queued[th][i + 1] /\ i + 1 \in 1..Len(queued[th]) /\ i + 1 # 1 /\ i \in Int
      /\ \A h \in Thread : h # th => queued'[h] = queued[h]
  <2>1. Tail(queued[th]) \in Seq(Turn) /\ Len(Tail(queued[th])) = Len(queued[th]) - 1
        /\ \A i \in 1..Len(Tail(queued[th])) : Tail(queued[th])[i] = queued[th][i + 1]
    BY <1>1, <1>3
  <2>2. queued'[th] = Tail(queued[th]) /\ queued' \in [Thread -> Seq(Turn)]
        /\ \A h \in Thread : h # th => queued'[h] = queued[h]
    BY <1>1, <1>2, <1>3, <2>1
  <2> QED BY <1>4, <2>1, <2>2
<1>7. Others({t, n}) /\ turn'[n].thread = turn[t].thread
  <2> HIDE DEF n
  <2>1. Others({t, n})
    BY <1>1 DEF Others
  <2>2. turn'[n] = turn[n]
    BY <1>1, <1>4, <1>5
  <2> QED BY <1>5, <2>1, <2>2
<1> HIDE DEF n
<1>8. /\ TypeInv' /\ Threads'
      /\ \A i \in 1..Len(waiting') :
           /\ where'[waiting'[i]] = "waiting"
           /\ \A j \in 1..Len(waiting') : waiting'[i] = waiting'[j] => i = j
      /\ Len(waiting') = Len(waiting) + 1
  BY <1>1, <1>4, <1>5, <1>6, <1>7, LeavesToWaiting
<1> HIDE DEF th
<1>9. Queues'
  <2>1. \A u \in Turn \ {t, n} : where'[u] = where[u] /\ turn'[u] = turn[u]
    BY <1>1, <1>2
  <2>2. where[t] # "queued"
    BY <1>1 DEF Busy
  <2>3. \A h \in Thread : \A i \in 1..Len(queued[h]) :
           queued[h][i] \in Turn /\ where[queued[h][i]] = "queued" /\ turn[queued[h][i]].thread = h
    BY <1>2 DEF Kept, Queues
  <2>4. ASSUME NEW h \in Thread, h # th, NEW i \in 1..Len(queued'[h])
        PROVE  /\ where'[queued'[h][i]] = "queued" /\ turn'[queued'[h][i]].thread = h
               /\ \A j \in 1..Len(queued'[h]) : queued'[h][i] = queued'[h][j] => i = j
    <3>1. queued'[h] = queued[h]
      BY <1>6, <2>4
    <3>2. queued[h][i] \in Turn \ {t, n} /\ where[queued[h][i]] = "queued" /\ turn[queued[h][i]].thread = h
      BY <1>5, <2>2, <2>3, <2>4, <3>1
    <3>3. \A j \in 1..Len(queued[h]) : queued[h][i] = queued[h][j] => i = j
      BY <2>4, <3>1 DEF Kept, Queues
    <3> QED BY <2>1, <3>1, <3>2, <3>3
  <2>5. ASSUME NEW i \in 1..Len(queued'[th])
        PROVE  /\ where'[queued'[th][i]] = "queued" /\ turn'[queued'[th][i]].thread = th
               /\ \A j \in 1..Len(queued'[th]) : queued'[th][i] = queued'[th][j] => i = j
    <3>1. queued'[th][i] = queued[th][i + 1] /\ i + 1 \in 1..Len(queued[th]) /\ i + 1 # 1
      BY <1>6
    <3>2. queued'[th][i] \in Turn /\ where[queued'[th][i]] = "queued" /\ turn[queued'[th][i]].thread = th
      BY <1>3, <2>3, <3>1
    <3>3. queued'[th][i] # n
      <4>1. \A j \in 1..Len(queued[th]) : queued[th][i + 1] = queued[th][j] => i + 1 = j
        BY <1>3, <3>1 DEF Kept, Queues
      <4> QED BY <1>4, <3>1, <4>1
    <3>4. ASSUME NEW j \in 1..Len(queued'[th]), queued'[th][i] = queued'[th][j]
          PROVE  i = j
      <4>1. queued[th][i + 1] = queued[th][j + 1] /\ j + 1 \in 1..Len(queued[th])
        BY <1>6, <3>1, <3>4
      <4>2. i + 1 = j + 1
        BY <1>3, <3>1, <4>1 DEF Kept, Queues
      <4>3. i \in Int /\ j \in Int
        BY <1>6
      <4> QED BY <4>2, <4>3
    <3> QED BY <2>1, <2>2, <3>2, <3>3, <3>4
  <2> QED BY <1>3, <1>8, <2>4, <2>5 DEF Queues
<1>10. Counts'
  <2> DEFINE v == [where EXCEPT ![t] = "over"]
             w == where'
  <2>1. Sent(where, v, t, "over") /\ Sent(v, w, n, "waiting") /\ "waiting" \in Place
    BY <1>1 DEF Sent, Place, Live
  <2>2. v[n] = "queued"
    BY <1>2, <1>4, <1>5
  <2> HIDE DEF v, w
  <2>3. /\ v \in [Turn -> Place]
        /\ Placed(v, {"queued"}) = parked
        /\ Placed(v, {"running"}) <= Workers
        /\ Placed(v, {"reading", "held"}) <= 1
        /\ Placed(v, Busy) = Placed(where, Busy) - 1
        /\ Placed(v, {"held", "running"}) = handed'
    BY <1>1, <2>1, OverCounts
  <2>4. \A P : Placed(v, P) \in Nat /\ Placed(w, P) = Placed(v, P) + One("waiting", P) - One("queued", P)
    <3>1. n \in Turn
      BY <1>4
    <3> QED BY <2>1, <2>2, <2>3, <3>1, Moved
  <2>5. Placed(w, {"queued"}) = Placed(v, {"queued"}) - 1
    <3>1. One("waiting", {"queued"}) = 0 /\ One("queued", {"queued"}) = 1
      BY DEF One
    <3> QED BY <2>4, <3>1
  <2>6. \A P : "waiting" \notin P /\ "queued" \notin P => Placed(w, P) = Placed(v, P)
    BY <2>4 DEF One
  <2>7. /\ Placed(w, {"running"}) = Placed(v, {"running"})
        /\ Placed(w, {"reading", "held"}) = Placed(v, {"reading", "held"})
        /\ Placed(w, Busy) = Placed(v, Busy)
        /\ Placed(w, {"held", "running"}) = Placed(v, {"held", "running"})
    BY <2>6 DEF Busy
  <2>8. /\ Len(waiting) \in Nat /\ parked \in Nat /\ MaxWait \in Nat /\ Workers \in Nat
        /\ Placed(where, Busy) \in Nat
        /\ Len(waiting) + parked + Placed(where, Busy) <= MaxWait + Workers + 1
    BY PlacedNat, BoundAssumption DEF Kept, Counts, TypeInv
  <2>9. Len(waiting') + parked' + Placed(w, Busy) <= MaxWait + Workers + 1
    BY <1>1, <1>8, <2>3, <2>7, <2>8
  <2> QED BY <1>1, <2>3, <2>5, <2>7, <2>9 DEF Counts, w
<1> QED BY <1>8, <1>9, <1>10

\* The follow-up gets the thread, in front of the queue.
LEMMA LeavesToNew ==
    ASSUME Kept, NEW t \in Turn, Leaves(t), NEW n \in Turn, ToNew(t, n), Others({t, n}),
           turn'[n].thread = turn[t].thread
    PROVE  (TypeInv /\ Threads /\ Queues /\ Counts)'
<1> DEFINE th == turn[t].thread
<1>1. /\ where[t] \in Busy /\ where[n] = "none" /\ queued' = queued /\ parked' = parked
      /\ waiting' = Append(waiting, n) /\ inFlight' = [inFlight EXCEPT ![th] = n]
      /\ where' = [where EXCEPT ![t] = "over", ![n] = "waiting"]
      /\ handed' = IF where[t] = "reading" THEN handed ELSE handed - 1
      /\ \A u \in Turn \ {t, n} : turn'[u] = turn[u]
  BY DEF Leaves, ToNew, Others
<1>2. queued \in [Thread -> Seq(Turn)] /\ where \in [Turn -> Place]
  BY DEF Kept, TypeInv
<1>3. n # t
  BY <1>1 DEF Busy
<1>4. /\ TypeInv' /\ Threads'
      /\ \A i \in 1..Len(waiting') :
           /\ where'[waiting'[i]] = "waiting"
           /\ \A j \in 1..Len(waiting') : waiting'[i] = waiting'[j] => i = j
      /\ Len(waiting') = Len(waiting) + 1
  BY <1>1, <1>2, <1>3, LeavesToWaiting
<1>5. Queues'
  <2>1. \A u \in Turn \ {t, n} : where'[u] = where[u] /\ turn'[u] = turn[u]
    BY <1>1, <1>2
  <2>2. \A h \in Thread : \A i \in 1..Len(queued[h]) :
           queued[h][i] \in Turn \ {t, n} /\ where[queued[h][i]] = "queued" /\ turn[queued[h][i]].thread = h
    <3>1. where[t] # "queued"
      BY <1>1 DEF Busy
    <3> QED BY <1>1, <1>2, <3>1 DEF Kept, Queues
  <2>3. \A h \in Thread : \A i \in 1..Len(queued[h]) :
           where'[queued[h][i]] = "queued" /\ turn'[queued[h][i]].thread = h
    BY <2>1, <2>2
  <2>4. \A h \in Thread : \A i, j \in 1..Len(queued[h]) : queued[h][i] = queued[h][j] => i = j
    BY DEF Kept, Queues
  <2>5. queued' = queued
    BY <1>1
  <2> QED BY <1>4, <2>3, <2>4, <2>5 DEF Queues
<1>6. Counts'
  <2> DEFINE v == [where EXCEPT ![t] = "over"]
             w == where'
  <2>1. Sent(where, v, t, "over") /\ Sent(v, w, n, "waiting") /\ "waiting" \in Place
    BY <1>1 DEF Sent, Place, Live
  <2>2. v[n] = "none"
    BY <1>1, <1>2, <1>3
  <2> HIDE DEF v, w
  <2>3. /\ v \in [Turn -> Place]
        /\ Placed(v, {"queued"}) = parked
        /\ Placed(v, {"running"}) <= Workers
        /\ Placed(v, {"reading", "held"}) <= 1
        /\ Placed(v, Busy) = Placed(where, Busy) - 1
        /\ Placed(v, {"held", "running"}) = handed'
    BY <1>1, <2>1, OverCounts
  <2>4. \A P : Placed(v, P) \in Nat /\ Placed(w, P) = Placed(v, P) + One("waiting", P) - One("none", P)
    BY <2>1, <2>2, <2>3, Moved
  <2>5. \A P : "waiting" \notin P /\ "none" \notin P => Placed(w, P) = Placed(v, P)
    BY <2>4 DEF One
  <2>6. /\ Placed(w, {"queued"}) = Placed(v, {"queued"})
        /\ Placed(w, {"running"}) = Placed(v, {"running"})
        /\ Placed(w, {"reading", "held"}) = Placed(v, {"reading", "held"})
        /\ Placed(w, Busy) = Placed(v, Busy)
        /\ Placed(w, {"held", "running"}) = Placed(v, {"held", "running"})
    BY <2>5 DEF Busy
  <2>7. /\ Len(waiting) \in Nat /\ parked \in Nat /\ MaxWait \in Nat /\ Workers \in Nat
        /\ Placed(where, Busy) \in Nat
        /\ Len(waiting) + parked + Placed(where, Busy) <= MaxWait + Workers + 1
    BY PlacedNat, BoundAssumption DEF Kept, Counts, TypeInv
  <2>8. Len(waiting') + parked' + Placed(w, Busy) <= MaxWait + Workers + 1
    BY <1>1, <1>4, <2>3, <2>6, <2>7
  <2> QED BY <1>1, <2>3, <2>6, <2>8 DEF Counts, w
<1> QED BY <1>4, <1>5, <1>6

\* However a turn leaves its thread, the invariant is kept.
LEMMA LeavesKeeps ==
    ASSUME Kept, NEW t \in Turn, Leaves(t)
    PROVE  Kept'
<1>1. Held'
  BY LeavesHeld
<1>2. (TypeInv /\ Threads /\ Queues /\ Counts)'
  <2>1. CASE (ToNone(t) \/ ToNext(t)) /\ Others({t})
    BY <2>1, LeavesToNone, LeavesToNext
  <2>2. ASSUME NEW n \in Turn, ToNew(t, n), Others({t, n}), turn'[n].thread = turn[t].thread
        PROVE  (TypeInv /\ Threads /\ Queues /\ Counts)'
    BY <2>2, LeavesToNew
  <2> QED BY <2>1, <2>2 DEF Leaves, ToNew
<1> QED BY <1>1, <1>2 DEF Kept

\* Close drops every turn that was not handed over, with what it carried.
LEMMA AbandonWaitingKeeps ==
    ASSUME Kept, abandonWaiting
    PROVE  Kept'
<1> DEFINE stranded == {t \in Turn : where[t] \in {"waiting", "queued"}}
           said(ts) == UNION {turn[t].lines \union turn[t].folded : t \in ts}
           told == said(stranded)
<1>0. PICK silent \in SUBSET stranded :
         fate' = [l \in Line |-> IF l \in said(silent) THEN "untold"
                                ELSE IF l \in told THEN "told" ELSE fate[l]]
  BY DEF abandonWaiting
<1>1. /\ where' = [t \in Turn |-> IF t \in stranded THEN "dropped" ELSE where[t]]
      /\ inFlight' = [th \in Thread |-> IF inFlight[th] \in stranded THEN Nobody ELSE inFlight[th]]
      /\ \A l \in Line : fate'[l] = IF l \in said(silent) THEN "untold"
                                     ELSE IF l \in told THEN "told" ELSE fate[l]
      /\ said(silent) \subseteq told
      /\ waiting' = <<>> /\ queued' = [th \in Thread |-> <<>>] /\ parked' = 0
      /\ turn' = turn /\ handed' = handed
  BY <1>0 DEF abandonWaiting
<1>2. /\ where \in [Turn -> Place] /\ inFlight \in [Thread -> Turn \union {Nobody}]
      /\ turn \in [Turn -> TurnRecord] /\ fate \in [Line -> Fate] /\ Nobody \notin Turn
  BY DEF Kept, TypeInv, Nobody, Turn
<1>3. \A t \in Turn : t \in stranded <=> where[t] \in {"waiting", "queued"}
  OBVIOUS
<1>4. \A t \in Turn : where'[t] = IF where[t] \in {"waiting", "queued"} THEN "dropped" ELSE where[t]
  BY <1>1, <1>3
<1>5. \A l \in Line : l \in told <=> \E t \in Turn : where[t] \in {"waiting", "queued"} /\ Carries(t, l)
  BY DEF Carries
<1>6. TypeInv'
  <2>1. where' \in [Turn -> Place]
    BY <1>1, <1>2 DEF Place
  <2>2. fate' \in [Line -> Fate]
    BY <1>0, <1>2 DEF Fate
  <2>3. inFlight' \in [Thread -> Turn \union {Nobody}]
    BY <1>1, <1>2
  <2>4. waiting' \in Seq(Turn) /\ queued' \in [Thread -> Seq(Turn)]
    BY <1>1
  <2> QED BY <1>1, <1>2, <2>1, <2>2, <2>3, <2>4 DEF TypeInv
<1>7. Threads'
  <2>1. \A t \in Turn : where'[t] \in Live => where'[t] = where[t] /\ where[t] \in Live /\ t \notin stranded
    BY <1>4 DEF Live
  <2>2. \A th \in Thread : inFlight'[th] # Nobody => inFlight'[th] = inFlight[th] /\ inFlight[th] \notin stranded
    BY <1>1
  <2>3. \A t \in Turn : where'[t] \in Live => turn'[t].thread \in Thread /\ inFlight'[turn'[t].thread] = t
    BY <1>1, <2>1 DEF Kept, Threads
  <2>4. \A th \in Thread : inFlight'[th] # Nobody =>
           inFlight'[th] \in Turn /\ where'[inFlight'[th]] \in Live /\ turn'[inFlight'[th]].thread = th
    BY <1>1, <1>3, <1>4, <2>2 DEF Kept, Threads
  <2> QED BY <2>3, <2>4 DEF Threads
<1>8. Queues'
  <2>1. Len(waiting') = 0 /\ \A th \in Thread : Len(queued'[th]) = 0
    BY <1>1
  <2> QED BY <2>1 DEF Queues
<1>9. Held'
  <2>1. \A t \in Turn, l \in Line : Carries(t, l)' <=> Carries(t, l) /\ where[t] \notin {"waiting", "queued"}
    BY <1>1, <1>4 DEF Carries
  <2>2. \A l \in Line : fate'[l] = "taken" <=> fate[l] = "taken" /\ l \notin told
    BY <1>1
  <2> HIDE DEF told
  <2>3. \A t \in Turn : where'[t] = "none" => turn'[t].folded = {}
    BY <1>1, <1>4 DEF Kept, Held
  <2>4. ASSUME NEW l \in Line
        PROVE  /\ \A t \in Turn : Carries(t, l)' => fate'[l] = "taken"
               /\ \A t, u \in Turn : Carries(t, l)' /\ Carries(u, l)' => t = u
               /\ fate'[l] = "taken" => \E t \in Turn : Carries(t, l)'
    BY <1>5, <2>1, <2>2 DEF Kept, Held
  <2> QED BY <2>3, <2>4 DEF Held
<1>10. Counts'
  <2> DEFINE In(w, P) == {t \in Turn : w[t] \in P}
  <2>1. In(where', {"queued"}) = {}
    BY <1>4
  <2>2. /\ In(where', {"held", "running"}) = In(where, {"held", "running"})
        /\ In(where', {"running"}) = In(where, {"running"})
        /\ In(where', {"reading", "held"}) = In(where, {"reading", "held"})
        /\ In(where', Busy) = In(where, Busy)
    BY <1>4 DEF Busy
  <2>3. /\ Placed(where', {"held", "running"}) = Placed(where, {"held", "running"})
        /\ Placed(where', {"running"}) = Placed(where, {"running"})
        /\ Placed(where', {"reading", "held"}) = Placed(where, {"reading", "held"})
        /\ Placed(where', Busy) = Placed(where, Busy)
    BY <2>2 DEF Placed
  <2>4. Placed(where', {"queued"}) = 0
    BY <2>1, FS_EmptySet DEF Placed
  <2>5. /\ Len(waiting) \in Nat /\ parked \in Nat /\ MaxWait \in Nat /\ Workers \in Nat
        /\ Placed(where, Busy) \in Nat
    BY PlacedNat, BoundAssumption DEF Kept, Counts, TypeInv
  <2>6. Len(waiting') = 0
    BY <1>1
  <2> QED BY <1>1, <2>3, <2>4, <2>5, <2>6 DEF Kept, Counts
<1> QED BY <1>6, <1>7, <1>8, <1>9, <1>10 DEF Kept

\* What a step does to the turns.
Moves ==
    \/ Stands \/ TakeWaiting \/ abandonWaiting
    \/ \E t \in Turn, l \in Line : Folded(l, t)
    \/ \E t \in Turn, new \in TurnRecord : Admitted(t, new)
    \/ \E t \in Turn : HandOver(t) \/ StartRun(t) \/ Leaves(t)

\* Every move keeps what is kept, and no turn loses its thread.
LEMMA MovesKeep ==
    ASSUME Kept, Moves
    PROVE  Kept' /\ \A u \in Turn : turn[u].thread \in Thread => turn'[u].thread \in Thread
<1>1. Kept'
  BY StandsKeeps, TakeWaitingKeeps, AbandonWaitingKeeps, FoldedKeeps, AdmittedKeeps, HandOverKeeps,
     StartRunKeeps, LeavesKeeps DEF Moves
<1> SUFFICES ASSUME NEW u \in Turn, turn[u].thread \in Thread
             PROVE  turn'[u].thread \in Thread
  BY <1>1
<1>2. turn \in [Turn -> TurnRecord]
  BY DEF Kept, TypeInv
<1>3. CASE Stands \/ TakeWaiting \/ abandonWaiting
  BY <1>3 DEF Stands, TakeWaiting, abandonWaiting
<1>4. ASSUME NEW t \in Turn, NEW l \in Line, Folded(l, t)
      PROVE  turn'[u].thread \in Thread
  BY <1>2, <1>4 DEF Folded, TurnRecord
<1>5. ASSUME NEW t \in Turn, NEW new \in TurnRecord, Admitted(t, new)
      PROVE  turn'[u].thread \in Thread
  BY <1>2, <1>5 DEF Admitted, Take
<1>6. ASSUME NEW t \in Turn, HandOver(t)
      PROVE  turn'[u].thread \in Thread
  BY <1>2, <1>6 DEF HandOver, Drained, TurnRecord
<1>7. ASSUME NEW t \in Turn, StartRun(t)
      PROVE  turn'[u].thread \in Thread
  BY <1>7 DEF StartRun
<1>8. ASSUME NEW t \in Turn, Leaves(t)
      PROVE  turn'[u].thread \in Thread
  <2>1. turn'[t].thread = turn[t].thread
    BY <1>8 DEF Leaves
  <2>2. CASE Others({t})
    BY <2>1, <2>2 DEF Others
  <2>3. ASSUME NEW n \in Turn, Others({t, n}), turn'[n].thread = turn[t].thread
        PROVE  turn'[u].thread \in Thread
    <3>1. where[t] \in Live
      BY <1>8 DEF Leaves, Live, Busy
    <3>2. turn[t].thread \in Thread
      BY <3>1, LiveHasThread DEF Kept
    <3> QED BY <2>1, <2>3, <3>2 DEF Others
  <2> QED BY <1>8, <2>2, <2>3 DEF Leaves, ToNew
<1> QED BY <1>3, <1>4, <1>5, <1>6, <1>7, <1>8 DEF Moves

\* A line that is admitted is a turn of its own thread.
LEMMA AdmitLineAdmits ==
    ASSUME Kept, NEW l \in Line, AdmitLine(l)
    PROVE  Moves
<1> DEFINE new == [NoTurn EXCEPT !.thread = ThreadOf[l], !.who = PersonOf[l], !.lines = {l}]
<1>1. PICK t \in Turn : Take(t, new)
  BY DEF AdmitLine
<1>2. fate[l] = "checked" /\ ~full /\ fate' = [k \in Line |-> IF k \in {l} THEN "taken" ELSE fate[k]]
  BY DEF AdmitLine, Becomes
<1>3. fate' = [fate EXCEPT ![l] = "taken"]
  BY <1>2 DEF Kept, TypeInv
<1>4. ThreadOf[l] \in Thread /\ PersonOf[l] \in People
  BY ThreadAssumption DEF People
<1>5. new \in TurnRecord /\ new.thread \in Thread /\ new.folded = {} /\ new.lines = {l}
  BY <1>4 DEF NoTurn, TurnRecord
<1> HIDE DEF new
<1>6. Admitted(t, new)
  BY <1>1, <1>2, <1>3, <1>5 DEF Admitted
<1> QED BY <1>5, <1>6 DEF Moves

\* A press that resumes a conversation is a turn of the thread that asked.
LEMMA ResumeAdmits ==
    ASSUME Kept, ServerInv, NEW t \in Turn, question[t] # None, Resume(t)
    PROVE  Moves
<1>1. PICK u \in Turn, by \in {PersonOf[l] : l \in Line} :
         Take(u, [NoTurn EXCEPT !.thread = turn[t].thread, !.who = by, !.resume = TRUE])
  BY DEF Resume
<1> DEFINE new == [NoTurn EXCEPT !.thread = turn[t].thread, !.who = by, !.resume = TRUE]
<1>2. ~full /\ fate' = fate
  BY DEF Resume
<1>3. turn[t].thread \in Thread /\ by \in People
  BY DEF ServerInv, People
<1>4. new \in TurnRecord /\ new.thread \in Thread /\ new.folded = {} /\ new.lines = {}
  BY <1>3 DEF NoTurn, TurnRecord
<1> HIDE DEF new
<1>5. Admitted(u, new)
  BY <1>1, <1>2, <1>4 DEF Admitted, new
<1> QED BY <1>4, <1>5 DEF Moves

\* Every step is a move.
LEMMA NextMoves ==
    ASSUME Kept, ServerInv, [Next]_vars
    PROVE  Moves
<1>1. fate \in [Line -> Fate] /\ turn \in [Turn -> TurnRecord] /\ where \in [Turn -> Place]
      /\ inFlight \in [Thread -> Turn \union {Nobody}] /\ parked \in Int
  <2>1. parked \in Nat
    BY PlacedNat DEF Kept, Counts
  <2> QED BY <2>1 DEF Kept, TypeInv
<1>2. CASE UNCHANGED <<fate, turn, where, inFlight, waiting, queued, parked, handed>>
  BY <1>1, <1>2 DEF Moves, Stands
<1>3. ASSUME NEW l \in Line, Receive(l)
      PROVE  Moves
  <2>1. fate' \in [Line -> Fate]
    BY <1>1, <1>3 DEF Receive, Fate
  <2> QED BY <1>1, <1>3, <2>1 DEF Receive, Moves, Stands, held
<1>4. ASSUME NEW l \in Line, FoldLine(l)
      PROVE  Moves
  <2> DEFINE t == inFlight[ThreadOf[l]]
  <2>1. t # Nobody /\ ThreadOf[l] \in Thread
    BY <1>4, ThreadAssumption DEF FoldLine, Folds
  <2>2. t \in Turn /\ where[t] \in Live
    BY <2>1 DEF Kept, Threads
  <2>3. /\ fate[l] = "checked" /\ turn' = [turn EXCEPT ![t].folded = @ \union {l}]
        /\ fate' = [k \in Line |-> IF k \in {l} THEN "taken" ELSE fate[k]]
        /\ UNCHANGED <<where, inFlight, waiting, queued, parked, handed>>
    BY <1>4 DEF FoldLine, Becomes, held
  <2>4. fate' = [fate EXCEPT ![l] = "taken"]
    BY <1>1, <2>3
  <2>5. Folded(l, t)
    BY <2>2, <2>3, <2>4 DEF Folded
  <2> QED BY <2>2, <2>5 DEF Moves
<1>5. ASSUME NEW l \in Line, RefuseLine(l)
      PROVE  Moves
  <2>1. /\ fate[l] = "checked" /\ fate' = [k \in Line |-> IF k \in {l} THEN "told" ELSE fate[k]]
        /\ UNCHANGED <<turn, where, inFlight, waiting, queued, parked, handed>>
    BY <1>5 DEF RefuseLine, Becomes, held
  <2>2. fate' \in [Line -> Fate] /\ \A k \in Line : fate'[k] = fate[k] \/ (fate[k] # "taken" /\ fate'[k] # "taken")
    BY <1>1, <2>1 DEF Fate
  <2> QED BY <2>1, <2>2 DEF Moves, Stands
<1>6. ASSUME NEW l \in Line, AdmitLine(l)
      PROVE  Moves
  BY <1>6, AdmitLineAdmits
<1>7. ASSUME NEW t \in Turn, PressTaken(t) \/ Ask(t) \/ Posted(t) \/ PostFails(t) \/ AskEnds(t)
      PROVE  Moves
  BY <1>2, <1>7 DEF PressTaken, Ask, Posted, PostFails, AskEnds, AskMoves, held
<1>8. ASSUME NEW t \in Turn, PressResumes(t) \/ PressUnknown(t)
      PROVE  Moves
  <2>1. question[t] # None /\ Resume(t)
    BY <1>8 DEF PressResumes, PressUnknown, None
  <2> QED BY <2>1, ResumeAdmits
<1>9. ASSUME NEW t \in Turn, HandOver(t) \/ StartRun(t)
      PROVE  Moves
  BY <1>9 DEF Moves
<1>10. ASSUME NEW t \in Turn, StoreFails(t)
       PROVE  Moves
  <2>1. Leaves(t)
    BY <1>10, StoreFailsLeaves DEF Kept
  <2> QED BY <2>1 DEF Moves
<1>11. ASSUME NEW t \in Turn, EndRun(t) \/ Abandon(t)
       PROVE  Moves
  <2>1. where[t] \in {"held", "running"} /\ \E boundary \in BOOLEAN : Finish(t, boundary)
    BY <1>11 DEF EndRun, Abandon
  <2>2. Leaves(t)
    BY <1>1, <2>1, FinishLeaves DEF Kept
  <2> QED BY <2>2 DEF Moves
<1>12. CASE TakeWaiting \/ abandonWaiting
  BY <1>12 DEF Moves
<1>13. CASE PullerLeaves \/ Cancel \/ Shutdown \/ IntakeEnds
  BY <1>2, <1>13 DEF PullerLeaves, Cancel, Shutdown, IntakeEnds, held
<1>14. CASE UNCHANGED vars
  BY <1>2, <1>14 DEF vars, held
<1> QED
  BY <1>3, <1>4, <1>5, <1>6, <1>7, <1>8, <1>9, <1>10, <1>11, <1>12, <1>13, <1>14 DEF Next, Reads, Runs

-----------------------------------------------------------------------------
(* The questions and the server. *)

\* A question is asked in a run, or what stands of one changes.
Asked ==
    /\ closing' \in {"open", "shutdown", "ended", "dropped"} /\ canceled' \in BOOLEAN /\ pulling' \in BOOLEAN
    /\ \/ question' = question
       \/ \E t \in Turn, q \in Standing :
            /\ question' = [question EXCEPT ![t] = q]
            /\ question[t] # None \/ where[t] \in {"held", "running"}

\* Only a run asks, and what stands of its question stays one of the ten.
LEMMA NextAsked ==
    ASSUME Kept, ServerInv, [Next]_vars
    PROVE  Asked
<1>1. /\ closing \in {"open", "shutdown", "ended", "dropped"}
      /\ canceled \in BOOLEAN /\ pulling \in BOOLEAN
      /\ question \in [Turn -> Standing]
  BY DEF ServerInv
<1>2. ASSUME UNCHANGED <<closing, canceled, pulling, question>>
      PROVE  Asked
  BY <1>1, <1>2 DEF Asked
<1>3. ASSUME NEW l \in Line, Receive(l) \/ FoldLine(l) \/ RefuseLine(l) \/ AdmitLine(l)
      PROVE  Asked
  BY <1>2, <1>3 DEF Receive, FoldLine, RefuseLine, AdmitLine, server
<1>4. ASSUME NEW t \in Turn, HandOver(t) \/ StoreFails(t) \/ StartRun(t)
      PROVE  Asked
  BY <1>2, <1>4 DEF HandOver, StoreFails, StartRun, server
<1>5. ASSUME NEW t \in Turn, NEW q \in Standing,
             question' = [question EXCEPT ![t] = q], question[t] # None \/ where[t] \in {"held", "running"},
             UNCHANGED <<closing, canceled>>, pulling' \in BOOLEAN
      PROVE  Asked
  BY <1>1, <1>5 DEF Asked
<1>6. ASSUME NEW t \in Turn, PressTaken(t) \/ PressResumes(t)
      PROVE  Asked
  <2>1. /\ question[t] # None /\ UNCHANGED <<closing, canceled, pulling>>
        /\ \E q \in {"pressed", "taken", "resumed"} : question' = [question EXCEPT ![t] = q]
    BY <1>6 DEF PressTaken, PressResumes, Resume, server, None
  <2> QED BY <1>1, <1>5, <2>1 DEF Standing
<1>7. ASSUME NEW t \in Turn, PressUnknown(t)
      PROVE  Asked
  BY <1>2, <1>7 DEF PressUnknown, Resume, server
<1>8. ASSUME NEW t \in Turn, Ask(t)
      PROVE  Asked
  <2>1. where[t] = "running" /\ question' = [question EXCEPT ![t] = "posting"] /\ UNCHANGED <<closing, canceled, pulling>>
    BY <1>8 DEF Ask, server
  <2> QED BY <1>1, <1>5, <2>1 DEF Standing
<1>9. ASSUME NEW t \in Turn, Posted(t) \/ PostFails(t) \/ AskEnds(t)
      PROVE  Asked
  <2>1. PICK from, to \in {"open", "taken", "answered", "abandoned", "forgotten", "discarded",
                          "posting", "pressed"} : AskMoves(t, from, to)
    BY <1>9 DEF Posted, PostFails, AskEnds, AfterGiveUp
  <2>2. where[t] = "running" /\ question' = [question EXCEPT ![t] = to]
        /\ UNCHANGED <<closing, canceled, pulling>>
    BY <2>1 DEF AskMoves, server
  <2> QED BY <1>1, <1>5, <2>1, <2>2 DEF Standing
<1>10. ASSUME NEW t \in Turn, EndRun(t) \/ Abandon(t)
       PROVE  Asked
  <2>1. UNCHANGED <<closing, canceled, question>> /\ pulling' \in BOOLEAN
    <3>1. pulling' \in BOOLEAN /\ \E boundary \in BOOLEAN : Finish(t, boundary)
      BY <1>1, <1>10 DEF EndRun, Abandon
    <3> QED BY <3>1 DEF Finish
  <2> QED BY <1>1, <2>1 DEF Asked
<1>11. CASE TakeWaiting \/ PullerLeaves \/ Cancel \/ Shutdown \/ IntakeEnds \/ abandonWaiting
  BY <1>1, <1>11 DEF TakeWaiting, PullerLeaves, Cancel, Shutdown, IntakeEnds, abandonWaiting, server, Asked
<1>12. CASE UNCHANGED vars
  BY <1>2, <1>12 DEF vars, server
<1> QED
  BY <1>3, <1>4, <1>6, <1>7, <1>8, <1>9, <1>10, <1>11, <1>12 DEF Next, Reads, Runs

\* The questions and the server keep their types.
LEMMA NextServer ==
    ASSUME Kept, ServerInv, [Next]_vars
    PROVE  ServerInv'
<1>1. \A u \in Turn : turn[u].thread \in Thread => turn'[u].thread \in Thread
  BY NextMoves, MovesKeep
<1>2. Asked
  BY NextAsked
<1>3. question \in [Turn -> Standing]
      /\ \A t \in Turn : question[t] # None => turn[t].thread \in Thread
  BY DEF ServerInv
<1>4. \A t \in Turn : where[t] \in {"held", "running"} => turn[t].thread \in Thread
  BY LiveHasThread DEF Kept, Live
<1>5. question' \in [Turn -> Standing]
  BY <1>2, <1>3 DEF Asked
<1>6. \A t \in Turn : question'[t] # None => turn'[t].thread \in Thread
  <2>1. \A t \in Turn : question'[t] # None => question[t] # None \/ where[t] \in {"held", "running"}
    BY <1>2, <1>3 DEF Asked
  <2> QED BY <1>1, <1>3, <1>4, <2>1
<1> QED BY <1>2, <1>5, <1>6 DEF ServerInv, Asked

\* It holds at the start.
LEMMA InitKept == Init => Kept /\ ServerInv
<1> SUFFICES ASSUME Init
             PROVE  Kept /\ ServerInv
  OBVIOUS
<1> USE DEF Init
<1>1. TypeInv
  <2>1. NoTurn \in TurnRecord
    BY DEF NoTurn, TurnRecord, People
  <2> QED BY <2>1 DEF TypeInv, Fate, Place
<1>2. Threads /\ Queues
  BY DEF Threads, Queues, Live
<1>3. Held
  BY DEF Held, Carries, NoTurn
<1>4. Counts
  <2>1. \A P : "none" \notin P => {t \in Turn : where[t] \in P} = {}
    OBVIOUS
  <2>2. \A P : "none" \notin P => Placed(where, P) = 0
    BY <2>1, FS_EmptySet DEF Placed
  <2>3. /\ Placed(where, {"queued"}) = 0 /\ Placed(where, {"held", "running"}) = 0
        /\ Placed(where, {"running"}) = 0 /\ Placed(where, {"reading", "held"}) = 0
        /\ Placed(where, Busy) = 0
    BY <2>2 DEF Busy
  <2>4. MaxWait \in Nat /\ Workers \in Nat
    BY BoundAssumption
  <2> QED BY <2>3, <2>4 DEF Counts
<1>5. ServerInv
  BY DEF ServerInv, Standing
<1> QED BY <1>1, <1>2, <1>3, <1>4, <1>5 DEF Kept

\* The inductive invariant: what is kept of the turns holds for any lines, threads and bounds.
THEOREM TurnsKept == Spec => [](Kept /\ ServerInv)
<1>1. Init => Kept /\ ServerInv
  BY InitKept
<1>2. Kept /\ ServerInv /\ [Next]_vars => (Kept /\ ServerInv)'
  BY NextMoves, MovesKeep, NextServer
<1> QED BY <1>1, <1>2, PTL DEF Spec

\* Every variable keeps its type, the two counters among them: parked and handed never
\* go below zero.
THEOREM SlackTypeCorrect == Spec => []TypeOK
<1>1. Kept /\ ServerInv => TypeOK
  <2>1. Kept => parked \in Nat /\ handed \in Nat
    BY PlacedNat DEF Kept, Counts
  <2> QED BY <2>1 DEF Kept, TypeInv, ServerInv, TypeOK, TurnRecord, People, Place, Fate
<1> QED BY <1>1, TurnsKept, PTL

\* A thread runs one turn at a time (OneTurn).
THEOREM OneTurnAThread == Spec => []OneTurn
<1>1. Kept => OneTurn
  BY DEF Kept, Threads, OneTurn
<1> QED BY <1>1, TurnsKept, PTL

\* A line that was taken is in one turn until it is handed over or its author told (HeldByOne).
THEOREM LinesHeldByOne == Spec => []HeldByOne
<1>1. Kept => HeldByOne
  <2> SUFFICES ASSUME Kept, NEW l \in Line
               PROVE  Cardinality(Carriers(l)) = IF fate[l] = "taken" THEN 1 ELSE 0
    BY DEF HeldByOne
  <2>1. \A t : t \in Carriers(l) <=> t \in Turn /\ Carries(t, l)
    BY DEF Carriers, Carries
  <2>2. CASE fate[l] = "taken"
    <3>1. PICK t \in Turn : Carries(t, l)
      BY <2>2 DEF Kept, Held
    <3>2. Carriers(l) = {t}
      <4>1. \A u \in Turn : Carries(u, l) => u = t
        BY <3>1 DEF Kept, Held
      <4> QED BY <2>1, <3>1, <4>1
    <3> QED BY <2>2, <3>2, FS_Singleton
  <2>3. CASE fate[l] # "taken"
    <3>1. Carriers(l) = {}
      BY <2>1, <2>3 DEF Kept, Held
    <3> QED BY <2>3, <3>1, FS_EmptySet
  <2> QED BY <2>2, <2>3
<1> QED BY <1>1, TurnsKept, PTL

\* What was admitted and has not ended is bounded (Backlog).
THEOREM BacklogBounded == Spec => []Backlog
<1>1. Kept => Backlog
  <2> SUFFICES ASSUME Kept
               PROVE  Backlog
    OBVIOUS
  <2> DEFINE H == {t \in Turn : where[t] \in {"held", "running"}}
             B == {t \in Turn : where[t] \in Busy}
  <2>1. IsFiniteSet(B) /\ H \subseteq B
    <3>1. MaxTurns \in Nat
      BY BoundAssumption
    <3>2. IsFiniteSet(Turn)
      BY <3>1, FS_Interval DEF Turn
    <3> QED BY <3>2, FS_Subset DEF Busy
  <2>2. Cardinality(H) <= Cardinality(B)
    BY <2>1, FS_Subset
  <2>3. handed <= Placed(where, Busy)
    BY <2>2 DEF Kept, Counts, Placed
  <2>4. /\ Len(waiting) \in Nat /\ parked \in Nat /\ handed \in Nat /\ MaxWait \in Nat /\ Workers \in Nat
        /\ Placed(where, Busy) \in Nat
    BY PlacedNat, BoundAssumption DEF Kept, Counts, TypeInv
  <2> QED BY <2>3, <2>4 DEF Kept, Counts, Backlog
<1> QED BY <1>1, TurnsKept, PTL
=============================================================================
