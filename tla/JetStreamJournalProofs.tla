----------------------- MODULE JetStreamJournalProofs -----------------------
(***************************************************************************)
(* The JetStream backend implements runstate's journal contract for every  *)
(* number of handles, records, retries and deletes.                        *)
(***************************************************************************)
EXTENDS JetStreamJournal, TLAPS

\* The sequence number a publish fenced on stream sequence f has to carry.
SeqAfter(f) == IF f = 0 THEN 1 ELSE log[f].seq + 1

\* Whoever wrote at or before f wrote at f: a handle's records up to its own
\* fence end in that fence.
OwnsFence(h, f) ==
    (\E i \in 1..f : log[i].by = h) => log[f].by = h

NumberedFromOne ==
    \A i \in (gone + 1)..Len(log) : log[i].seq = i - gone

PublishInv(r) ==
    /\ r.fence <= Len(log)
    /\ r.seq = SeqAfter(r.fence)
    /\ OwnsFence(r.by, r.fence)
    /\ r.fence = 0 => /\ tail[r.by] = 0
                      /\ ~RJ!HasWritten(r.by)
                      /\ \A r2 \in net : r2.by = r.by => r2 = r

\* Nothing of h was sent yet.
Unsent(h) == ~RJ!HasWritten(h) /\ \A r \in net : r.by # h

HandleInv(h) ==
    /\ tail[h] <= Len(log)
    /\ last[h] + 1 = SeqAfter(tail[h])
    /\ OwnsFence(h, tail[h])
    /\ st[h] \in {"new", "creating"} => tail[h] = 0 /\ Unsent(h)
    /\ st[h] \in {"idle", "failed"} => tail[h] > 0
    /\ st[h] \in {"waiting", "refused", "failed"} => want[h].seq = last[h] + 1

IInv ==
    /\ NumberedFromOne
    /\ \A r \in net : PublishInv(r)
    /\ \A h \in Handle : HandleInv(h)

-----------------------------------------------------------------------------

\* Every variable keeps its type, whatever the server and the handles do.
THEOREM TypeCorrect == Spec => []TypeOK
<1> USE DEF TypeOK, RJ!TypeOK
<1>1. Init => TypeOK
  BY DEF Init, State, Role, Kind, NoRecord, Wanted
<1>2. TypeOK /\ [Next]_vars => TypeOK'
  <2> SUFFICES ASSUME TypeOK, [Next]_vars
               PROVE  TypeOK'
    OBVIOUS
  <2>a. \A i \in 1..Len(log) : log[i] \in RJ!Entry
    OBVIOUS
  <2>b. NoRecord \in Wanted
    BY DEF NoRecord, Wanted, Kind
  <2>c. \A h \in Handle : want[h].seq \in Nat
    <3> TAKE h \in Handle
    <3>1. want[h] \in Wanted
      OBVIOUS
    <3> QED
      BY <3>1 DEF Wanted
  <2> USE DEF State, Role
  <2>1. ASSUME NEW h \in Handle, CreateStart(h)
        PROVE  TypeOK'
    BY <2>1 DEF CreateStart
  <2>2. ASSUME NEW h \in Handle, NEW r \in {"runner", "supplier"},
               OpenAtRest(h, r) \/ OpenPastHold(h, r)
        PROVE  TypeOK'
    <3>1. Len(log) \in 1..Len(log)
      BY <2>2 DEF OpenAtRest, OpenPastHold, Exists
    <3>2. log[Len(log)] \in RJ!Entry
      BY <2>a, <3>1
    <3>3. log[Len(log)].seq \in Nat
      BY <3>2 DEF RJ!Entry
    <3>4. Open(h, r) /\ r \in Role /\ Len(log) \in Nat
      BY <2>2, <2>a, <3>1 DEF OpenAtRest, OpenPastHold
    <3> HIDE DEF Role
    <3> QED
      BY <3>3, <3>4 DEF Open
  <2>3. ASSUME NEW h \in Handle, NEW k \in Kind, NEW seq \in 1..MaxLog + 1,
               AppendRecord(h, seq, k)
        PROVE  TypeOK'
    <3>1. seq \in Nat
      BY BoundsAssumption
    <3>2. [kind |-> k, seq |-> seq] \in Wanted
      BY <3>1 DEF Wanted
    <3>3. Request(h, k, seq, 1) \in Publish
      BY <3>1 DEF Request, Publish
    <3> QED
      BY <2>3, <3>2, <3>3 DEF AppendRecord
  <2>4. ASSUME NEW h \in Handle, Retry(h)
        PROVE  TypeOK'
    <3>1. want[h] \in Wanted
      OBVIOUS
    <3>2. Request(h, want[h].kind, want[h].seq, try[h] + 1) \in Publish
      BY <3>1 DEF Request, Publish, Wanted
    <3> QED
      BY <2>4, <3>2 DEF Retry
  <2>5. ASSUME NEW h \in Handle, Failed(h), UNCHANGED <<log, gone, acked, net, role>>
        PROVE  TypeOK'
    <3>1. CASE UNCHANGED <<last, tail, want, try>> /\ st' = [st EXCEPT ![h] = "failed"]
      BY <2>5, <3>1
    <3>2. CASE Closed(h)
      BY <2>b, <2>5, <3>2 DEF Closed
    <3> QED
      BY <2>5, <3>1, <3>2 DEF Failed
  <2>6. ASSUME NEW h \in Handle, ReadBackAdopts(h)
        PROVE  TypeOK'
    <3>1. PICK i \in Landed(h) : Settled(h, i)
      BY <2>6 DEF ReadBackAdopts
    <3>2. i \in 1..Len(log)
      BY DEF Landed, OnSubject
    <3> QED
      BY <2>b, <2>c, <2>6, <3>1, <3>2 DEF ReadBackAdopts, Settled
  <2>7. ASSUME NEW h \in Handle, ReadBackLoses(h)
        PROVE  TypeOK'
    BY <2>b, <2>7 DEF ReadBackLoses, Closed
  <2>8. ASSUME NEW req \in net, StoreRecord(req)
        PROVE  /\ log' \in Seq(RJ!Entry)
               /\ Len(log') = Len(log) + 1
               /\ net' \in SUBSET Publish
    <3>1. [by |-> req.by, kind |-> req.kind, seq |-> req.seq] \in RJ!Entry
      BY DEF Publish, RJ!Entry
    <3> QED
      BY <2>8, <3>1 DEF StoreRecord
  <2>9. ASSUME NEW req \in net, StoreHeard(req)
        PROVE  TypeOK'
    <3>1. req.by \in Handle
      BY DEF Publish
    <3>2. Settled(req.by, Len(log) + 1)
      BY <2>9 DEF StoreHeard
    <3>3. gone' = gone /\ role' = role /\ StoreRecord(req) /\ Len(log) \in Nat
      BY <2>9 DEF StoreHeard
    <3>4. log' \in Seq(RJ!Entry) /\ Len(log') = Len(log) + 1 /\ net' \in SUBSET Publish
      BY <2>8, <3>3
    <3>5. acked' \in SUBSET (1..Len(log'))
      <4>1. \A n \in acked : n \in 1..Len(log)
        OBVIOUS
      <4>2. acked' = acked \union {Len(log) + 1}
        BY <3>2 DEF Settled
      <4>3. \A n \in acked' : n \in 1..Len(log) + 1
        BY <3>3, <4>1, <4>2
      <4> QED
        BY <3>4, <4>3
    <3>6. RJ!TypeOK'
      BY <3>3, <3>4, <3>5
    <3> HIDE DEF RJ!TypeOK
    <3> QED
      BY <2>b, <2>c, <3>1, <3>2, <3>3, <3>4, <3>6 DEF Settled
  <2>10. ASSUME NEW req \in net, StoreUnheard(req)
         PROVE  TypeOK'
    BY <2>8, <2>10 DEF StoreUnheard, clientVars
  <2>11. ASSUME NEW req \in net, Refuse(req)
         PROVE  TypeOK'
    BY <2>11 DEF Refuse
  <2>12. CASE Delete
    BY <2>12 DEF Delete, clientVars
  <2>13. CASE UNCHANGED vars
    BY <2>13 DEF vars, clientVars
  <2> QED
    BY <2>1, <2>2, <2>3, <2>4, <2>5, <2>6, <2>7, <2>9, <2>10, <2>11, <2>12, <2>13
       DEF Next, Fail, ReadBackFails
<1> QED
  BY <1>1, <1>2, PTL DEF Spec

-----------------------------------------------------------------------------

\* What the type invariant says of the log's length, the positions and one handle's
\* fields, in the form the provers need it.
LEMMA TypeFacts ==
  ASSUME TypeOK
  PROVE  /\ Len(log) \in Nat
         /\ gone \in Nat /\ gone <= Len(log)
         /\ \A i \in 1..Len(log) : log[i].by \in Handle /\ log[i].seq \in Nat
         /\ \A r \in net : /\ r.by \in Handle
                           /\ r.seq \in Nat
                           /\ r.fence \in Nat
         /\ \A h \in Handle : /\ last[h] \in Nat
                              /\ tail[h] \in Nat
                              /\ want[h].seq \in Nat
<1>1. Len(log) \in Nat /\ gone \in Nat /\ gone <= Len(log)
  BY DEF TypeOK, RJ!TypeOK
<1>2. \A i \in 1..Len(log) : log[i] \in RJ!Entry
  BY DEF TypeOK, RJ!TypeOK
<1>3. \A i \in 1..Len(log) : log[i].by \in Handle /\ log[i].seq \in Nat
  BY <1>2 DEF RJ!Entry
<1>4. \A r \in net : r.by \in Handle /\ r.seq \in Nat /\ r.fence \in Nat
  BY DEF TypeOK, Publish
<1>5. \A h \in Handle : want[h] \in Wanted
  BY DEF TypeOK
<1>6. \A h \in Handle : last[h] \in Nat /\ tail[h] \in Nat /\ want[h].seq \in Nat
  BY <1>5 DEF TypeOK, Wanted
<1> QED
  BY <1>1, <1>3, <1>4, <1>6

\* What storing a record does to the log, position by position.
LEMMA Stored ==
  ASSUME TypeOK, NEW req \in net, StoreRecord(req)
  PROVE  /\ Len(log') = Len(log) + 1
         /\ \A i \in 1..Len(log) : log'[i] = log[i]
         /\ log'[Len(log) + 1] = [by |-> req.by, kind |-> req.kind, seq |-> req.seq]
  BY DEF TypeOK, RJ!TypeOK, StoreRecord

\* A publish that passes the fence carries the run's next sequence number and comes
\* from a handle that nobody wrote after.
LEMMA FenceIsEnough ==
  ASSUME TypeOK, NumberedFromOne, NEW req \in net, PublishInv(req), FenceHolds(req)
  PROVE  req.seq = RJ!NextSeq /\ ~RJ!Superseded(req.by)
<1> USE TypeFacts
<1>1. CASE Exists
  <2>1. req.fence = Len(log) /\ Len(log) > gone /\ Len(log) > 0
    BY <1>1 DEF FenceHolds, TailSequence, Exists
  <2>2. req.seq = log[Len(log)].seq + 1
    BY <2>1 DEF PublishInv, SeqAfter
  <2>3. log[Len(log)].seq = Len(log) - gone
    BY <2>1 DEF NumberedFromOne
  <2>4. RJ!HasWritten(req.by) => log[Len(log)].by = req.by
    BY <2>1 DEF PublishInv, OwnsFence, RJ!HasWritten
  <2> QED
    BY <2>1, <2>2, <2>3, <2>4 DEF RJ!NextSeq, RJ!Superseded, RJ!Stored
<1>2. CASE ~Exists
  <2>1. req.fence = 0 /\ Len(log) = gone
    BY <1>2 DEF FenceHolds, TailSequence, Exists
  <2>2. req.seq = 1 /\ ~RJ!HasWritten(req.by)
    BY <2>1 DEF PublishInv, SeqAfter
  <2> QED
    BY <2>1, <2>2 DEF RJ!NextSeq, RJ!Superseded
<1> QED
  BY <1>1, <1>2

\* Nothing a step on handle h alone does touches the others, or the log.
LEMMA OneHandle ==
  ASSUME TypeOK, IInv, NEW h \in Handle,
         UNCHANGED <<log, gone, net>>,
         \A g \in Handle \ {h} : /\ st'[g] = st[g]
                                /\ last'[g] = last[g]
                                /\ tail'[g] = tail[g]
                                /\ want'[g] = want[g],
         HandleInv(h)',
         \A r \in net : r.by = h /\ r.fence = 0 => tail'[h] = 0
  PROVE  IInv'
<1>1. NumberedFromOne'
  BY DEF IInv, NumberedFromOne
<1>2. ASSUME NEW r \in net' PROVE PublishInv(r)'
  <2>1. PublishInv(r) /\ r.by \in Handle /\ r \in net
    BY <1>2, TypeFacts DEF IInv
  <2>2. r.fence = 0 => tail'[r.by] = 0
    BY <2>1 DEF PublishInv
  <2> QED
    BY <2>1, <2>2 DEF PublishInv, SeqAfter, OwnsFence, RJ!HasWritten
<1>3. ASSUME NEW g \in Handle PROVE HandleInv(g)'
  <2>1. CASE g = h
    BY <2>1
  <2>2. CASE g # h
    BY <2>2 DEF IInv, HandleInv, SeqAfter, OwnsFence, Unsent, RJ!HasWritten
  <2> QED
    BY <2>1, <2>2
<1> QED
  BY <1>1, <1>2, <1>3 DEF IInv

\* Sending a publish keeps the invariant: it is fenced on its handle's own tail.
LEMMA Sending ==
  ASSUME TypeOK, TypeOK', IInv, NEW h \in Handle, NEW req,
         req.by = h, req.seq = last[h] + 1, req.fence = tail[h],
         net' = net \union {req},
         UNCHANGED <<log, gone, last, tail>>,
         tail[h] = 0 => Unsent(h),
         st'[h] = "waiting", want'[h].seq = last[h] + 1,
         \A g \in Handle \ {h} : st'[g] = st[g] /\ want'[g] = want[g]
  PROVE  IInv'
<1>1. NumberedFromOne'
  BY DEF IInv, NumberedFromOne
<1>2. ASSUME NEW r \in net' PROVE PublishInv(r)'
  <2>1. CASE r = req
    <3>1. req.fence <= Len(log) /\ req.seq = SeqAfter(req.fence) /\ OwnsFence(req.by, req.fence)
      BY DEF IInv, HandleInv
    <3>2. req.fence = 0 => /\ tail[h] = 0 /\ ~RJ!HasWritten(h)
                           /\ \A r2 \in net' : r2.by = h => r2 = req
      BY DEF Unsent
    <3> QED
      BY <2>1, <3>1, <3>2 DEF PublishInv, SeqAfter, OwnsFence, RJ!HasWritten
  <2>2. CASE r # req
    <3>1. r \in net /\ PublishInv(r)
      BY <1>2, <2>2 DEF IInv
    <3>2. r.fence = 0 => r.by # h
      BY <3>1 DEF PublishInv, Unsent
    <3> QED
      BY <3>1, <3>2 DEF PublishInv, SeqAfter, OwnsFence, RJ!HasWritten
  <2> QED
    BY <2>1, <2>2
<1>3. ASSUME NEW g \in Handle PROVE HandleInv(g)'
  <2>1. /\ tail[g] <= Len(log) /\ last[g] + 1 = SeqAfter(tail[g])
        /\ OwnsFence(g, tail[g])
    BY DEF IInv, HandleInv
  <2>2. CASE g = h
    BY <2>1, <2>2 DEF HandleInv, SeqAfter, OwnsFence
  <2>3. CASE g # h
    <3>1. Unsent(g) => Unsent(g)'
      BY <2>3 DEF Unsent, RJ!HasWritten
    <3>2. st'[g] = st[g] /\ want'[g] = want[g] /\ HandleInv(g)
      BY <2>3 DEF IInv
    <3> QED
      BY <2>1, <3>1, <3>2 DEF HandleInv, SeqAfter, OwnsFence
  <2> QED
    BY <2>2, <2>3
<1> QED
  BY <1>1, <1>2, <1>3 DEF IInv

\* The server storing a publish keeps what is known of the others.
LEMMA Storing ==
  ASSUME TypeOK, IInv, NEW req \in net, StoreRecord(req), gone' = gone,
         \A g \in Handle \ {req.by} :
            /\ st'[g] = st[g] /\ last'[g] = last[g]
            /\ tail'[g] = tail[g] /\ want'[g] = want[g],
         HandleInv(req.by)'
  PROVE  IInv'
<1>0. /\ Len(log') = Len(log) + 1
      /\ \A i \in 1..Len(log) : log'[i] = log[i]
      /\ log'[Len(log) + 1] = [by |-> req.by, kind |-> req.kind, seq |-> req.seq]
  BY Stored
<1>1. /\ Len(log') = Len(log) + 1
      /\ \A i \in 1..Len(log) : log'[i] = log[i]
      /\ log'[Len(log) + 1].by = req.by
      /\ log'[Len(log) + 1].seq = req.seq
  BY <1>0
<1>2. PublishInv(req) /\ FenceHolds(req) /\ NumberedFromOne
  BY DEF IInv, StoreRecord
<1>3. req.seq = RJ!NextSeq
  BY <1>2, FenceIsEnough
<1>4. NumberedFromOne'
  <2>1. Len(log) \in Nat /\ gone \in Nat /\ gone <= Len(log)
    BY TypeFacts
  <2>2. ASSUME NEW i \in (gone + 1)..Len(log) + 1
        PROVE  log'[i].seq = i - gone
    <3>1. CASE i = Len(log) + 1
      BY <1>1, <1>3, <2>1, <3>1 DEF RJ!NextSeq
    <3>2. CASE i # Len(log) + 1
      <4>1. i \in 1..Len(log) /\ i \in (gone + 1)..Len(log)
        BY <2>1, <3>2
      <4>2. log'[i] = log[i] /\ log[i].seq = i - gone
        BY <1>1, <1>2, <4>1 DEF NumberedFromOne
      <4> QED
        BY <4>2
    <3> QED
      BY <3>1, <3>2
  <2> QED
    BY <1>1, <2>2 DEF NumberedFromOne
<1>5. ASSUME NEW r \in net' PROVE PublishInv(r)'
  <2>1. r \in net /\ r # req /\ PublishInv(r) /\ r.by \in Handle /\ r.fence \in Nat
    BY <1>5, TypeFacts DEF IInv, StoreRecord
  <2>2. r.fence <= Len(log) /\ Len(log) \in Nat
    BY <2>1, TypeFacts DEF PublishInv
  <2>3. r.seq = SeqAfter(r.fence)'
    BY <1>1, <2>1, <2>2 DEF PublishInv, SeqAfter
  <2>4. OwnsFence(r.by, r.fence)'
    BY <1>1, <2>1, <2>2 DEF PublishInv, OwnsFence
  <2>5. ASSUME r.fence = 0
        PROVE  /\ tail'[r.by] = 0
               /\ ~RJ!HasWritten(r.by)'
               /\ \A r2 \in net' : r2.by = r.by => r2 = r
    <3>1. r.by # req.by
      BY <2>1, <2>5 DEF PublishInv
    <3>2. tail'[r.by] = 0
      BY <2>1, <2>5, <3>1 DEF PublishInv
    <3>3. ~RJ!HasWritten(r.by)'
      BY <1>1, <2>1, <2>2, <2>5, <3>1 DEF PublishInv, RJ!HasWritten
    <3> QED
      BY <2>1, <2>5, <3>2, <3>3 DEF PublishInv, StoreRecord
  <2>6. (r.fence <= Len(log))'
    BY <1>1, <2>1, <2>2
  <2>7. (r.fence = 0 => /\ tail[r.by] = 0
                        /\ ~RJ!HasWritten(r.by)
                        /\ \A r2 \in net : r2.by = r.by => r2 = r)'
    BY <2>5
  <2> QED
    BY <2>3, <2>4, <2>6, <2>7 DEF PublishInv
<1>6. ASSUME NEW g \in Handle PROVE HandleInv(g)'
  <2>1. CASE g = req.by
    BY <2>1
  <2>2. CASE g # req.by
    <3>1. HandleInv(g) /\ tail[g] \in Nat /\ Len(log) \in Nat
      BY TypeFacts DEF IInv
    <3>2. SeqAfter(tail[g])' = SeqAfter(tail[g]) /\ tail'[g] <= Len(log')
      BY <1>1, <2>2, <3>1 DEF HandleInv, SeqAfter
    <3>3. OwnsFence(g, tail[g])'
      BY <1>1, <2>2, <3>1 DEF HandleInv, OwnsFence
    <3>4. Unsent(g) => Unsent(g)'
      BY <1>1, <2>2, <3>1 DEF Unsent, RJ!HasWritten, StoreRecord
    <3> QED
      BY <2>2, <3>1, <3>2, <3>3, <3>4 DEF HandleInv, SeqAfter
  <2> QED
    BY <2>1, <2>2
<1> QED
  BY <1>4, <1>5, <1>6 DEF IInv

\* Every step of the backend keeps the invariant: one case for each action.
LEMMA InductiveStep == TypeOK /\ TypeOK' /\ IInv /\ [Next]_vars => IInv'
<1> SUFFICES ASSUME TypeOK, TypeOK', IInv, [Next]_vars
             PROVE  IInv'
  OBVIOUS
<1>a. ASSUME NEW h \in Handle
      PROVE  HandleInv(h) /\ tail[h] \in Nat /\ last[h] \in Nat /\ want[h].seq \in Nat
  BY <1>a, TypeFacts DEF IInv
<1>b. /\ st \in [Handle -> State] /\ role \in [Handle -> Role]
      /\ last \in [Handle -> Nat] /\ tail \in [Handle -> Nat]
      /\ want \in [Handle -> Wanted] /\ try \in [Handle -> Nat]
  BY DEF TypeOK
<1>1. ASSUME NEW h \in Handle, CreateStart(h)
      PROVE  IInv'
  <2>1. HandleInv(h)'
    BY <1>1, <1>a, <1>b DEF CreateStart, HandleInv, SeqAfter, OwnsFence, Unsent, RJ!HasWritten
  <2>2. \A r \in net : r.by = h /\ r.fence = 0 => tail'[h] = 0
    BY <1>1, <1>a DEF CreateStart, HandleInv
  <2> QED
    BY <1>1, <1>b, <2>1, <2>2, OneHandle DEF CreateStart
<1>2. ASSUME NEW h \in Handle, NEW r \in {"runner", "supplier"}, st[h] = "new", Exists, Open(h, r)
      PROVE  IInv'
  <2>1. Len(log) \in Nat /\ Len(log) > 0 /\ log[Len(log)].seq \in Nat
    BY <1>2, TypeFacts DEF Exists
  <2>2. Unsent(h) /\ ~RJ!HasWritten(h)
    BY <1>2, <1>a DEF HandleInv, Unsent
  <2>3. st'[h] = "idle" /\ tail'[h] = Len(log) /\ last'[h] = log[Len(log)].seq /\ log' = log
    BY <1>2, <1>b DEF Open
  <2>4. HandleInv(h)'
    BY <2>1, <2>2, <2>3 DEF HandleInv, SeqAfter, OwnsFence, RJ!HasWritten
  <2>5. \A q \in net : ~(q.by = h /\ q.fence = 0)
    BY <2>2 DEF Unsent
  <2> QED
    BY <1>2, <1>b, <2>4, <2>5, OneHandle DEF Open
<1>3. ASSUME NEW h \in Handle, NEW k \in Kind, NEW seq \in 1..MaxLog + 1, AppendRecord(h, seq, k)
      PROVE  IInv'
  <2>1. seq \in Nat /\ seq = last[h] + 1
    BY <1>3, <1>a, BoundsAssumption DEF AppendRecord, CheckAppend
  <2>2. tail[h] = 0 => Unsent(h)
    BY <1>3, <1>a DEF AppendRecord, HandleInv
  <2> DEFINE req == Request(h, k, seq, 1)
  <2>3. req.by = h /\ req.seq = last[h] + 1 /\ req.fence = tail[h]
    BY <2>1 DEF Request
  <2>4. /\ net' = net \union {req} /\ UNCHANGED <<log, gone, last, tail>>
        /\ st'[h] = "waiting" /\ want'[h].seq = last[h] + 1
        /\ \A g \in Handle \ {h} : st'[g] = st[g] /\ want'[g] = want[g]
    BY <1>3, <1>b, <2>1 DEF AppendRecord
  <2> HIDE DEF req
  <2> QED
    BY <2>2, <2>3, <2>4, Sending
<1>4. ASSUME NEW h \in Handle, Retry(h)
      PROVE  IInv'
  <2>1. tail[h] > 0 /\ want[h].seq = last[h] + 1
    BY <1>4, <1>a DEF Retry, HandleInv
  <2> DEFINE req == Request(h, want[h].kind, want[h].seq, try[h] + 1)
  <2>2. req.by = h /\ req.seq = last[h] + 1 /\ req.fence = tail[h]
    BY <2>1 DEF Request
  <2>3. /\ net' = net \union {req} /\ UNCHANGED <<log, gone, last, tail, want>>
        /\ st'[h] = "waiting"
        /\ \A g \in Handle \ {h} : st'[g] = st[g]
    BY <1>4, <1>b DEF Retry
  <2> HIDE DEF req
  <2> QED
    BY <2>1, <2>2, <2>3, Sending
<1>5. ASSUME NEW h \in Handle, Closed(h), UNCHANGED <<log, gone, net, role>>
      PROVE  IInv'
  <2>1. st'[h] = "closed" /\ tail'[h] = 0 /\ last'[h] = 0
    BY <1>5, <1>b DEF Closed
  <2>2. HandleInv(h)'
    BY <2>1, TypeFacts, <1>5 DEF HandleInv, SeqAfter, OwnsFence
  <2> QED
    BY <1>5, <1>b, <2>1, <2>2, OneHandle DEF Closed
<1>6. ASSUME NEW h \in Handle, st[h] \in {"waiting", "refused"}, Failed(h),
             UNCHANGED <<log, gone, acked, net, role>>
      PROVE  IInv'
  <2>1. CASE Closed(h)
    BY <1>5, <1>6, <2>1
  <2>2. CASE want[h].seq > 1 /\ st' = [st EXCEPT ![h] = "failed"] /\ UNCHANGED <<last, tail, want, try>>
    <3>1. st'[h] = "failed" /\ tail[h] > 0 /\ want[h].seq = last[h] + 1
      BY <1>6, <1>a, <1>b, <2>2 DEF HandleInv, SeqAfter
    <3>2. HandleInv(h)'
      BY <1>6, <1>a, <2>2, <3>1 DEF HandleInv, SeqAfter, OwnsFence
    <3>3. \A q \in net : q.by = h /\ q.fence = 0 => tail'[h] = 0
      BY <2>2 DEF IInv, PublishInv
    <3> QED
      BY <1>6, <1>b, <2>2, <3>2, <3>3, OneHandle
  <2> QED
    BY <1>6, <2>1, <2>2 DEF Failed
<1>7. ASSUME NEW h \in Handle, ReadBackAdopts(h)
      PROVE  IInv'
  <2>1. PICK i \in Landed(h) : Settled(h, i)
    BY <1>7 DEF ReadBackAdopts
  <2>2. i \in 1..Len(log) /\ i > 0 /\ log[i].by = h /\ log[i].seq = want[h].seq /\ i <= Len(log)
    BY TypeFacts DEF Landed, OnSubject
  <2>3. st'[h] = "idle" /\ tail'[h] = i /\ last'[h] = want[h].seq /\ log' = log
    BY <1>7, <1>b, <2>1 DEF Settled, ReadBackAdopts
  <2>4. HandleInv(h)'
    BY <2>2, <2>3 DEF HandleInv, SeqAfter, OwnsFence
  <2>5. \A q \in net : ~(q.by = h /\ q.fence = 0)
    BY <2>2 DEF IInv, PublishInv, RJ!HasWritten
  <2> QED
    BY <1>7, <1>b, <2>1, <2>4, <2>5, OneHandle DEF Settled, ReadBackAdopts
<1>8. ASSUME NEW req \in net, StoreHeard(req)
      PROVE  IInv'
  <2>1. req.by \in Handle /\ Len(log) \in Nat
    BY TypeFacts
  <2>2. /\ StoreRecord(req) /\ gone' = gone
        /\ st'[req.by] = "idle" /\ tail'[req.by] = Len(log) + 1 /\ last'[req.by] = req.seq
        /\ \A g \in Handle \ {req.by} :
              /\ st'[g] = st[g] /\ last'[g] = last[g]
              /\ tail'[g] = tail[g] /\ want'[g] = want[g]
    BY <1>8, <1>b, <2>1 DEF StoreHeard, Settled, Awaited
  <2>s. /\ Len(log') = Len(log) + 1
        /\ log'[Len(log) + 1] = [by |-> req.by, kind |-> req.kind, seq |-> req.seq]
    BY <2>2, Stored
  <2>3. /\ Len(log') = Len(log) + 1 /\ log'[Len(log) + 1].by = req.by
        /\ log'[Len(log) + 1].seq = req.seq
    BY <2>s
  <2>4. HandleInv(req.by)'
    BY <2>1, <2>2, <2>3 DEF HandleInv, SeqAfter, OwnsFence
  <2> QED
    BY <2>2, <2>4, Storing
<1>9. ASSUME NEW req \in net, StoreUnheard(req)
      PROVE  IInv'
  <2>1. req.by \in Handle /\ Len(log) \in Nat
    BY TypeFacts
  <2>2. StoreRecord(req) /\ gone' = gone /\ UNCHANGED <<st, last, tail, want>>
    BY <1>9 DEF StoreUnheard, clientVars
  <2>3. Len(log') = Len(log) + 1 /\ \A i \in 1..Len(log) : log'[i] = log[i]
    BY <2>2, Stored
  <2>4. HandleInv(req.by) /\ ~Unsent(req.by) /\ tail[req.by] \in Nat
    BY <1>a, <2>1 DEF Unsent
  <2>5. HandleInv(req.by)'
    BY <2>1, <2>2, <2>3, <2>4 DEF HandleInv, SeqAfter, OwnsFence
  <2> QED
    BY <2>2, <2>5, Storing
<1>10. ASSUME NEW req \in net, Refuse(req)
       PROVE  IInv'
  <2>1. UNCHANGED <<log, gone, last, tail, want>> /\ net' \subseteq net
    BY <1>10 DEF Refuse
  <2>2. \A g \in Handle : \/ st'[g] = st[g]
                          \/ st[g] = "waiting" /\ st'[g] = "refused"
    BY <1>10, <1>b, TypeFacts DEF Refuse, Awaited
  <2>3. \A r \in net' : PublishInv(r)'
    BY <2>1 DEF IInv, PublishInv, SeqAfter, OwnsFence, RJ!HasWritten
  <2>4. \A g \in Handle : HandleInv(g)'
    BY <2>1, <2>2 DEF IInv, HandleInv, SeqAfter, OwnsFence, Unsent, RJ!HasWritten
  <2> QED
    BY <2>1, <2>3, <2>4 DEF IInv, NumberedFromOne
<1>11. CASE Delete
  <2>1. UNCHANGED <<log, net, st, last, tail, want>> /\ gone' = Len(log)
    BY <1>11 DEF Delete, clientVars
  <2>2. NumberedFromOne'
    BY <2>1, TypeFacts DEF NumberedFromOne
  <2> QED
    BY <2>1, <2>2 DEF IInv, PublishInv, HandleInv, SeqAfter, OwnsFence, Unsent, RJ!HasWritten
<1>12. CASE UNCHANGED vars
  BY <1>12 DEF vars, clientVars, IInv, NumberedFromOne, PublishInv, HandleInv, SeqAfter,
               OwnsFence, Unsent, RJ!HasWritten
<1> QED
  BY <1>1, <1>2, <1>3, <1>4, <1>5, <1>6, <1>7, <1>8, <1>9, <1>10, <1>11, <1>12
     DEF Next, OpenAtRest, OpenPastHold, Fail, ReadBackLoses, ReadBackFails

\* IInv is inductive, relative to the types.
THEOREM Inductive == Spec => []IInv
<1>1. Init => IInv
  <2> SUFFICES ASSUME Init PROVE IInv
    OBVIOUS
  <2>1. Len(log) = 0 /\ gone = 0 /\ net = {}
    BY DEF Init
  <2> QED
    BY <2>1 DEF Init, IInv, NumberedFromOne, HandleInv, SeqAfter, OwnsFence, Unsent, RJ!HasWritten
<1> QED
  BY <1>1, InductiveStep, TypeCorrect, PTL DEF Spec

-----------------------------------------------------------------------------

\* Every step of the backend is one the journal contract allows, or is invisible
\* to it.  Only a publish that passed the fence reaches the log.
LEMMA StepSimulation ==
  ASSUME TypeOK, TypeOK', IInv, [Next]_vars
  PROVE  [RJ!Next]_(RJ!journalVars)
<1> USE DEF RJ!journalVars
<1>1. ASSUME NEW req \in net, StoreRecord(req)
      PROVE  /\ req.by \in Handle /\ req.kind \in Kind
             /\ log' = Append(log, [by |-> req.by, kind |-> req.kind, seq |-> RJ!NextSeq])
             /\ ~RJ!Superseded(req.by)
  <2>1. req.by \in Handle /\ req.kind \in Kind
    BY DEF TypeOK, Publish
  <2>2. PublishInv(req) /\ FenceHolds(req) /\ NumberedFromOne
    BY <1>1 DEF IInv, StoreRecord
  <2>3. req.seq = RJ!NextSeq /\ ~RJ!Superseded(req.by)
    BY <2>2, FenceIsEnough
  <2> QED
    BY <1>1, <2>1, <2>3 DEF StoreRecord
<1>2. ASSUME NEW req \in net, StoreHeard(req)
      PROVE  RJ!Next
  <2>1. StoreRecord(req) /\ gone' = gone /\ acked' = acked \union {Len(log) + 1}
    BY <1>2 DEF StoreHeard, Settled
  <2>2. RJ!StoreAndAcknowledge(req.by, req.kind)
    BY <1>1, <2>1 DEF RJ!StoreAndAcknowledge
  <2> QED
    BY <1>1, <2>1, <2>2 DEF RJ!Next
<1>3. ASSUME NEW req \in net, StoreUnheard(req)
      PROVE  RJ!Next
  <2>1. StoreRecord(req) /\ gone' = gone /\ acked' = acked
    BY <1>3 DEF StoreUnheard
  <2>2. RJ!Store(req.by, req.kind)
    BY <1>1, <2>1 DEF RJ!Store
  <2> QED
    BY <1>1, <2>1, <2>2 DEF RJ!Next
<1>4. ASSUME NEW h \in Handle, ReadBackAdopts(h)
      PROVE  RJ!Next
  <2>1. PICK i \in Landed(h) : Settled(h, i)
    BY <1>4 DEF ReadBackAdopts
  <2>2. i \in 1..Len(log)
    BY TypeFacts DEF Landed, OnSubject
  <2>3. RJ!Acknowledge(i)
    BY <1>4, <2>1, <2>2 DEF RJ!Acknowledge, ReadBackAdopts, Settled
  <2> QED
    BY <2>2, <2>3 DEF RJ!Next
<1>5. CASE Delete
  BY <1>5 DEF Delete, RJ!Delete, RJ!Next
<1>6. ASSUME NEW h \in Handle,
             \/ CreateStart(h)
             \/ \E r \in {"runner", "supplier"} : OpenAtRest(h, r) \/ OpenPastHold(h, r)
             \/ \E k \in Kind, seq \in 1..MaxLog + 1 : AppendRecord(h, seq, k)
             \/ Retry(h)
             \/ Fail(h)
             \/ ReadBackLoses(h)
             \/ ReadBackFails(h)
      PROVE  UNCHANGED <<log, gone, acked>>
  BY <1>6 DEF CreateStart, OpenAtRest, OpenPastHold, Open, AppendRecord, Retry, Fail,
              ReadBackLoses, ReadBackFails
<1>7. ASSUME NEW req \in net, Refuse(req)
      PROVE  UNCHANGED <<log, gone, acked>>
  BY <1>7 DEF Refuse
<1>8. CASE UNCHANGED vars
  BY <1>8 DEF vars
<1> QED
  BY <1>2, <1>3, <1>4, <1>5, <1>6, <1>7, <1>8 DEF Next

\* The backend keeps runstate's journal contract: ImplementsRunJournal.
THEOREM Implementation == Spec => ImplementsRunJournal
<1>1. Init => RJ!Init
  BY DEF Init, RJ!Init
<1> QED
  BY <1>1, StepSimulation, TypeCorrect, Inductive, PTL DEF Spec, ImplementsRunJournal, RJ!Spec

-----------------------------------------------------------------------------
(* The read back. *)

Holding == {"idle", "waiting", "failed", "refused"}

\* A handle that was acknowledged once knows the last of its records that was.
OwnInv(h) ==
    HasAppended(h) /\ st[h] \in Holding => tail[h] \in acked /\ log[tail[h]].by = h

\* What other handles do leaves a handle's own records and acknowledgements alone.
LEMMA OwnKept ==
  ASSUME TypeOK, NEW g \in Handle, OwnInv(g),
         Len(log') \in Nat, \A i \in 1..Len(log) : log'[i] = log[i],
         acked \subseteq acked', \A i \in acked' : i \in acked \/ log'[i].by # g,
         st'[g] \in Holding => (st[g] \in Holding /\ tail'[g] = tail[g]) \/ ~HasAppended(g)
  PROVE  OwnInv(g)'
<1>1. acked \subseteq 1..Len(log)
  BY DEF TypeOK, RJ!TypeOK
<1>2. HasAppended(g)' => HasAppended(g)
  BY <1>1 DEF HasAppended
<1>3. ASSUME HasAppended(g)', st'[g] \in Holding
      PROVE  tail'[g] \in acked' /\ log'[tail'[g]].by = g
  <2>1. st[g] \in Holding /\ tail'[g] = tail[g] /\ HasAppended(g)
    BY <1>2, <1>3
  <2>2. tail[g] \in acked /\ log[tail[g]].by = g
    BY <2>1 DEF OwnInv
  <2> QED BY <1>1, <2>1, <2>2
<1> QED
  BY <1>3 DEF OwnInv

\* An append that returned nil is in the stream under the handle's own nonce, and the
\* handle's next fence is that record.
THEOREM AdoptsItsOwn == Spec => []AckedIsOwn
<1> DEFINE Inv == \A h \in Handle : OwnInv(h)
<1>1. Init => Inv
  BY DEF Init, OwnInv, HasAppended
<1>2. TypeOK /\ IInv /\ Inv /\ [Next]_vars => Inv'
  <2> SUFFICES ASSUME TypeOK, IInv, Inv, [Next]_vars
               PROVE  Inv'
    OBVIOUS
  <2>a. /\ Len(log) \in Nat /\ acked \subseteq 1..Len(log)
        /\ st \in [Handle -> State] /\ tail \in [Handle -> Nat]
    BY TypeFacts DEF TypeOK, RJ!TypeOK
  <2>b. ASSUME NEW h \in Handle, UNCHANGED <<log, acked>>,
               \A g \in Handle \ {h} : st'[g] = st[g] /\ tail'[g] = tail[g],
               st'[h] \in Holding => (st[h] \in Holding /\ tail'[h] = tail[h]) \/ ~HasAppended(h)
        PROVE  Inv'
    BY <2>a, <2>b, OwnKept
  <2>c. ASSUME NEW h \in Handle, st[h] \in {"new", "creating"} PROVE ~HasAppended(h)
    <3>1. ~RJ!HasWritten(h)
      BY <2>c DEF IInv, HandleInv, Unsent
    <3> QED BY <2>a, <3>1 DEF HasAppended, RJ!HasWritten
  <2>d. ASSUME NEW h \in Handle, Closed(h), UNCHANGED <<log, acked>> PROVE Inv'
    <3>1. st'[h] = "closed" /\ \A g \in Handle \ {h} : st'[g] = st[g] /\ tail'[g] = tail[g]
      BY <2>a, <2>d DEF Closed
    <3> QED BY <2>b, <2>d, <3>1 DEF Holding
  <2>e. ASSUME NEW h \in Handle, st[h] \in {"waiting", "refused"}, Failed(h), UNCHANGED <<log, acked>>
        PROVE  Inv'
    BY <2>a, <2>b, <2>d, <2>e DEF Failed, Holding
  <2>f. ASSUME NEW h \in Handle, NEW i, Settled(h, i), log'[i].by = h, Len(log') \in Nat,
               \A j \in 1..Len(log) : log'[j] = log[j]
        PROVE  Inv'
    <3>1. /\ tail'[h] = i /\ acked' = acked \union {i}
          /\ \A g \in Handle \ {h} : st'[g] = st[g] /\ tail'[g] = tail[g]
      BY <2>a, <2>f DEF Settled
    <3>2. OwnInv(h)'
      BY <2>f, <3>1 DEF OwnInv
    <3>3. \A g \in Handle \ {h} : OwnInv(g)'
      BY <2>f, <3>1, OwnKept
    <3> QED BY <3>2, <3>3
  <2>1. ASSUME NEW h \in Handle, CreateStart(h) PROVE Inv'
    BY <2>1, <2>a, <2>b DEF CreateStart, Holding
  <2>2. ASSUME NEW h \in Handle, NEW r, OpenAtRest(h, r) \/ OpenPastHold(h, r) PROVE Inv'
    BY <2>2, <2>a, <2>b, <2>c DEF OpenAtRest, OpenPastHold, Open
  <2>3. ASSUME NEW h \in Handle, NEW k, NEW seq, AppendRecord(h, seq, k) PROVE Inv'
    BY <2>3, <2>a, <2>b, <2>c DEF AppendRecord, Holding
  <2>4. ASSUME NEW h \in Handle, Retry(h) PROVE Inv'
    BY <2>4, <2>a, <2>b DEF Retry, Holding
  <2>5. ASSUME NEW h \in Handle, Fail(h) \/ ReadBackLoses(h) \/ ReadBackFails(h) PROVE Inv'
    BY <2>5, <2>d, <2>e DEF Fail, ReadBackLoses, ReadBackFails
  <2>6. ASSUME NEW h \in Handle, ReadBackAdopts(h) PROVE Inv'
    <3>1. PICK i \in Landed(h) : Settled(h, i)
      BY <2>6 DEF ReadBackAdopts
    <3>2. log[i].by = h /\ log' = log
      BY <2>6 DEF ReadBackAdopts, Landed
    <3> QED BY <2>a, <2>f, <3>1, <3>2
  <2>7. ASSUME NEW req \in net, StoreHeard(req) PROVE Inv'
    <3>1. req.by \in Handle /\ StoreRecord(req) /\ Settled(req.by, Len(log) + 1)
      BY <2>7, TypeFacts DEF StoreHeard
    <3>2. /\ Len(log') = Len(log) + 1
          /\ \A i \in 1..Len(log) : log'[i] = log[i]
          /\ log'[Len(log) + 1] = [by |-> req.by, kind |-> req.kind, seq |-> req.seq]
      BY <3>1, Stored
    <3>3. log'[Len(log) + 1].by = req.by /\ Len(log') \in Nat
      BY <2>a, <3>2
    <3>4. \A i \in 1..Len(log) : log'[i] = log[i]
      BY <3>2
    <3> QED BY <2>f, <3>1, <3>3, <3>4
  <2>8. ASSUME NEW req \in net, StoreUnheard(req) PROVE Inv'
    <3>1. StoreRecord(req) /\ UNCHANGED <<acked, st, tail>>
      BY <2>8 DEF StoreUnheard, clientVars
    <3>2. Len(log') = Len(log) + 1 /\ \A i \in 1..Len(log) : log'[i] = log[i]
      BY <3>1, Stored
    <3> QED BY <2>a, <3>1, <3>2, OwnKept
  <2>9. ASSUME NEW req \in net, Refuse(req) PROVE Inv'
    <3>1. \A g \in Handle : \/ st'[g] = st[g]
                            \/ st[g] = "waiting" /\ st'[g] = "refused"
      BY <2>9, <2>a, TypeFacts DEF Refuse, Awaited
    <3>2. UNCHANGED <<log, acked, tail>>
      BY <2>9 DEF Refuse
    <3> QED BY <2>a, <3>1, <3>2, OwnKept DEF Holding
  <2>10. CASE Delete \/ UNCHANGED vars
    BY <2>10, <2>a DEF Delete, vars, clientVars, OwnInv, HasAppended
  <2> QED
    BY <2>1, <2>2, <2>3, <2>4, <2>5, <2>6, <2>7, <2>8, <2>9, <2>10 DEF Next
<1>3. TypeOK /\ IInv /\ Inv => AckedIsOwn
  <2> SUFFICES ASSUME TypeOK, IInv, Inv, NEW h \in Handle, HasAppended(h), st[h] \in Holding
               PROVE  tail[h] \in acked /\ log[tail[h]].by = h /\ log[tail[h]].seq = last[h]
    BY DEF AckedIsOwn, Holding
  <2>1. tail[h] \in acked /\ log[tail[h]].by = h
    BY DEF OwnInv
  <2>2. tail[h] \in 1..Len(log) /\ log[tail[h]].seq \in Nat /\ last[h] \in Nat
    BY <2>1, TypeFacts DEF TypeOK, RJ!TypeOK
  <2>3. last[h] + 1 = SeqAfter(tail[h])
    BY DEF IInv, HandleInv
  <2> QED BY <2>1, <2>2, <2>3 DEF SeqAfter
<1> QED
  BY <1>1, <1>2, <1>3, TypeCorrect, Inductive, PTL DEF Spec

-----------------------------------------------------------------------------
(* The hold. *)

Runner(h) == role[h] \in {"creator", "runner"}

\* Record p lies behind the end of a turn, with nothing but results in between.
BehindEnd(p) ==
    \E i \in 1..p : log[i].kind = "end" /\ \A j \in (i + 1)..p : log[j].kind = "result"

\* The record at f is one of h's own turn.
InOwnTurn(h, f) == f \in 1..Len(log) /\ log[f].by = h /\ log[f].kind # "end"

\* A result of a turn follows a record of that turn, in the log, on its way and wanted:
\* so the results behind an end are supplied ones.
TurnInv ==
    /\ \A p \in 1..Len(log) : log[p].kind # "end" /\ Runner(log[p].by) => ~BehindEnd(p)
    /\ \A r \in net : r.kind = "result" /\ Runner(r.by) => InOwnTurn(r.by, r.fence)
    /\ \A h \in Handle :
         st[h] \in {"waiting", "refused", "failed"} /\ want[h].kind = "result" /\ Runner(h) =>
            InOwnTurn(h, tail[h])

\* Storing a publish keeps the turns of the log.
LEMMA TurnStored ==
  ASSUME TypeOK, TurnInv, NEW req \in net, StoreRecord(req), UNCHANGED role,
         \A h \in Handle :
            st'[h] \in {"waiting", "refused", "failed"} =>
               st'[h] = st[h] /\ tail'[h] = tail[h] /\ want'[h] = want[h]
  PROVE  TurnInv'
<1>1. /\ Len(log) \in Nat /\ Len(log') = Len(log) + 1
      /\ \A i \in 1..Len(log) : log'[i] = log[i] /\ log[i].by \in Handle
      /\ log'[Len(log) + 1] = [by |-> req.by, kind |-> req.kind, seq |-> req.seq]
  BY Stored, TypeFacts
<1>2. log'[Len(log) + 1].by = req.by /\ log'[Len(log) + 1].kind = req.kind
  BY <1>1
<1>3. \A h, f : InOwnTurn(h, f) => InOwnTurn(h, f)'
  BY <1>1 DEF InOwnTurn
<1>4. ASSUME NEW p \in 1..Len(log') , log'[p].kind # "end", Runner(log[p].by)'
      PROVE  ~BehindEnd(p)'
  <2>1. CASE p \in 1..Len(log)
    <3>1. ~BehindEnd(p)
      BY <1>1, <1>4, <2>1 DEF TurnInv, Runner
    <3>2. \A i \in 1..p : log'[i] = log[i]
      BY <1>1, <2>1
    <3>3. \A i \in 1..p : \A j \in (i + 1)..p : j \in 1..p
      BY <1>1, <2>1
    <3> QED BY <3>1, <3>2, <3>3 DEF BehindEnd
  <2>2. CASE p = Len(log) + 1
    <3>1. CASE req.kind # "result"
      <4>1. ASSUME NEW i \in 1..p, log'[i].kind = "end",
                   \A j \in (i + 1)..p : log'[j].kind = "result"
            PROVE  FALSE
        <5>1. i # p
          BY <1>4, <4>1
        <5>2. p \in (i + 1)..p
          BY <1>1, <2>2, <5>1
        <5> QED BY <1>2, <2>2, <3>1, <4>1, <5>2
      <4> QED BY <4>1 DEF BehindEnd
    <3>2. CASE req.kind = "result"
      <4>1. InOwnTurn(req.by, req.fence) /\ Runner(req.by)
        BY <1>2, <1>4, <2>2, <3>2 DEF TurnInv, Runner
      <4>2. req.fence = Len(log) /\ Len(log) \in 1..Len(log)
        BY <1>1, <4>1 DEF InOwnTurn, StoreRecord, FenceHolds, TailSequence
      <4>3. ~BehindEnd(Len(log))
        BY <4>1, <4>2 DEF InOwnTurn, TurnInv
      <4>4. ASSUME NEW i \in 1..p, log'[i].kind = "end",
                   \A j \in (i + 1)..p : log'[j].kind = "result"
            PROVE  FALSE
        <5>1. i \in 1..Len(log) /\ log[i].kind = "end"
          BY <1>1, <1>4, <2>2, <4>4
        <5>2. ASSUME NEW j \in (i + 1)..Len(log) PROVE log[j].kind = "result"
          <6>1. j \in (i + 1)..p /\ j \in 1..Len(log)
            BY <1>1, <2>2, <5>1
          <6> QED BY <1>1, <4>4, <6>1
        <5> QED BY <4>3, <5>1, <5>2 DEF BehindEnd
      <4> QED BY <4>4 DEF BehindEnd
    <3> QED BY <3>1, <3>2
  <2> QED BY <1>1, <2>1, <2>2
<1>5. \A r \in net' : r.kind = "result" /\ Runner(r.by)' => InOwnTurn(r.by, r.fence)'
  BY <1>3 DEF TurnInv, Runner, StoreRecord
<1>6. ASSUME NEW h \in Handle, st'[h] \in {"waiting", "refused", "failed"},
             want'[h].kind = "result", Runner(h)'
      PROVE  InOwnTurn(h, tail[h])'
  BY <1>3, <1>6 DEF TurnInv, Runner
<1> QED
  BY <1>4, <1>5, <1>6 DEF TurnInv

\* A step on one handle that stores nothing keeps the turns of the log.
LEMMA TurnKept ==
  ASSUME TypeOK, TurnInv, NEW h \in Handle, UNCHANGED log,
         \A g \in Handle \ {h} :
            /\ st'[g] = st[g] /\ tail'[g] = tail[g]
            /\ want'[g] = want[g] /\ role'[g] = role[g],
         role'[h] = role[h] \/ Unsent(h),
         \A r \in net' : r \in net \/ (r.by = h /\ r.kind = want'[h].kind /\ r.fence = tail'[h]
                                                /\ st'[h] = "waiting"),
         st'[h] \in {"waiting", "refused", "failed"} /\ want'[h].kind = "result" /\ Runner(h)' =>
            InOwnTurn(h, tail'[h])
  PROVE  TurnInv'
<1>1. \A f, g : InOwnTurn(g, f)' <=> InOwnTurn(g, f)
  BY DEF InOwnTurn
<1>2. ASSUME NEW p \in 1..Len(log'), log'[p].kind # "end", Runner(log[p].by)'
      PROVE  ~BehindEnd(p)'
  <2>1. p \in 1..Len(log) /\ log[p].by \in Handle
    BY <1>2, TypeFacts
  <2>2. log[p].by # h \/ role'[h] = role[h]
    BY <2>1 DEF Unsent, RJ!HasWritten
  <2>3. Runner(log[p].by)
    BY <1>2, <2>1, <2>2 DEF Runner
  <2> QED BY <1>2, <2>1, <2>3 DEF TurnInv, BehindEnd
<1>3. ASSUME NEW r \in net', r.kind = "result", Runner(r.by)'
      PROVE  InOwnTurn(r.by, r.fence)'
  <2>1. CASE r \in net
    <3>1. r.by \in Handle /\ (r.by # h \/ role'[h] = role[h])
      BY <2>1, TypeFacts DEF Unsent
    <3> QED BY <1>1, <1>3, <2>1, <3>1 DEF TurnInv, Runner
  <2>2. CASE r \notin net
    BY <1>1, <1>3, <2>2
  <2> QED BY <2>1, <2>2
<1>4. ASSUME NEW g \in Handle, st'[g] \in {"waiting", "refused", "failed"},
             want'[g].kind = "result", Runner(g)'
      PROVE  InOwnTurn(g, tail[g])'
  BY <1>1, <1>4 DEF TurnInv, Runner
<1> QED
  BY <1>2, <1>3, <1>4 DEF TurnInv

\* Inside the hold, a journal that reads as at rest is never one with a turn in flight.
THEOREM RestHolds == Spec => []RestMeansNoTurn
<1>1. Init => TurnInv
  BY DEF Init, TurnInv
<1>2. TypeOK /\ IInv /\ AckedIsOwn /\ TurnInv /\ [Next]_vars => TurnInv'
  <2> SUFFICES ASSUME TypeOK, IInv, AckedIsOwn, TurnInv, [Next]_vars
               PROVE  TurnInv'
    OBVIOUS
  <2>a. /\ st \in [Handle -> State] /\ tail \in [Handle -> Nat] /\ role \in [Handle -> Role]
        /\ want \in [Handle -> Wanted] /\ acked \subseteq 1..Len(log)
    BY DEF TypeOK, RJ!TypeOK
  <2>b. \A h \in Handle : st[h] \in {"new", "creating"} => Unsent(h) /\ ~HasAppended(h)
    BY <2>a DEF IInv, HandleInv, Unsent, HasAppended, RJ!HasWritten
  <2>c. ASSUME NEW h \in Handle, Closed(h), UNCHANGED <<log, net, role>> PROVE TurnInv'
    <3>1. /\ st'[h] = "closed"
          /\ \A g \in Handle \ {h} : st'[g] = st[g] /\ tail'[g] = tail[g] /\ want'[g] = want[g]
      BY <2>a, <2>c DEF Closed
    <3> QED BY <2>c, <3>1, TurnKept
  <2>d. ASSUME NEW h \in Handle, st[h] \in {"waiting", "refused"}, Failed(h), UNCHANGED <<log, net, role>>
        PROVE  TurnInv'
    <3>1. CASE st' = [st EXCEPT ![h] = "failed"] /\ UNCHANGED <<last, tail, want, try>>
      <4>1. want'[h].kind = "result" /\ Runner(h)' => InOwnTurn(h, tail'[h])
        BY <2>d, <3>1 DEF TurnInv, Runner
      <4> QED BY <2>a, <2>d, <3>1, <4>1, TurnKept
    <3> QED BY <2>c, <2>d, <3>1 DEF Failed
  <2>1. ASSUME NEW h \in Handle, CreateStart(h) PROVE TurnInv'
    <3>1. /\ st'[h] = "creating" /\ Unsent(h)
          /\ \A g \in Handle \ {h} : st'[g] = st[g] /\ role'[g] = role[g]
      BY <2>1, <2>a, <2>b DEF CreateStart
    <3> QED BY <2>1, <3>1, TurnKept DEF CreateStart
  <2>2. ASSUME NEW h \in Handle, NEW r, OpenAtRest(h, r) \/ OpenPastHold(h, r) PROVE TurnInv'
    <3>1. /\ st'[h] = "idle" /\ Unsent(h) /\ UNCHANGED <<log, net, want>>
          /\ \A g \in Handle \ {h} : st'[g] = st[g] /\ role'[g] = role[g] /\ tail'[g] = tail[g]
      BY <2>2, <2>a, <2>b DEF OpenAtRest, OpenPastHold, Open
    <3> QED BY <3>1, TurnKept
  <2>3. ASSUME NEW h \in Handle, NEW k \in Kind, NEW seq \in 1..MaxLog + 1, AppendRecord(h, seq, k)
        PROVE  TurnInv'
    <3>1. ASSUME k = "result", Runner(h) PROVE InOwnTurn(h, tail[h])
      <4>1. st[h] # "creating" /\ Writing(h)
        BY <2>3, <2>b, <3>1 DEF AppendRecord, MayWrite, Runner, Writing
      <4>2. tail[h] \in acked /\ log[tail[h]].by = h
        BY <2>3, <4>1 DEF AckedIsOwn, AppendRecord, Writing
      <4> QED BY <2>a, <4>1, <4>2 DEF InOwnTurn, Writing
    <3>2. /\ st'[h] = "waiting" /\ want'[h].kind = k /\ UNCHANGED <<log, role, tail>>
          /\ \A g \in Handle \ {h} : st'[g] = st[g] /\ want'[g] = want[g]
      BY <2>3, <2>a DEF AppendRecord
    <3>3. \A r \in net' : r \in net \/ (r.by = h /\ r.kind = k /\ r.fence = tail[h])
      BY <2>3 DEF AppendRecord, Request
    <3>4. Runner(h)' <=> Runner(h)
      BY <3>2 DEF Runner
    <3> QED BY <3>1, <3>2, <3>3, <3>4, TurnKept
  <2>4. ASSUME NEW h \in Handle, Retry(h) PROVE TurnInv'
    <3>1. want[h].kind = "result" /\ Runner(h) => InOwnTurn(h, tail[h])
      BY <2>4 DEF Retry, TurnInv
    <3>2. /\ st'[h] = "waiting" /\ UNCHANGED <<log, role, tail, want>>
          /\ \A g \in Handle \ {h} : st'[g] = st[g]
      BY <2>4, <2>a DEF Retry
    <3>3. \A r \in net' : r \in net \/ (r.by = h /\ r.kind = want[h].kind /\ r.fence = tail[h])
      BY <2>4 DEF Retry, Request
    <3>4. Runner(h)' <=> Runner(h)
      BY <3>2 DEF Runner
    <3> QED BY <3>1, <3>2, <3>3, <3>4, TurnKept
  <2>5. ASSUME NEW h \in Handle, Fail(h) \/ ReadBackLoses(h) \/ ReadBackFails(h) PROVE TurnInv'
    BY <2>5, <2>c, <2>d DEF Fail, ReadBackLoses, ReadBackFails
  <2>6. ASSUME NEW h \in Handle, ReadBackAdopts(h) PROVE TurnInv'
    <3>1. PICK i \in Landed(h) : Settled(h, i)
      BY <2>6 DEF ReadBackAdopts
    <3>2. /\ st'[h] = "idle" /\ UNCHANGED <<log, net, role>>
          /\ \A g \in Handle \ {h} : st'[g] = st[g] /\ tail'[g] = tail[g] /\ want'[g] = want[g]
      BY <2>6, <2>a, <3>1 DEF ReadBackAdopts, Settled
    <3> QED BY <3>2, TurnKept
  <2>7. ASSUME NEW req \in net, StoreHeard(req) PROVE TurnInv'
    <3>1. StoreRecord(req) /\ Settled(req.by, Len(log) + 1) /\ UNCHANGED role
      BY <2>7 DEF StoreHeard
    <3>2. \A h \in Handle : h # req.by => st'[h] = st[h] /\ tail'[h] = tail[h] /\ want'[h] = want[h]
      BY <2>a, <3>1 DEF Settled
    <3>3. req.by \in Handle /\ st'[req.by] = "idle"
      BY <2>a, <3>1, TypeFacts DEF Settled
    <3> QED BY <3>1, <3>2, <3>3, TurnStored
  <2>8. ASSUME NEW req \in net, StoreUnheard(req) PROVE TurnInv'
    BY <2>8, TurnStored DEF StoreUnheard, clientVars
  <2>9. ASSUME NEW req \in net, Refuse(req) PROVE TurnInv'
    <3>1. \A g \in Handle : \/ st'[g] = st[g]
                            \/ st[g] = "waiting" /\ st'[g] = "refused"
      BY <2>9, <2>a, TypeFacts DEF Refuse, Awaited
    <3>2. UNCHANGED <<log, role, tail, want>> /\ net' \subseteq net
      BY <2>9 DEF Refuse
    <3> QED BY <3>1, <3>2 DEF TurnInv, Runner, InOwnTurn, BehindEnd
  <2>10. CASE Delete \/ UNCHANGED vars
    BY <2>10 DEF Delete, vars, clientVars, TurnInv, Runner, InOwnTurn, BehindEnd
  <2> QED
    BY <2>1, <2>2, <2>3, <2>4, <2>5, <2>6, <2>7, <2>8, <2>9, <2>10 DEF Next
<1>3. TypeOK /\ TurnInv => RestMeansNoTurn
  <2> SUFFICES ASSUME TypeOK, TurnInv, AtRest, NEW h \in Handle, InTurn(h)
               PROVE  FALSE
    BY DEF RestMeansNoTurn
  <2>1. Len(log) \in Nat /\ gone \in Nat /\ Len(log) \in 1..Len(log)
    BY TypeFacts DEF InTurn, Exists
  <2>2. ~BehindEnd(Len(log))
    BY <2>1 DEF InTurn, TurnInv, Runner
  <2>3. BehindEnd(Len(log))
    BY <2>1 DEF AtRest, BehindEnd
  <2> QED BY <2>2, <2>3
<1> QED
  BY <1>1, <1>2, <1>3, TypeCorrect, Inductive, AdoptsItsOwn, PTL DEF Spec

-----------------------------------------------------------------------------
(* What the journal contract itself gives its callers, for any handles and *)
(* any kinds of record: with ImplementsRunJournal the backend gives it too. *)

CONSTANTS AnyHandle, AnyKind
Contract == INSTANCE RunJournal WITH Handle <- AnyHandle, Kind <- AnyKind

\* The log, gone and acked keep their types.
THEOREM JournalTypeCorrect == Contract!Spec => []Contract!TypeOK
<1>1. Contract!Init => Contract!TypeOK
  BY DEF Contract!Init, Contract!TypeOK
<1>2. Contract!TypeOK /\ [Contract!Next]_(Contract!journalVars) => Contract!TypeOK'
  <2> SUFFICES ASSUME Contract!TypeOK, [Contract!Next]_(Contract!journalVars)
               PROVE  Contract!TypeOK'
    OBVIOUS
  <2>a. log \in Seq(Contract!Entry) /\ Len(log) \in Nat /\ gone \in 0..Len(log) /\ acked \in SUBSET (1..Len(log))
    BY DEF Contract!TypeOK
  <2>1. ASSUME NEW h \in AnyHandle, NEW k \in AnyKind,
               log' = Append(log, [by |-> h, kind |-> k, seq |-> Contract!NextSeq]),
               gone' = gone, acked' = acked \/ acked' = acked \union {Len(log) + 1}
        PROVE  Contract!TypeOK'
    <3>1. Contract!NextSeq \in Nat
      BY <2>a DEF Contract!NextSeq
    <3>2. [by |-> h, kind |-> k, seq |-> Contract!NextSeq] \in Contract!Entry
      BY <3>1 DEF Contract!Entry
    <3>3. log' \in Seq(Contract!Entry) /\ Len(log') = Len(log) + 1
      BY <2>1, <2>a, <3>2
    <3>a. \A n \in acked : n \in 1..Len(log)
      BY <2>a
    <3>4. \A n \in acked' : n \in 1..Len(log) + 1
      <4>1. acked' \subseteq acked \union {Len(log) + 1}
        BY <2>1
      <4>2. \A n \in 1..Len(log) : n \in 1..Len(log) + 1
        BY <2>a
      <4>3. Len(log) + 1 \in 1..Len(log) + 1
        BY <2>a
      <4> QED
        BY <3>a, <4>1, <4>2, <4>3
    <3> HIDE DEF Contract!NextSeq
    <3> QED
      BY <2>a, <2>1, <3>3, <3>4 DEF Contract!TypeOK
  <2>2. CASE \E i \in 1..Len(log) : Contract!Acknowledge(i)
    BY <2>2 DEF Contract!TypeOK, Contract!Acknowledge
  <2>3. CASE Contract!Delete
    BY <2>3 DEF Contract!TypeOK, Contract!Delete
  <2>4. CASE Contract!Lose
    <3>1. PICK n \in gone..Len(log) : log' = SubSeq(log, 1, n) /\ \A i \in acked : i <= n
      BY <2>4 DEF Contract!Lose
    <3>2. n \in Nat /\ gone <= n /\ gone \in Nat /\ n <= Len(log)
      BY <2>a, <3>1
    <3>3. log' \in Seq(Contract!Entry) /\ Len(log') = n
      BY <2>a, <3>1, <3>2
    <3>4. gone' = gone /\ acked' = acked
      BY <2>4 DEF Contract!Lose
    <3>5. \A i \in acked : i \in 1..n
      BY <2>a, <3>1, <3>2
    <3>6. gone' \in 0..Len(log')
      BY <3>2, <3>3, <3>4
    <3> QED
      BY <3>3, <3>4, <3>5, <3>6 DEF Contract!TypeOK
  <2>5. CASE UNCHANGED Contract!journalVars
    BY <2>5 DEF Contract!TypeOK, Contract!journalVars
  <2> QED
    BY <2>1, <2>2, <2>3, <2>4, <2>5 DEF Contract!Next, Contract!Store, Contract!StoreAndAcknowledge
<1> QED
  BY <1>1, <1>2, PTL DEF Contract!Spec

\* A journal is the work of one handle after another: only a handle that has not
\* written, or that wrote last, may add to it.
THEOREM EpochsHold == Contract!Spec => []Contract!Epochs
<1>1. Contract!Init => Contract!Epochs
  BY DEF Contract!Init, Contract!Epochs
<1>2. Contract!TypeOK /\ Contract!Epochs /\ [Contract!Next]_(Contract!journalVars) => Contract!Epochs'
  <2> SUFFICES ASSUME Contract!TypeOK, Contract!Epochs, [Contract!Next]_(Contract!journalVars)
               PROVE  Contract!Epochs'
    OBVIOUS
  <2>a. Len(log) \in Nat
    BY DEF Contract!TypeOK
  <2>1. ASSUME NEW h \in AnyHandle, NEW kd \in AnyKind, ~Contract!Superseded(h),
               log' = Append(log, [by |-> h, kind |-> kd, seq |-> Contract!NextSeq])
        PROVE  Contract!Epochs'
    <3>1. /\ Len(log') = Len(log) + 1
          /\ \A i \in 1..Len(log) : log'[i] = log[i]
          /\ log'[Len(log) + 1] = [by |-> h, kind |-> kd, seq |-> Contract!NextSeq]
      BY <2>1 DEF Contract!TypeOK
    <3>2. log'[Len(log) + 1].by = h
      BY <3>1
    <3> SUFFICES ASSUME NEW i \in 1..Len(log'), NEW j \in 1..Len(log'), NEW k \in 1..Len(log'),
                        i < j, j < k, log'[i].by = log'[k].by
                 PROVE  log'[j].by = log'[i].by
      BY DEF Contract!Epochs
    <3>3. i \in 1..Len(log) /\ j \in 1..Len(log) /\ log'[i] = log[i] /\ log'[j] = log[j]
      BY <2>a, <3>1
    <3>4. CASE k \in 1..Len(log)
      BY <3>1, <3>3, <3>4 DEF Contract!Epochs
    <3>5. CASE k = Len(log) + 1
      <4>1. log[i].by = h
        BY <3>2, <3>3, <3>5
      <4>2. log[Len(log)].by = h
        BY <2>1, <3>3, <4>1 DEF Contract!Superseded, Contract!HasWritten
      <4>3. j = Len(log) \/ log[j].by = log[i].by
        BY <2>a, <3>3, <4>1, <4>2 DEF Contract!Epochs
      <4> QED
        BY <3>3, <4>1, <4>2, <4>3
    <3> QED
      BY <2>a, <3>1, <3>4, <3>5
  <2>2. CASE Contract!Lose
    <3>1. PICK n \in gone..Len(log) : log' = SubSeq(log, 1, n)
      BY <2>2 DEF Contract!Lose
    <3>2. n \in Nat /\ n <= Len(log)
      BY <2>a, <3>1 DEF Contract!TypeOK
    <3>3. /\ Len(log') = n
          /\ \A i \in 1..n : log'[i] = log[i] /\ i \in 1..Len(log)
      BY <2>a, <3>1, <3>2 DEF Contract!TypeOK
    <3> QED
      BY <3>3 DEF Contract!Epochs
  <2>3. CASE UNCHANGED log
    BY <2>3 DEF Contract!Epochs
  <2> QED
    BY <2>1, <2>2, <2>3 DEF Contract!Next, Contract!Store, Contract!StoreAndAcknowledge, Contract!Acknowledge, Contract!Delete, Contract!journalVars
<1> QED
  BY <1>1, <1>2, JournalTypeCorrect, PTL DEF Contract!Spec
=============================================================================
