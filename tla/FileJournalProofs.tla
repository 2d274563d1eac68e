------------------------- MODULE FileJournalProofs --------------------------
(***************************************************************************)
(* The lock file keeps a journal to one holder, for any handles and any    *)
(* bounds, through crashes, power losses and deletes of open runs.  It     *)
(* fails only when Delete takes the lock file from a process that is just  *)
(* opening the run.                                                        *)
(***************************************************************************)
EXTENDS FileJournal, TLAPS

\* What of the type invariant the locks need.
LockType ==
    /\ st \in [Handle -> State]
    /\ lock \in [Handle -> Nat]
    /\ own \in [Handle -> Nat]
    /\ lockFile \in Nat /\ locks \in Nat /\ journal \in Nat
    /\ \E S : file \in Seq(S)
    /\ journal <= Len(file)
    /\ \A h \in Handle : own[h] <= Len(file)

\* Who has what: a handle writes to a file only while it has a lock file flocked, and
\* nobody else has flocked the same one.
FlockInv ==
    /\ \A h \in Handle : own[h] # 0 => HasFlock(h) /\ st[h] # "locked"
    /\ \A h \in Handle : (st[h] = "reaching" \/ HasFlock(h)) <=> lock[h] # 0
    /\ \A g, h \in Handle : HasFlock(g) /\ HasFlock(h) /\ lock[g] = lock[h] => g = h

\* Unless Delete undercut somebody, whoever is about to open the journal, or has open the
\* one at journalPath, has the lock file that is at lockPath; one that holds an older
\* journal may have an older lock file, and shares neither.
PathInv ==
    ~undercut =>
        /\ \A h \in Handle : lock[h] # 0 /\ own[h] \in {0, journal} => lock[h] = lockFile
        /\ AloneWithJournal

LockInv == LockType /\ FlockInv /\ PathInv

\* What a write makes of the journals: one is another sequence and none is new.
LEMMA SameFiles ==
  ASSUME NEW f, NEW S, f \in Seq(S), NEW k, NEW v
  PROVE  LET g == [f EXCEPT ![k] = v] IN Len(g) = Len(f) /\ \E T : g \in Seq(T)
<1> DEFINE g == [f EXCEPT ![k] = v]
           T == S \union {v}
<1>1. Len(f) \in Nat /\ f \in [1..Len(f) -> S]
  OBVIOUS
<1>2. g \in [1..Len(f) -> T]
  BY <1>1
<1>3. g \in Seq(T) /\ Len(g) = Len(f)
  BY <1>1, <1>2
<1> QED BY <1>3

\* And one more is numbered past all there were.
LEMMA OneMoreFile ==
  ASSUME NEW f, NEW S, f \in Seq(S), NEW v
  PROVE  Len(Append(f, v)) = Len(f) + 1 /\ Len(f) \in Nat /\ \E T : Append(f, v) \in Seq(T)
<1> DEFINE T == S \union {v}
<1>1. f \in Seq(T)
  OBVIOUS
<1>2. Append(f, v) \in Seq(T) /\ Len(Append(f, v)) = Len(f) + 1 /\ Len(f) \in Nat
  BY <1>1
<1> QED BY <1>2

\* One handle at most has a lock file flocked, and what it writes to is its own unless
\* Delete undercut an opener.
THEOREM LocksHold == Spec => []LockInv
<1>1. Init => LockInv
  BY DEF Init, LockInv, LockType, FlockInv, PathInv, AloneWithJournal, HasFlock, State
<1>2. LockInv /\ [Next]_vars => LockInv'
  <2> SUFFICES ASSUME LockInv, [Next]_vars
               PROVE  LockInv'
    OBVIOUS
  <2> USE DEF LockInv, LockType, FlockInv, PathInv, AloneWithJournal, HasFlock, State
  \* A handle that gives up, is closed or dies.
  <2>a. ASSUME NEW h \in Handle, Closed(h), UNCHANGED <<diskVars, historyVars>>
        PROVE  LockInv'
    BY <2>a DEF Closed, diskVars, historyVars
  \* A handle that writes to what it has open; lines come and no file does.
  <2>b. ASSUME NEW h \in Handle, HasFlock(h), HasFlock(h)', st'[h] # "locked", st' \in [Handle -> State],
               \A g \in Handle \ {h} : st'[g] = st[g],
               UNCHANGED <<lock, own, journal, lockFile, locks, undercut>>,
               Len(file') = Len(file), \E S : file' \in Seq(S)
        PROVE  LockInv'
    <3>1. \A g \in Handle : /\ HasFlock(g)' <=> HasFlock(g)
                            /\ st'[g] = "reaching" <=> st[g] = "reaching"
                            /\ st'[g] = "locked" => st[g] = "locked"
      BY <2>b
    <3>2. FlockInv'
      BY <2>b, <3>1
    <3>3. LockType'
      BY <2>b
    <3>4. PathInv'
      BY <2>b
    <3> QED BY <3>2, <3>3, <3>4
  <2>1. ASSUME NEW h \in Handle, CreateStart(h) \/ OpenStart(h) PROVE LockInv'
    <3>1. /\ st[h] = "new" /\ st' = [st EXCEPT ![h] = "found"]
          /\ UNCHANGED <<lock, own, file, journal, lockFile, locks, undercut>>
      BY <2>1 DEF CreateStart, OpenStart, diskVars, historyVars
    <3>2. FlockInv'
      BY <3>1
    <3>3. LockType' /\ PathInv'
      BY <3>1
    <3> QED BY <3>2, <3>3
  <2>2. ASSUME NEW h \in Handle, OpenLock(h) PROVE LockInv'
    BY <2>2 DEF OpenLock, historyVars
  <2>3. ASSUME NEW h \in Handle, AcquireLock(h) PROVE LockInv'
    <3>1. CASE Locked(lock[h])
      BY <2>3, <2>a, <3>1 DEF AcquireLock
    <3>2. CASE ~Locked(lock[h])
      <4>1. /\ st[h] = "reaching" /\ st' = [st EXCEPT ![h] = "locked"]
            /\ \A g \in Handle : HasFlock(g) => lock[g] # lock[h]
            /\ UNCHANGED <<lock, own, file, journal, lockFile, locks, undercut>>
        BY <2>3, <3>2 DEF AcquireLock, Locked, diskVars, historyVars
      <4>2. LockType' /\ PathInv'
        BY <4>1
      <4>3. \A g \in Handle : HasFlock(g)' <=> (HasFlock(g) \/ g = h)
        BY <4>1
      <4>4. FlockInv'
        BY <4>1, <4>3
      <4> QED BY <4>2, <4>4
    <3> QED BY <3>1, <3>2
  <2>4. ASSUME NEW h \in Handle, OpenNewFile(h) PROVE LockInv'
    <3>1. PICK S : file \in Seq(S)
      OBVIOUS
    <3>2. /\ st[h] = "locked" /\ st' = [st EXCEPT ![h] = "reading"]
          /\ own' = [own EXCEPT ![h] = Len(file) + 1]
          /\ file' = Append(file, << >>) /\ journal' = Len(file) + 1
          /\ journal = 0 /\ UNCHANGED <<lock, lockFile, locks, undercut>>
      BY <2>4 DEF OpenNewFile, Opened, historyVars
    <3>3. Len(file') = Len(file) + 1 /\ Len(file) \in Nat /\ \E T : file' \in Seq(T)
      BY <3>1, <3>2, OneMoreFile
    <3>4. LockType'
      BY <3>2, <3>3
    <3>5. FlockInv'
      BY <3>2, <3>3
    <3>6. own[h] = 0 /\ lock[h] # 0
      BY <3>2
    <3>7. \A g \in Handle : own[g] # Len(file) + 1
      BY <3>3
    <3>8. ASSUME ~undercut
          PROVE  PathInv'
      <4>1. lock[h] = lockFile
        BY <3>2, <3>6, <3>8
      <4>2. ASSUME NEW g \in Handle, lock'[g] # 0, own'[g] \in {0, journal'}
            PROVE  lock'[g] = lockFile'
        BY <3>2, <3>7, <3>8, <4>1, <4>2
      <4>3. AloneWithJournal'
        BY <3>2, <3>3, <3>7, <3>8
      <4> QED BY <4>2, <4>3
    <3> QED BY <3>2, <3>4, <3>5, <3>8
  <2>5. ASSUME NEW h \in Handle, OpenFile(h) PROVE LockInv'
    <3>1. CASE creator[h]
      BY <2>5, <2>a, <3>1 DEF OpenFile
    <3>2. CASE ~creator[h]
      <4>1. /\ st[h] = "locked" /\ st' = [st EXCEPT ![h] = "reading"]
            /\ own' = [own EXCEPT ![h] = journal] /\ journal # 0
            /\ UNCHANGED <<lock, file, journal, lockFile, locks, undercut>>
        BY <2>5, <3>2 DEF OpenFile, Opened, diskVars, historyVars
      <4>2. LockType' /\ FlockInv'
        BY <4>1
      <4>3. own[h] = 0 /\ lock[h] # 0
        BY <4>1
      <4>4. ASSUME ~undercut, NEW g \in Handle, own[g] = journal
            PROVE  FALSE
        <5>1. HasFlock(g) /\ lock[g] # 0 /\ lock[g] = lockFile
          BY <4>1, <4>4
        <5>2. HasFlock(h) /\ lock[h] = lockFile
          BY <4>1, <4>3, <4>4
        <5>3. g = h
          BY <5>1, <5>2
        <5> QED BY <5>3, <4>1, <4>3, <4>4
      <4>5. PathInv'
        BY <4>1, <4>3, <4>4
      <4> QED BY <4>2, <4>5
    <3> QED BY <3>1, <3>2
  <2>6. ASSUME NEW h \in Handle, ReadLast(h) PROVE LockInv'
    <3>1. CASE journal = 0 \/ ~Readable(Current)
      BY <2>6, <2>a, <3>1 DEF ReadLast
    <3>2. CASE ~(journal = 0 \/ ~Readable(Current))
      <4>1. /\ st[h] = "reading" /\ st' = [st EXCEPT ![h] = "idle"]
            /\ UNCHANGED <<lock, own, file, journal, lockFile, locks, undercut>>
        BY <2>6, <3>2 DEF ReadLast, diskVars, historyVars
      <4> QED BY <2>b, <4>1
    <3> QED BY <3>1, <3>2
  <2>7. ASSUME NEW h \in Handle, Write(h) \/ \E form \in {"partial", "unended"} : WriteTorn(h, form)
        PROVE  LockInv'
    <3>1. PICK S : file \in Seq(S)
      OBVIOUS
    <3>2. st[h] = "idle" /\ UNCHANGED <<lock, own, journal, lockFile, locks, undercut>>
      BY <2>7 DEF Write, WriteTorn, historyVars
    <3>3. \E s \in {"written", "failed"} : st' = [st EXCEPT ![h] = s]
      BY <2>7 DEF Write, WriteTorn
    <3>4. \E v : file' = [file EXCEPT ![own[h]] = v]
      BY <2>7 DEF Write, WriteTorn
    <3>5. Len(file') = Len(file) /\ \E T : file' \in Seq(T)
      BY <3>1, <3>4, SameFiles
    <3> QED BY <2>b, <3>2, <3>3, <3>5
  <2>8. ASSUME NEW h \in Handle, Sync(h) \/ SyncDir(h) \/ SyncFails(h) PROVE LockInv'
    <3>1. st[h] \in {"written", "synced"} /\ UNCHANGED <<lock, own, file, journal, lockFile, locks, undercut>>
      BY <2>8 DEF Sync, SyncDir, SyncFails, Appended, diskVars, historyVars
    <3>2. \E s \in {"idle", "synced", "failed"} : st' = [st EXCEPT ![h] = s]
      BY <2>8 DEF Sync, SyncDir, SyncFails, Appended
    <3> QED BY <2>b, <3>1, <3>2
  <2>9. ASSUME NEW h \in Handle, Stop(h) PROVE LockInv'
    BY <2>9, <2>a DEF Stop
  <2>10. CASE PowerLoss
    <3>1. PICK S : file \in Seq(S)
      OBVIOUS
    <3>2. /\ st' = [h \in Handle |-> IF st[h] = "new" THEN "new" ELSE "closed"]
          /\ lock' = [h \in Handle |-> 0] /\ own' = [h \in Handle |-> 0]
          /\ UNCHANGED <<lockFile, locks, undercut>> /\ journal' \in {0, journal}
      BY <2>10 DEF PowerLoss, historyVars
    <3>3. file' = file \/ \E v : file' = [file EXCEPT ![journal] = v]
      <4>1. CASE journal = 0
        BY <2>10, <4>1 DEF PowerLoss
      <4>2. CASE journal # 0 /\ file' = [file EXCEPT ![journal] = << >>]
        BY <4>2
      <4>3. CASE \E n \in synced[journal]..Len(Current) :
                    file' = [file EXCEPT ![journal] = SubSeq(@, 1, n)]
        BY <4>3
      <4> QED BY <2>10, <4>1, <4>2, <4>3 DEF PowerLoss
    <3>4. Len(file') = Len(file) /\ Len(file) \in Nat /\ \E T : file' \in Seq(T)
      <4>1. Len(file) \in Nat
        BY <3>1
      <4>2. CASE file' = file
        BY <3>1, <4>1, <4>2
      <4>3. ASSUME NEW v, file' = [file EXCEPT ![journal] = v]
            PROVE  Len(file') = Len(file) /\ \E T : file' \in Seq(T)
        BY <3>1, <4>3, SameFiles
      <4> QED BY <3>3, <4>1, <4>2, <4>3
    <3> QED BY <3>2, <3>4
  <2>11. CASE DeleteJournal
    BY <2>11 DEF DeleteJournal, handleVars, historyVars
  <2>12. CASE DeleteLock
    BY <2>12 DEF DeleteLock, Opening, handleVars
  <2>13. CASE UNCHANGED vars
    BY <2>13 DEF vars, diskVars, handleVars, historyVars
  <2> QED
    BY <2>1, <2>2, <2>3, <2>4, <2>5, <2>6, <2>7, <2>8, <2>9, <2>10, <2>11, <2>12, <2>13 DEF Next
<1> QED
  BY <1>1, <1>2, PTL DEF Spec

\* While a journal is open no other process has it, which is why CheckHeld asks nobody,
\* whatever crashes, power losses and deletes there were, except where Delete took the
\* lock file from a process that was opening the run.
THEOREM OpenedByOne == Spec => []OneHolder
<1>1. LockInv => OneHolder
  BY DEF LockInv, PathInv, OneHolder
<1> QED
  BY <1>1, LocksHold, PTL
=============================================================================
