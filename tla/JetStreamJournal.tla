-------------------------- MODULE JetStreamJournal --------------------------
(***************************************************************************)
(* The JetStream session backend (internal/runstate/jetstream) as far as   *)
(* one run is concerned: the run's records on its own subjects, handles    *)
(* that publish fenced on the run's tail, acknowledgements that get lost,  *)
(* publishes that arrive after their caller gave up, and Open's hold, which*)
(* keeps a second worker away from a turn in flight until the tail is old. *)
(*                                                                         *)
(* Other runs of the stream only space out the stream sequences, so a      *)
(* record's stream sequence is its position in log.  The server's          *)
(* Nats-Msg-Id window would answer a repeated publish with the position of *)
(* the first; the code relies on it for nothing, and here the fence refuses*)
(* the repetition and the read back adopts the record.  Close releases     *)
(* nothing: a closed handle, like a crashed one, just takes no more steps. *)
(***************************************************************************)
EXTENDS Naturals, Sequences, FiniteSets

CONSTANTS
    Handle,       \* journal handles; a handle is one nonce
    MaxLog,       \* bound: records a publish is sent behind, deleted ones included
    MaxTry,       \* bound: how often one record is published
    MaxDelete     \* bound: how often the run is deleted

ASSUME BoundsAssumption == MaxLog \in Nat /\ MaxTry \in Nat /\ MaxDelete \in Nat

\* What Open and the hold tell apart: a tool_result, a terminal record, and the
\* rest of a turn, in which a claim, an assistant or a user record are alike.
Kind == {"meta", "turn", "result", "end"}

VARIABLES
    log,          \* every record stored for the run; the index is the stream sequence
    gone,         \* records up to here were purged by Delete
    acked,        \* history: stream sequences acknowledged to their publisher
    net,          \* publishes on their way to the server
    st,           \* h -> how far its handle is
    role,         \* h -> what its owner opened the run for
    last,         \* h -> journal.lastSeq
    tail,         \* h -> journal.tailStreamSeq
    want,         \* h -> the record of the Append it is in
    try           \* h -> how often that record was published

clientVars == <<st, role, last, tail, want, try>>
vars == <<log, gone, acked, net, clientVars>>

RJ == INSTANCE RunJournal

State == {"new", "creating", "idle", "waiting", "refused", "failed", "closed"}
Role == {"none", "creator", "runner", "supplier"}
\* No Append is under way.
NoRecord == [kind |-> "meta", seq |-> 0]

Wanted == [kind : Kind, seq : Nat]

Publish == [by : Handle, kind : Kind, seq : Nat, fence : Nat, try : Nat]

TypeOK ==
    /\ RJ!TypeOK
    /\ net \in SUBSET Publish
    /\ st \in [Handle -> State]
    /\ role \in [Handle -> Role]
    /\ last \in [Handle -> Nat]
    /\ tail \in [Handle -> Nat]
    /\ want \in [Handle -> Wanted]
    /\ try \in [Handle -> Nat]

Init ==
    /\ log = << >>
    /\ gone = 0
    /\ acked = {}
    /\ net = {}
    /\ st = [h \in Handle |-> "new"]
    /\ role = [h \in Handle |-> "none"]
    /\ last = [h \in Handle |-> 0]
    /\ tail = [h \in Handle |-> 0]
    /\ want = [h \in Handle |-> NoRecord]
    /\ try = [h \in Handle |-> 0]

-----------------------------------------------------------------------------
(* Reading the stream. *)

Exists == Len(log) > gone

\* The run wildcard's last stream sequence, 0 when the run has no record.
TailSequence == IF Exists THEN Len(log) ELSE 0

\* The record on the subject of seq, if the run still has one.
OnSubject(seq) == {i \in (gone + 1)..Len(log) : log[i].seq = seq}

AtRestAnyResult ==
    \E i \in (gone + 1)..Len(log) :
        /\ log[i].kind \in {"end", "result"}
        /\ \A j \in (i + 1)..Len(log) : log[j].kind = "result"

\* atRest: a terminal tail, or tool_results that follow one.  The code walks
\* back one record at a time and stops at the first that is no tool_result.
AtRest ==
    \E i \in (gone + 1)..Len(log) :
        /\ log[i].kind = "end"
        /\ \A j \in (i + 1)..Len(log) : log[j].kind = "result"

-----------------------------------------------------------------------------
(* Create and Open. *)

\* Create finds no meta record.  It publishes one in a step of its own, so two
\* creators may both come this far.
CreateStart(h) ==
    /\ st[h] = "new"
    /\ ~Exists
    /\ st' = [st EXCEPT ![h] = "creating"]
    /\ role' = [role EXCEPT ![h] = "creator"]
    /\ UNCHANGED <<log, gone, acked, net, last, tail, want, try>>

\* Open reads the tail, and the records behind it when the tail is younger than
\* the hold.  Those cannot change, so what counts is when the tail was read.
Open(h, r) ==
    /\ st' = [st EXCEPT ![h] = "idle"]
    /\ role' = [role EXCEPT ![h] = r]
    /\ last' = [last EXCEPT ![h] = log[Len(log)].seq]
    /\ tail' = [tail EXCEPT ![h] = Len(log)]
    /\ UNCHANGED <<log, gone, acked, net, want, try>>

OpenAtRest(h, r) ==
    /\ st[h] = "new"
    /\ Exists
    /\ AtRest
    /\ Open(h, r)

\* The tail is older than the hold, which may come to be at any time, or the hold
\* is zero: the run is handed over whatever its tail is.
OpenPastHold(h, r) ==
    /\ st[h] = "new"
    /\ Exists
    /\ Open(h, r)

-----------------------------------------------------------------------------
(* Append, from its caller's side. *)

CheckAppendNoGap(lastSeq, seq) == IF seq <= lastSeq THEN "skip" ELSE "write"

\* CheckAppend: a seq already written is skipped, one beyond the next is a gap.
CheckAppend(lastSeq, seq) ==
    CASE seq <= lastSeq    -> "skip"
      [] seq > lastSeq + 1 -> "gap"
      [] OTHER             -> "write"

\* An acknowledged record of h, which tells a claim from what follows it.
HasAppended(h) == \E i \in acked : log[i].by = h

\* h's own latest record leaves a turn open, which only a turn's own records do.
Writing(h) == HasAppended(h) /\ log[tail[h]].kind # "end"

MayWriteUnclaimed(h, k) ==
    CASE role[h] = "supplier" -> k = "result" /\ ~HasAppended(h)
      [] st[h] = "creating"   -> k = "meta"
      [] OTHER                -> k \in {"turn", "result", "end"}

\* What the callers write: a creator its meta record, a supplier one answer, and
\* a runner turns, the first of which opens on its claim.
MayWrite(h, k) ==
    CASE role[h] = "supplier" -> k = "result" /\ ~HasAppended(h)
      [] st[h] = "creating"   -> k = "meta"
      [] Writing(h)           -> k \in {"turn", "result", "end"}
      [] OTHER                -> k = "turn"

\* The publish of want[h], fenced on the tail this handle knows.
Request(h, k, seq, n) ==
    [by |-> h, kind |-> k, seq |-> seq, fence |-> tail[h], try |-> n]

AppendRecord(h, seq, k) ==
    /\ st[h] \in {"creating", "idle"}
    /\ Len(log) < MaxLog
    /\ MayWrite(h, k)
    /\ CheckAppend(last[h], seq) = "write"
    /\ st' = [st EXCEPT ![h] = "waiting"]
    /\ want' = [want EXCEPT ![h] = [kind |-> k, seq |-> seq]]
    /\ try' = [try EXCEPT ![h] = 1]
    /\ net' = net \union {Request(h, k, seq, 1)}
    /\ UNCHANGED <<log, gone, acked, role, last, tail>>

\* The contract lets a caller append the same record again after a failure.
Retry(h) ==
    /\ st[h] = "failed"
    /\ try[h] < MaxTry
    /\ st' = [st EXCEPT ![h] = "waiting"]
    /\ try' = [try EXCEPT ![h] = @ + 1]
    /\ net' = net \union {Request(h, want[h].kind, want[h].seq, try[h] + 1)}
    /\ UNCHANGED <<log, gone, acked, role, last, tail, want>>

\* Its owner gives the journal up, and with it what it knew.
Closed(h) ==
    /\ st' = [st EXCEPT ![h] = "closed"]
    /\ last' = [last EXCEPT ![h] = 0]
    /\ tail' = [tail EXCEPT ![h] = 0]
    /\ want' = [want EXCEPT ![h] = NoRecord]
    /\ try' = [try EXCEPT ![h] = 0]

\* The Append of h returns with its record stored at position i.
Settled(h, i) ==
    /\ st' = [st EXCEPT ![h] = "idle"]
    /\ last' = [last EXCEPT ![h] = want[h].seq]
    /\ tail' = [tail EXCEPT ![h] = i]
    /\ acked' = acked \union {i}
    /\ want' = [want EXCEPT ![h] = NoRecord]
    /\ try' = [try EXCEPT ![h] = 0]

\* The Append of h returns an error that leaves the journal open, which Create
\* hands to nobody.
Failed(h) ==
    \/ /\ want[h].seq > 1
       /\ st' = [st EXCEPT ![h] = "failed"]
       /\ UNCHANGED <<last, tail, want, try>>
    \/ /\ want[h].seq = 1
       /\ Closed(h)

\* The context expires, or the publish fails with anything but a wrong last
\* sequence.  The publish may still be on its way.
Fail(h) ==
    /\ st[h] = "waiting"
    /\ Failed(h)
    /\ UNCHANGED <<log, gone, acked, net, role>>

LandedAnyNonce(h) == OnSubject(want[h].seq)

\* The fence failed.  The record on the subject tells a publish of this handle
\* that landed unheard, which is adopted, from another writer's.
Landed(h) == {i \in OnSubject(want[h].seq) : log[i].by = h}

ReadBackAdopts(h) ==
    /\ st[h] = "refused"
    /\ \E i \in Landed(h) : Settled(h, i)
    /\ UNCHANGED <<log, gone, net, role>>

\* ErrExists for a creator and ErrLocked for the rest; either way its owner stops.
ReadBackLoses(h) ==
    /\ st[h] = "refused"
    /\ Landed(h) = {}
    /\ Closed(h)
    /\ UNCHANGED <<log, gone, acked, net, role>>

\* The read back itself fails: the append is neither stored nor lost.
ReadBackFails(h) ==
    /\ st[h] = "refused"
    /\ Failed(h)
    /\ UNCHANGED <<log, gone, acked, net, role>>

-----------------------------------------------------------------------------
(* The server, and time. *)

FenceHoldsOnSubject(req) == OnSubject(req.seq) = {}

\* The expected last sequence is checked over the run wildcard.
FenceHolds(req) == req.fence = TailSequence

\* The publish req is the one its handle waits on; the answer to an earlier one
\* finds nobody.
Awaited(req) ==
    /\ st[req.by] = "waiting"
    /\ want[req.by].seq = req.seq
    /\ try[req.by] = req.try

StoreRecord(req) ==
    /\ req \in net
    /\ FenceHolds(req)
    /\ net' = net \ {req}
    /\ log' = Append(log, [by |-> req.by, kind |-> req.kind, seq |-> req.seq])

\* The record is stored and the acknowledgement reaches its publisher.
StoreHeard(req) ==
    /\ StoreRecord(req)
    /\ Awaited(req)
    /\ Settled(req.by, Len(log) + 1)
    /\ UNCHANGED <<gone, role>>

\* The record is stored and its publisher has stopped waiting.  A lost
\* acknowledgement is one that Fail comes before.
StoreUnheard(req) ==
    /\ StoreRecord(req)
    /\ ~Awaited(req)
    /\ UNCHANGED <<gone, acked, clientVars>>

\* Wrong last sequence (10071).
Refuse(req) ==
    /\ req \in net
    /\ ~FenceHolds(req)
    /\ net' = net \ {req}
    /\ st' = IF Awaited(req) THEN [st EXCEPT ![req.by] = "refused"] ELSE st
    /\ UNCHANGED <<log, gone, acked, role, last, tail, want, try>>

\* Delete purges the run's subjects, whoever has it open.
Delete ==
    /\ Exists
    /\ Cardinality({i \in 1..gone : log[i].kind = "meta"}) < MaxDelete
    /\ gone' = Len(log)
    /\ UNCHANGED <<log, acked, net, clientVars>>

Next ==
    \/ \E h \in Handle :
          \/ CreateStart(h)
          \/ \E r \in {"runner", "supplier"} : OpenAtRest(h, r) \/ OpenPastHold(h, r)
          \/ \E k \in Kind, seq \in 1..MaxLog + 1 : AppendRecord(h, seq, k)
          \/ Retry(h)
          \/ Fail(h)
          \/ ReadBackAdopts(h)
          \/ ReadBackLoses(h)
          \/ ReadBackFails(h)
    \/ \E req \in net : StoreHeard(req) \/ StoreUnheard(req) \/ Refuse(req)
    \/ Delete

Spec == Init /\ [][Next]_vars

-----------------------------------------------------------------------------
(* Properties. *)

\* store.go's contract: a handle that was written past never writes again, a run's
\* records are numbered without gap, repetition or reordering, and an
\* acknowledgement names a stored record.  The fence in Append is what makes it so.
ImplementsRunJournal == RJ!Spec

\* An append that returned nil is in the stream as its caller wrote it, under the
\* handle's own nonce, and the handle's next fence is that record: adopting a
\* record on the read back (Append) must not take another writer's for its own.
AckedIsOwn ==
    \A h \in Handle :
        HasAppended(h) /\ st[h] \in {"idle", "waiting", "failed", "refused"} =>
            /\ tail[h] \in acked
            /\ log[tail[h]].by = h
            /\ log[tail[h]].seq = last[h]

\* A worker whose turn is the last thing in the journal.
InTurn(h) ==
    /\ role[h] \in {"creator", "runner"}
    /\ st[h] \in {"idle", "waiting", "failed", "refused"}
    /\ Exists
    /\ log[Len(log)].by = h
    /\ log[Len(log)].kind # "end"

\* Inside the hold, Open hands nobody a run with a turn in flight (Open, atRest):
\* a journal that reads as at rest is never one that its latest writer will add to
\* without a claim or a user record first.  Supplied answers do not hide the turn's
\* end and the turn's own tool_results do not pass for supplied answers.
RestMeansNoTurn == AtRest => ~\E h \in Handle : InTurn(h)
=============================================================================
