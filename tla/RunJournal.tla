----------------------------- MODULE RunJournal -----------------------------
(***************************************************************************)
(* What runstate.Store and runstate.Journal promise of one run's journal   *)
(* (internal/runstate/store.go), independent of the backend that keeps it. *)
(*                                                                         *)
(* A journal is an append-only log.  A handle is what one Create or Open   *)
(* returned.  Any handle may write until another one has written after it; *)
(* from then on it is superseded and never writes again.  Nothing promises *)
(* that only one handle is open: a holder that was slow finds out at its   *)
(* next append.  An append is acknowledged only once its record is stored, *)
(* and a record may be stored without its writer ever hearing of it.  Such *)
(* a record may be lost again, an acknowledged one and what is before it   *)
(* never.                                                                  *)
(*                                                                         *)
(* Delete removes every record stored so far.  The log keeps them, below   *)
(* "gone", so that positions stay what they were.                          *)
(***************************************************************************)
EXTENDS Naturals, Sequences

CONSTANTS
    Handle,     \* what Create and Open return, one for each call
    Kind        \* the kinds of record

VARIABLES
    log,        \* every record ever stored for the run, in the order stored
    gone,       \* the first so many of them were removed by Delete
    acked       \* the positions in log whose writer was told they are stored

journalVars == <<log, gone, acked>>

Entry == [by : Handle, kind : Kind, seq : Nat]

Stored == Len(log) > gone

\* h has written to the run, whether or not those records were deleted since.
HasWritten(h) == \E i \in 1..Len(log) : log[i].by = h

\* h has written and does not hold the run's tail any more.
Superseded(h) == HasWritten(h) /\ ~(Stored /\ log[Len(log)].by = h)

TypeOK ==
    /\ log \in Seq(Entry)
    /\ gone \in 0..Len(log)
    /\ acked \in SUBSET (1..Len(log))

Init ==
    /\ log = << >>
    /\ gone = 0
    /\ acked = {}

\* Records of a run are numbered from 1, without a gap or a repetition.
NextSeq == Len(log) - gone + 1

Store(h, k) ==
    /\ log' = Append(log, [by |-> h, kind |-> k, seq |-> NextSeq])
    /\ ~Superseded(h)
    /\ UNCHANGED <<gone, acked>>

Acknowledge(i) ==
    /\ i \in 1..Len(log)
    /\ acked' = acked \union {i}
    /\ UNCHANGED <<log, gone>>

\* The file backend tells its writer as it stores the record.
StoreAndAcknowledge(h, k) ==
    /\ log' = Append(log, [by |-> h, kind |-> k, seq |-> NextSeq])
    /\ ~Superseded(h)
    /\ acked' = acked \union {Len(log) + 1}
    /\ UNCHANGED gone

\* A machine that fails forgets what it had not synced.
Lose ==
    /\ \E n \in gone..Len(log) :
          /\ log' = SubSeq(log, 1, n)
          /\ \A i \in acked : i <= n
    /\ UNCHANGED <<gone, acked>>

Delete ==
    /\ gone' = Len(log)
    /\ UNCHANGED <<log, acked>>

Next ==
    \/ \E h \in Handle, k \in Kind : Store(h, k) \/ StoreAndAcknowledge(h, k)
    \/ \E i \in 1..Len(log) : Acknowledge(i)
    \/ Lose
    \/ Delete

Spec == Init /\ [][Next]_journalVars

-----------------------------------------------------------------------------
(* What a caller of the journal relies on. *)

\* The records of one handle are consecutive: a journal is the work of one
\* worker after another and never an interleaving of two.
Epochs ==
    \A i, j, k \in 1..Len(log) :
        i < j /\ j < k /\ log[i].by = log[k].by => log[j].by = log[i].by
=============================================================================
