---------------------------- MODULE FileJournal -----------------------------
(***************************************************************************)
(* The file session backend (internal/runstate/file) for one run: a journal*)
(* of JSON lines, a lock file that is flocked for as long as a handle is   *)
(* open, and what crashes and deletes leave behind.  A step is one system  *)
(* call, so that another process, or a crash, may come between any two of  *)
(* them.  Delete asks nobody: it takes the journal and the lock file away  *)
(* whoever holds them or is about to.                                      *)
(*                                                                         *)
(* A handle that failed to write is only closed: the runner numbers its    *)
(* next record past the failed one, which CheckAppend refuses as a gap.    *)
(* A crash of its process and Close leave the same behind.                 *)
(***************************************************************************)
EXTENDS Naturals, Sequences, FiniteSets, SequencesExt

CONSTANTS
    Handle,         \* one for each Create and Open
    MaxLine,        \* bound: lines in all journals together
    MaxDelete,      \* bound: Delete comes while no more journal files than this were made
    MaxPowerLoss,   \* bound: how often the machine fails
    MayTear,        \* a write may stop half way
    EntriesSync     \* fsync of a new file makes its directory entry durable too

ASSUME BoundsAssumption == {MaxLine, MaxDelete, MaxPowerLoss} \subseteq Nat
ASSUME FilesystemAssumption == {MayTear, EntriesSync} \subseteq BOOLEAN

VARIABLES
    file,       \* every journal file there ever was, each a sequence of lines
    synced,     \* how many lines of each are on disk
    journal,    \* the file at journalPath, 0 for none
    entrySynced,\* its directory entry is on disk
    locks,      \* how many lock files there ever were
    lockFile,   \* the one at lockPath, 0 for none
    deleting,   \* Delete is between its two removals
    acked,      \* history: the records whose Append returned nil
    undercut,   \* history: Delete took the lock file from a process opening the run
    losses,     \* how often the machine has failed
    st,         \* h -> how far its handle is
    creator,    \* h -> it is Create's, fileJournal.dirCreated until the first Append
    lock,       \* h -> the lock file it has open, 0 for none
    own,        \* h -> the file it writes to
    last,       \* h -> fileJournal.lastSeq
    dirCreated  \* h -> fileJournal.dirCreated

diskVars == <<file, synced, journal, entrySynced, locks, lockFile, deleting, losses>>
handleVars == <<st, creator, lock, own, last, dirCreated>>
historyVars == <<acked, undercut>>
vars == <<diskVars, historyVars, handleVars>>

\* "found" is past Open's look for the journal, "reaching" has the lock file open and
\* not yet flocked, "reading" has the journal open and not yet read its last seq.
State == {"new", "found", "reaching", "locked", "reading",
          "idle", "written", "synced", "failed", "closed"}
Kind == {"meta", "record"}

\* A line is whole; a partial one has no newline and does not parse, an unended one
\* lacks nothing but the newline, and a joined one is what a write makes of either.
Form == {"whole", "partial", "unended", "joined"}

Line == [by : Handle, kind : Kind, seq : Nat, form : Form]

OnlyLastUnended(f) == \A i \in 1..Len(f) - 1 : f[i].form \in {"whole", "joined"}

TypeOK ==
    /\ file \in Seq(Seq(Line))
    /\ \A i \in DOMAIN file : OnlyLastUnended(file[i])
    /\ synced \in Seq(Nat)
    /\ Len(synced) = Len(file)
    /\ \A i \in DOMAIN file : synced[i] <= Len(file[i])
    /\ journal \in {0, Len(file)}
    /\ locks \in Nat
    /\ lockFile \in {0, locks}
    /\ {entrySynced, deleting, undercut} \subseteq BOOLEAN
    /\ acked \subseteq [by : Handle, seq : Nat]
    /\ losses \in 0..MaxPowerLoss
    /\ st \in [Handle -> State]
    /\ lock \in [Handle -> 0..locks]
    /\ own \in [Handle -> 0..Len(file)]
    /\ last \in [Handle -> Nat]
    /\ {creator, dirCreated} \subseteq [Handle -> BOOLEAN]

Init ==
    /\ file = << >>
    /\ synced = << >>
    /\ journal = 0
    /\ entrySynced = FALSE
    /\ locks = 0
    /\ lockFile = 0
    /\ deleting = FALSE
    /\ acked = {}
    /\ undercut = FALSE
    /\ losses = 0
    /\ st = [h \in Handle |-> "new"]
    /\ creator = [h \in Handle |-> FALSE]
    /\ lock = [h \in Handle |-> 0]
    /\ own = [h \in Handle |-> 0]
    /\ last = [h \in Handle |-> 0]
    /\ dirCreated = [h \in Handle |-> FALSE]

-----------------------------------------------------------------------------
(* readRecords. *)

Parses(line) == line.form \in {"whole", "unended"}

\* A line that does not parse is dropped at the end and is corruption before it.
Readable(f) == \A i \in 1..Len(f) - 1 : Parses(f[i])

Records(f) == SelectSeq(f, Parses)

LastSeq(f) == IF Records(f) = << >> THEN 0 ELSE Last(Records(f)).seq

\* The journal as another process finds it.
Current == IF journal = 0 THEN << >> ELSE file[journal]

\* O_APPEND: a line goes where the file ends, newline or not.
Put(f, line) ==
    IF f = << >> \/ Last(f).form \in {"whole", "joined"}
    THEN Append(f, line)
    ELSE Append(Front(f), [line EXCEPT !.form = IF @ = "whole" THEN "joined" ELSE "partial"])

-----------------------------------------------------------------------------
(* Create, Open and openJournal. *)

CreateStart(h) ==
    /\ st[h] = "new"
    /\ st' = [st EXCEPT ![h] = "found"]
    /\ creator' = [creator EXCEPT ![h] = TRUE]
    /\ UNCHANGED <<diskVars, historyVars, lock, own, last, dirCreated>>

\* Whoever opens a run has loaded it first, and Open looks for it once more.
OpenStart(h) ==
    /\ st[h] = "new"
    /\ Readable(Current)
    /\ Records(Current) # << >>
    /\ st' = [st EXCEPT ![h] = "found"]
    /\ UNCHANGED <<diskVars, historyVars, creator, lock, own, last, dirCreated>>

Closed(h) ==
    /\ st' = [st EXCEPT ![h] = "closed"]
    /\ lock' = [lock EXCEPT ![h] = 0]
    /\ own' = [own EXCEPT ![h] = 0]
    /\ last' = [last EXCEPT ![h] = 0]
    /\ dirCreated' = [dirCreated EXCEPT ![h] = FALSE]
    /\ creator' = [creator EXCEPT ![h] = FALSE]

LockedAlways(l) == FALSE

HasFlock(h) == st[h] \notin {"new", "found", "reaching", "closed"}

\* Somebody has flocked this lock file.
Locked(l) == \E h \in Handle : HasFlock(h) /\ lock[h] = l

\* acquireLock opens the lock file, and makes it when there is none,
OpenLock(h) ==
    /\ st[h] = "found"
    /\ lockFile' = IF lockFile = 0 THEN locks + 1 ELSE lockFile
    /\ locks' = IF lockFile = 0 THEN locks + 1 ELSE locks
    /\ st' = [st EXCEPT ![h] = "reaching"]
    /\ lock' = [lock EXCEPT ![h] = lockFile']
    /\ UNCHANGED <<file, synced, journal, entrySynced, deleting, losses>>
    /\ UNCHANGED <<historyVars, creator, own, last, dirCreated>>

\* and flocks what it opened, which need not be at lockPath any more.
AcquireLock(h) ==
    /\ st[h] = "reaching"
    /\ IF Locked(lock[h])
       THEN Closed(h)                       \* ErrLocked, or ErrExists for a creator
       ELSE /\ st' = [st EXCEPT ![h] = "locked"]
            /\ UNCHANGED <<creator, lock, own, last, dirCreated>>
    /\ UNCHANGED <<diskVars, historyVars>>

Opened(h, f) ==
    /\ st' = [st EXCEPT ![h] = "reading"]
    /\ own' = [own EXCEPT ![h] = f]
    /\ dirCreated' = [dirCreated EXCEPT ![h] = creator[h]]
    /\ UNCHANGED <<creator, lock, last>>

\* O_CREATE, for a creator with O_EXCL and for an opener whose journal was removed
\* since it looked.
OpenNewFile(h) ==
    /\ st[h] = "locked"
    /\ journal = 0
    /\ file' = Append(file, << >>)
    /\ synced' = Append(synced, 0)
    /\ journal' = Len(file) + 1
    /\ entrySynced' = FALSE
    /\ Opened(h, Len(file) + 1)
    /\ UNCHANGED <<locks, lockFile, deleting, losses, historyVars>>

OpenFile(h) ==
    /\ st[h] = "locked"
    /\ journal # 0
    /\ IF creator[h]
       THEN Closed(h)                       \* ErrExists
       ELSE Opened(h, journal)
    /\ UNCHANGED <<diskVars, historyVars>>

\* lastSeq reads what is at journalPath by now.
ReadLast(h) ==
    /\ st[h] = "reading"
    /\ IF journal = 0 \/ ~Readable(Current)
       THEN Closed(h)                       \* not there any more, ErrCorrupt
       ELSE /\ st' = [st EXCEPT ![h] = "idle"]
            /\ last' = [last EXCEPT ![h] = LastSeq(Current)]
            /\ UNCHANGED <<creator, lock, own, dirCreated>>
    /\ UNCHANGED <<diskVars, historyVars>>

-----------------------------------------------------------------------------
(* Append. *)

\* A creator's first record is the meta record and nobody else writes one.
KindOf(h) == IF creator[h] /\ last[h] = 0 THEN "meta" ELSE "record"

LineOf(h, form) == [by |-> h, kind |-> KindOf(h), seq |-> last[h] + 1, form |-> form]

Write(h) ==
    /\ st[h] = "idle"
    /\ Len(FlattenSeq(file)) < MaxLine
    /\ file' = [file EXCEPT ![own[h]] = Put(@, LineOf(h, "whole"))]
    /\ st' = [st EXCEPT ![h] = "written"]
    /\ UNCHANGED <<synced, journal, entrySynced, locks, lockFile, deleting, losses>>
    /\ UNCHANGED <<historyVars, creator, lock, own, last, dirCreated>>

\* The disk is full, or the process or the machine went away in the middle.
WriteTorn(h, form) ==
    /\ MayTear
    /\ st[h] = "idle"
    /\ Len(FlattenSeq(file)) < MaxLine
    /\ file' = [file EXCEPT ![own[h]] = Put(@, LineOf(h, form))]
    /\ st' = [st EXCEPT ![h] = "failed"]
    /\ UNCHANGED <<synced, journal, entrySynced, locks, lockFile, deleting, losses>>
    /\ UNCHANGED <<historyVars, creator, lock, own, last, dirCreated>>

\* Append returns nil, and only now does lastSeq advance.
Appended(h) ==
    /\ st' = [st EXCEPT ![h] = "idle"]
    /\ last' = [last EXCEPT ![h] = @ + 1]
    /\ dirCreated' = [dirCreated EXCEPT ![h] = FALSE]
    /\ acked' = acked \union {[by |-> h, seq |-> last[h] + 1]}
    /\ UNCHANGED <<undercut, creator, lock, own>>

SyncedNothing(h) == synced

\* The lines of its file that are on disk once h has synced it.
Synced(h) == [synced EXCEPT ![own[h]] = Len(file[own[h]])]

Sync(h) ==
    /\ st[h] = "written"
    /\ synced' = Synced(h)
    /\ entrySynced' = (entrySynced \/ (EntriesSync /\ own[h] = journal))
    /\ IF dirCreated[h]
       THEN /\ st' = [st EXCEPT ![h] = "synced"]
            /\ UNCHANGED <<historyVars, creator, lock, own, last, dirCreated>>
       ELSE Appended(h)
    /\ UNCHANGED <<file, journal, locks, lockFile, deleting, losses>>

SyncDir(h) ==
    /\ st[h] = "synced"
    /\ entrySynced' = TRUE
    /\ Appended(h)
    /\ UNCHANGED <<file, synced, journal, locks, lockFile, deleting, losses>>

\* The sync of the file or of the directory reports an error: the line is there and
\* its writer does not know.
SyncFails(h) ==
    /\ st[h] \in {"written", "synced"}
    /\ st' = [st EXCEPT ![h] = "failed"]
    /\ UNCHANGED <<diskVars, historyVars, creator, lock, own, last, dirCreated>>

-----------------------------------------------------------------------------
(* Close, crashes and Delete. *)

\* Close, or the process dies: the kernel drops its flock.
Stop(h) ==
    /\ st[h] \notin {"new", "closed"}
    /\ Closed(h)
    /\ UNCHANGED <<diskVars, historyVars>>

\* The machine fails.  What was synced stays, of the rest any beginning may, and a
\* line cut in the middle is as WriteTorn left it.  A file whose entry was not on
\* disk may be gone.
PowerLoss ==
    /\ losses < MaxPowerLoss
    /\ losses' = losses + 1
    /\ st' = [h \in Handle |-> IF st[h] = "new" THEN "new" ELSE "closed"]
    /\ lock' = [h \in Handle |-> 0]
    /\ own' = [h \in Handle |-> 0]
    /\ last' = [h \in Handle |-> 0]
    /\ dirCreated' = [h \in Handle |-> FALSE]
    /\ creator' = [h \in Handle |-> FALSE]
    /\ IF journal = 0
       THEN UNCHANGED <<file, synced, journal>>
       ELSE \/ /\ ~entrySynced
               /\ journal' = 0
               /\ file' = [file EXCEPT ![journal] = << >>]
               /\ synced' = [synced EXCEPT ![journal] = 0]
            \/ \E n \in synced[journal]..Len(Current) :
                  /\ file' = [file EXCEPT ![journal] = SubSeq(@, 1, n)]
                  /\ synced' = [synced EXCEPT ![journal] = n]
                  /\ UNCHANGED journal
    /\ UNCHANGED <<entrySynced, locks, lockFile, historyVars>>
    /\ deleting' = FALSE

\* Delete removes the journal and then the lock file, if they are there.  Whoever has either open keeps
\* what it has.
DeleteJournal ==
    /\ ~deleting                            \* bound: one Delete at a time
    /\ Len(file) <= MaxDelete
    /\ journal' = 0
    /\ deleting' = TRUE
    /\ UNCHANGED <<file, synced, entrySynced, locks, lockFile, losses, historyVars, handleVars>>

\* Has the lock file at lockPath open, and opens the journal next or has opened the one
\* that is there now.
Opening(h) == lock[h] # 0 /\ lock[h] = lockFile /\ own[h] \in {0, journal}

DeleteLock ==
    /\ deleting
    /\ lockFile' = 0
    /\ deleting' = FALSE
    /\ undercut' = (undercut \/ \E h \in Handle : Opening(h))
    /\ UNCHANGED <<file, synced, journal, entrySynced, locks, losses, acked, handleVars>>

Next ==
    \/ \E h \in Handle :
          \/ CreateStart(h)
          \/ OpenStart(h)
          \/ OpenLock(h)
          \/ AcquireLock(h)
          \/ OpenNewFile(h)
          \/ OpenFile(h)
          \/ ReadLast(h)
          \/ Write(h)
          \/ \E form \in {"partial", "unended"} : WriteTorn(h, form)
          \/ Sync(h)
          \/ SyncDir(h)
          \/ SyncFails(h)
          \/ Stop(h)
    \/ PowerLoss
    \/ DeleteJournal
    \/ DeleteLock

Spec == Init /\ [][Next]_vars

-----------------------------------------------------------------------------
(* Properties. *)

\* CheckHeld says that "while this journal is open no other process opened it" and so
\* asks nobody.  It is not so for a run that is being opened, or made anew, while Delete
\* is at work: Delete takes the lock file away from under whoever has it, and another
\* process then locks a new one and opens the same journal.
AloneWithJournal ==
    \A g, h \in Handle : own[g] # 0 /\ own[g] = own[h] => g = h

\* Nothing else gives a journal two holders: no crash or power loss, no opening or
\* creating in any order, and no Delete of a run that is open or at rest.
OneHolder == ~undercut => AloneWithJournal

Entries(f) ==
    [i \in DOMAIN Records(f) |->
        [by |-> Records(f)[i].by, kind |-> Records(f)[i].kind, seq |-> Records(f)[i].seq]]

\* What the journal contract knows of the disk: the records of every file there was,
\* those of all but the current one deleted.
AllEntries == FlattenSeq([i \in DOMAIN file |-> Entries(file[i])])

RJ == INSTANCE RunJournal WITH
    log   <- AllEntries,
    gone  <- Len(AllEntries) - Len(Records(Current)),
    acked <- {i \in DOMAIN AllEntries :
                 [by |-> AllEntries[i].by, seq |-> AllEntries[i].seq] \in acked}

\* No write went to the end of a line without a newline.
Intact == \A i \in DOMAIN file : \A j \in DOMAIN file[i] : file[i][j].form # "joined"

\* Nobody writes to a journal that Delete took away.
NoneWritesGone == \A h \in Handle : own[h] \in {0, journal}

Usable == Intact /\ NoneWritesGone /\ ~undercut

\* store.go's contract across crashes, failed syncs and power loss: one writer after
\* another, records numbered without gap, and an acknowledged record and all before it
\* there to be read ever after.  Left out are the steps behind a torn line that was
\* written behind, those while a process writes on to a journal that was deleted under
\* it, and those after a Delete undercut an opener.
ContractWhileUsable ==
    RJ!Init /\ [][Usable /\ Usable' => RJ!Next]_(RJ!journalVars)

\* validate.go and Append say that lastSeq advances only after the record is durably
\* stored, so that "a failed or torn write re-appends the same seq on retry rather than
\* silently losing it": what an Append acknowledged can be read.  It is not so behind a
\* torn line, which readers drop but nobody removes or ends.
AckedAreRead ==
    \A a \in acked :
        \E i \in DOMAIN Records(Current) :
            Records(Current)[i].by = a.by /\ Records(Current)[i].seq = a.seq
=============================================================================
