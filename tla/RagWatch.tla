------------------------------- MODULE RagWatch ------------------------------
(***************************************************************************)
(* rag.Watcher: a loop that hears of changed files, waits for them to      *)
(* settle and has one index pass at a time bring the index into line.  A   *)
(* pass walks every file there is and then removes the documents of the    *)
(* paths it was told are gone.  Another process may hold the writer lock.  *)
(*                                                                         *)
(* A file is its content or Gone.  Of the directories one below a root is  *)
(* kept, which may be moved away with what is in it, and be made again.    *)
(* The file system and its notifications are external.                     *)
(***************************************************************************)
EXTENDS Naturals, Sequences, FiniteSets

CONSTANTS
    File,        \* the files that may be there
    Inside,      \* those of them in the directory
    Content,     \* what may be in a file
    Reconcile,   \* the first pass removes what it does not find
    MaxChanges,  \* bound: changes to the files and to the directory
    MaxFaults    \* bound: passes that fail by themselves, locks taken by another

Gone == "gone"
Dir == "dir"      \* the directory's own path
Store == "store"  \* what the index keeps beside the files
None == "none"
Path == File \union {Dir}

VARIABLES
    disk,      \* f -> its content
    there,     \* the directory is
    watched,   \* and is watched
    events,    \* what w.fsw.Events has for the loop
    changes,   \* how many changes were made
    phase,     \* Run is in its first pass, before its watches, in loop, or has returned
    deletes,   \* deletes and prefixes: the paths the loop knows to be gone
    armed,     \* the debounce timer runs
    dirty,     \* it ran out during a pass
    pass,      \* the pass that runs
    index,     \* f -> the content its document was made of
    locked,    \* another writer has the index
    failed,    \* the last pass to end failed by itself
    faults

files == <<disk, there, watched, events, changes>>
loop == <<phase, deletes, armed, dirty>>
others == <<locked, faults>>
vars == <<files, loop, pass, index, failed, others>>

NoPass == [at |-> "none", unlisted |-> FALSE, todo |-> {}, seen |-> {}, read |-> <<>>,
           gone |-> {}, sure |-> None]

TypeOK ==
    /\ disk \in [File -> Content \union {Gone}] /\ index \in [File -> Content \union {Gone}]
    /\ {there, watched, armed, dirty, locked, failed} \subseteq BOOLEAN
    /\ events \in Seq([path : Path \union {Store}, op : {"put", "gone"}])
    /\ phase \in {"first", "starting", "loop", "returned"}
    /\ deletes \subseteq Path
    /\ pass \in [at : {"none", "opening", "walking", "deleting", "ok", "locked", "failed"},
                 unlisted : BOOLEAN, todo : SUBSET File, seen : SUBSET File,
                 read : (File \X Content) \union {<<>>},
                 gone : SUBSET Path, sure : Path \union {None}]
    /\ changes \in 0 .. MaxChanges /\ faults \in 0 .. MaxFaults

\* Run begins, with or without a first pass, on the index an earlier one left.
Init ==
    /\ disk = [f \in File |-> CHOOSE c \in Content : TRUE]
    /\ index = disk
    /\ there = TRUE /\ watched = FALSE /\ events = <<>> /\ changes = 0
    /\ \/ phase = "first" /\ pass = [NoPass EXCEPT !.at = "opening"]
       \/ phase = "starting" /\ pass = NoPass
    /\ deletes = {} /\ armed = FALSE /\ dirty = FALSE
    /\ failed = FALSE /\ locked = FALSE /\ faults = 0

Alive == phase # "returned"

-----------------------------------------------------------------------------
(* The files. *)

\* A change is told of when its directory is watched.
Tell(path, op, seen) ==
    events' = IF seen THEN Append(events, [path |-> path, op |-> op]) ELSE events

Watched(f) == IF f \in Inside THEN watched ELSE phase = "loop"

Change ==
    /\ changes < MaxChanges /\ changes' = changes + 1
    /\ UNCHANGED <<loop, pass, index, failed, others>>

WriteFile(f, c) ==
    /\ f \in Inside => there
    /\ disk[f] # c
    /\ disk' = [disk EXCEPT ![f] = c]
    /\ Tell(f, "put", Watched(f))
    /\ UNCHANGED <<there, watched>>
    /\ Change

RemoveFile(f) ==
    /\ disk[f] # Gone
    /\ disk' = [disk EXCEPT ![f] = Gone]
    /\ Tell(f, "gone", Watched(f))
    /\ UNCHANGED <<there, watched>>
    /\ Change

\* One event for the directory, and none for what is in it.
MoveDirAway ==
    /\ there
    /\ there' = FALSE /\ watched' = FALSE
    /\ disk' = [f \in File |-> IF f \in Inside THEN Gone ELSE disk[f]]
    /\ Tell(Dir, "gone", phase = "loop")
    /\ Change

MakeDir ==
    /\ ~there
    /\ there' = TRUE
    /\ Tell(Dir, "put", phase = "loop")
    /\ UNCHANGED <<disk, watched>>
    /\ Change

TakeLock ==
    /\ ~locked /\ pass.at \in {"none", "opening", "ok", "locked", "failed"} /\ faults < MaxFaults
    /\ locked' = TRUE /\ faults' = faults + 1
    /\ UNCHANGED <<files, loop, pass, index, failed>>

DropLock ==
    /\ locked
    /\ locked' = FALSE
    /\ UNCHANGED <<files, loop, pass, index, failed, faults>>

-----------------------------------------------------------------------------
(* The loop. *)

AddWatches ==
    /\ phase = "starting"
    /\ phase' = "loop" /\ watched' = there
    /\ UNCHANGED <<disk, there, events, changes, deletes, armed, dirty, pass, index,
                   failed, others>>

FilesUnder(paths) == {f \in File : f \in paths \/ (f \in Inside /\ Dir \in paths)}

\* Mutant: what the index writes is a change.
HeedsAll(e) == TRUE
Heeds(e) == e.path # Store

\* A directory that is gone again when the loop hears of it starts nothing.
Fires(e) == e.path = Dir /\ e.op = "put" => there

\* handleEvent: a path that is put is not gone any more.
HandleEvent ==
    /\ phase = "loop" /\ events # <<>>
    /\ events' = Tail(events)
    /\ LET e == Head(events) IN
       IF ~Heeds(e) THEN UNCHANGED <<watched, deletes, armed>>
       ELSE /\ deletes' = IF e.op = "put" THEN deletes \ {e.path} ELSE deletes \union {e.path}
            /\ watched' = IF e.path = Dir /\ e.op = "put" /\ there THEN TRUE ELSE watched
            /\ armed' = (armed \/ Fires(e))
    /\ UNCHANGED <<disk, there, changes, phase, dirty, pass, index, failed, others>>

\* Mutant: what changed during a pass waits for the next change.
ForgetChange == dirty
NoteChange == TRUE

\* The timer runs out while a pass runs.
TimerDuringPass ==
    /\ phase = "loop" /\ armed /\ pass.at # "none"
    /\ armed' = FALSE /\ dirty' = NoteChange
    /\ UNCHANGED <<files, phase, deletes, pass, index, failed, others>>

StartPass ==
    /\ phase = "loop" /\ armed /\ pass.at = "none"
    /\ armed' = FALSE /\ deletes' = {}
    /\ pass' = [NoPass EXCEPT !.at = "opening", !.gone = deletes]
    /\ UNCHANGED <<files, phase, dirty, index, failed, others>>

\* Mutant: a pass that found the index locked is not tried again.
NoRetry == dirty
Again == dirty \/ pass.at = "locked"

\* A pass is done: what it was told to remove and did not is forgotten, and it is
\* followed by another if the timer ran out or it found the index locked.
EndPass ==
    /\ phase = "loop" /\ pass.at \in {"ok", "locked", "failed"}
    /\ pass' = NoPass
    /\ failed' = (pass.at = "failed")
    /\ armed' = (armed \/ Again) /\ dirty' = FALSE
    /\ UNCHANGED <<files, phase, deletes, index, others>>

\* A first pass that fails, or finds the index locked, is the end of Run.
EndFirst ==
    /\ phase = "first" /\ pass.at \in {"ok", "locked", "failed"}
    /\ phase' = IF pass.at = "ok" THEN "starting" ELSE "returned"
    /\ pass' = NoPass
    /\ UNCHANGED <<files, deletes, armed, dirty, index, failed, others>>

Cancel ==
    /\ Alive
    /\ phase' = "returned"
    /\ pass' = NoPass
    /\ UNCHANGED <<files, deletes, armed, dirty, index, failed, others>>

-----------------------------------------------------------------------------
(* A pass: indexOnce and Index. *)

Passing(p) == pass' = p /\ UNCHANGED <<loop, failed, others>>
Reading(p) == Passing(p) /\ UNCHANGED <<files, index>>

Writing(p, i) == Passing(p) /\ index' = i /\ UNCHANGED files

FindLocked == pass.at = "opening" /\ locked /\ Reading([pass EXCEPT !.at = "locked"])

Found(fs) == {f \in fs : disk[f] # Gone}

\* Opening writes the store's own files.  The walk lists a directory when it comes to
\* it; what comes to be there later it does not see.
OpenIndex ==
    /\ pass.at = "opening" /\ ~locked
    /\ Tell(Store, "put", phase = "loop")
    /\ UNCHANGED <<disk, there, watched, changes, index>>
    /\ Passing([pass EXCEPT !.at = "walking", !.unlisted = there, !.todo = Found(File \ Inside)])

ListDir ==
    /\ pass.at = "walking" /\ pass.read = <<>> /\ pass.unlisted
    /\ Reading(IF there THEN [pass EXCEPT !.unlisted = FALSE, !.todo = @ \union Found(Inside)]
               ELSE [pass EXCEPT !.at = "failed"])

\* A file that was listed and is gone fails the pass.
ReadFile(f) ==
    /\ pass.at = "walking" /\ pass.read = <<>> /\ f \in pass.todo
    /\ Reading(IF disk[f] = Gone THEN [pass EXCEPT !.at = "failed"]
               ELSE [pass EXCEPT !.read = <<f, disk[f]>>, !.todo = @ \ {f}, !.seen = @ \union {f}])

PassFails ==
    /\ pass.at \in {"walking", "deleting"} /\ faults < MaxFaults
    /\ faults' = faults + 1
    /\ pass' = [pass EXCEPT !.at = "failed"]
    /\ UNCHANGED <<files, loop, index, failed, locked>>

\* A document made of what the file holds is left alone.
Ingest ==
    /\ pass.at = "walking" /\ pass.read # <<>>
    /\ Writing([pass EXCEPT !.read = <<>>], [index EXCEPT ![pass.read[1]] = pass.read[2]])

\* The walk is over; the first pass removes what it did not see, if it saw anything.
EndWalk ==
    /\ pass.at = "walking" /\ pass.read = <<>> /\ ~pass.unlisted /\ pass.todo = {}
    /\ Writing([pass EXCEPT !.at = IF pass.gone = {} THEN "ok" ELSE "deleting"],
               IF phase = "first" /\ Reconcile /\ pass.seen # {}
               THEN [f \in File |-> IF f \in pass.seen THEN index[f] ELSE Gone] ELSE index)

There(path) == IF path = Dir THEN there ELSE disk[path] # Gone

\* A path that is back keeps its documents.
LookAt(path) ==
    /\ pass.at = "deleting" /\ pass.sure = None /\ path \in pass.gone
    /\ pass' = IF There(path) THEN [pass EXCEPT !.gone = @ \ {path}] ELSE [pass EXCEPT !.sure = path]
    /\ UNCHANGED <<files, loop, index, failed, others>>

\* Mutant: of a directory only its own path.
OnlyItself(path) == {path}
Documents(path) == FilesUnder({path})

DeleteDocuments ==
    /\ pass.at = "deleting" /\ pass.sure # None
    /\ Writing([pass EXCEPT !.sure = None, !.gone = @ \ {pass.sure}],
               [f \in File |-> IF f \in Documents(pass.sure) THEN Gone ELSE index[f]])

EndDeletes ==
    /\ pass.at = "deleting" /\ pass.gone = {}
    /\ Reading([pass EXCEPT !.at = "ok"])

-----------------------------------------------------------------------------
Disk ==
    \/ \E f \in File : RemoveFile(f) \/ \E c \in Content : WriteFile(f, c)
    \/ MoveDirAway \/ MakeDir \/ TakeLock

Loop == AddWatches \/ HandleEvent \/ TimerDuringPass \/ StartPass \/ EndPass \/ EndFirst

Pass ==
    \/ FindLocked \/ OpenIndex \/ ListDir \/ Ingest \/ EndWalk \/ DeleteDocuments \/ EndDeletes
    \/ \E f \in File : ReadFile(f)
    \/ \E path \in Path : LookAt(path)

Next == Disk \/ DropLock \/ Loop \/ Pass \/ PassFails \/ Cancel

\* The loop and its pass go on by themselves, and another writer comes to an end.  The
\* select of the loop serves each of its cases in the end.
Fairness ==
    /\ WF_vars(DropLock) /\ WF_vars(Pass)
    /\ WF_vars(AddWatches) /\ WF_vars(HandleEvent) /\ WF_vars(TimerDuringPass \/ StartPass)
    /\ WF_vars(EndPass \/ EndFirst)

Spec == Init /\ [][Next]_vars /\ Fairness

-----------------------------------------------------------------------------
(* Correctness. *)

\* Once the loop has heard of anything, every file that is there comes to be indexed as
\* it is (watch.go 294-369), whatever changes during a pass or removes documents behind
\* it, unless the last pass failed by itself.
Told == phase = "loop" /\ (events # <<>> \/ armed)

LiveIsIndexed ==
    \A f \in File, c \in Content :
        Told /\ disk[f] = c ~> index[f] = c \/ disk[f] # c \/ failed \/ ~Alive

\* A file the loop heard is gone loses its document (indexOnce, watch.go 436-473), for
\* all that is changed, made again or moved away meanwhile.  The loop forgets what it heard
\* as it starts the pass, so there are three ways a document stays: the pass fails by
\* itself, it finds the index locked, or the directory the file was heard to have gone with
\* is there again without it.
GoneIsRemoved ==
    \A f \in File :
        f \in FilesUnder(deletes) /\ disk[f] = Gone ~>
            \/ index[f] = Gone \/ disk[f] # Gone \/ ~Alive
            \/ failed \/ pass.at = "locked" \/ (f \in Inside /\ there)

\* The warning of a locked index is "another knowledge writer is running; will retry"
\* (watch.go 358): what the loop heard is gone comes out of the index all the same.  It does
\* not; the next pass is not told of it.
WillRetry ==
    \A f \in File :
        pass.at = "locked" /\ f \in FilesUnder(pass.gone) /\ disk[f] = Gone ~>
            index[f] = Gone \/ disk[f] # Gone \/ failed \/ ~Alive

\* The watcher comes to rest: what its own passes write is no change to it (watch.go
\* 383-387), and a locked index is not tried for ever.
Settles == <>[](~Alive \/ (pass.at = "none" /\ ~armed /\ events = <<>>))
=============================================================================
