------------------------------- MODULE McpTools ------------------------------
(***************************************************************************)
(* mcpclient.Sessions, one session for each configured MCP server shared   *)
(* by the runs of a process, and agent's liveMCPTools, which keeps the     *)
(* tools of a run in line with the lists of those servers.                 *)
(*                                                                         *)
(* The runs and, for each server, the goroutine that lists it again reach  *)
(* a server through Use, which replaces a session that has ended.  Close   *)
(* comes at any time.  The servers, what they offer and what they tell of  *)
(* it, are external.                                                       *)
(***************************************************************************)
EXTENDS Naturals, Sequences, FiniteSets, SequencesExt

CONSTANTS
    Configured,  \* the servers, in their order
    Run,         \* the runs that use the sessions
    Name, Def,   \* the names a tool may have once it has its alias, and its definitions
    Own,         \* the names of a run's other tools
    MaxChanges,  \* bound: changes to what the servers offer
    MaxFaults    \* bound: sessions that end and listings that fail by themselves

Server == ToSet(Configured)
None == "none"

\* Connect refuses a server that is configured more than once.
ASSUME ServerAssumption ==
    /\ Configured \in Seq(Server) /\ Configured # <<>>
    /\ \A i, j \in DOMAIN Configured : Configured[i] = Configured[j] => i = j
    /\ None \notin Run \union Server

\* What a server may offer: a definition for each of some names.
Lists == UNION {[ns -> Def] : ns \in SUBSET Name}
Nothing == [n \in {} |-> None]

VARIABLES
    offers,     \* s -> what it offers
    told,       \* s -> how many notifications its session has not handled
    conn,       \* s -> the session its entry holds: none, live or ended
    lock,       \* s -> who holds the entry's lock while it opens a session
    closed,     \* Sessions.closed
    closing,    \* s -> Close's goroutine for its entry
    connected,  \* Connect has returned the sessions
    use,        \* u -> how far its Use of a server is
    listeners,  \* the runs registered, in their order
    rebuilding, again, \* s -> the flags under its watchMu
    listing,    \* s -> the goroutine that lists it again
    run,        \* r -> the run
    changes, faults

servers == <<offers, told, changes>>
sessions == <<conn, lock, closed, closing, connected>>
watching == <<rebuilding, again, listing>>
vars == <<servers, sessions, use, listeners, watching, run, faults>>

User == Run \union Server
NoUse == [at |-> "no", server |-> None]
Quiet == [at |-> "idle", watchers |-> <<>>, failed |-> FALSE, list |-> Nothing]
NewRun == [at |-> "new", imported |-> 0, tools |-> [s \in Server |-> Nothing],
           skipped |-> [s \in Server |-> {}], claimed |-> Own]

TypeOK ==
    /\ offers \in [Server -> Lists] /\ told \in [Server -> 0 .. MaxChanges]
    /\ conn \in [Server -> {"none", "live", "ended"}]
    /\ lock \in [Server -> User \union {None}]
    /\ {closed, connected} \subseteq BOOLEAN /\ closing \in [Server -> {"no", "waiting", "done"}]
    /\ use \in [User -> [at : {"no", "checked", "opening", "got", "failed"},
                         server : Server \union {None}]]
    /\ listeners \in Seq(Run)
    /\ rebuilding \in [Server -> BOOLEAN] /\ again \in [Server -> BOOLEAN]
    /\ listing \in [Server -> [at : {"idle", "starting", "listing", "telling", "over"},
                               watchers : Seq(Run), failed : BOOLEAN, list : Lists]]
    /\ run \in [Run -> [at : {"new", "importing", "imported", "live", "ended"},
                        imported : 0 .. Len(Configured), tools : [Server -> Lists],
                        skipped : [Server -> SUBSET Name], claimed : SUBSET Name]]
    /\ changes \in 0 .. MaxChanges /\ faults \in 0 .. MaxFaults

Init ==
    /\ offers \in {[s \in Server |-> Nothing],
                   [s \in Server |-> IF s = Configured[1] THEN [n \in Name \ Own |-> CHOOSE d \in Def : TRUE]
                                     ELSE Nothing]}
    /\ told = [s \in Server |-> 0]
    /\ conn = [s \in Server |-> "none"] /\ lock = [s \in Server |-> None]
    /\ closed = FALSE /\ closing = [s \in Server |-> "no"] /\ connected = FALSE
    /\ use = [u \in User |-> NoUse]
    /\ listeners = <<>>
    /\ rebuilding = [s \in Server |-> FALSE] /\ again = rebuilding
    /\ listing = [s \in Server |-> Quiet]
    /\ run = [r \in Run |-> NewRun]
    /\ changes = 0 /\ faults = 0

-----------------------------------------------------------------------------
(* The servers. *)

\* A server whose session is live tells it that its list has changed.
ChangeList(s, list) ==
    /\ changes < MaxChanges /\ list # offers[s]
    /\ offers' = [offers EXCEPT ![s] = list]
    /\ told' = [told EXCEPT ![s] = IF conn[s] = "live" THEN @ + 1 ELSE @]
    /\ changes' = changes + 1
    /\ UNCHANGED <<sessions, use, listeners, watching, run, faults>>

\* Whoever uses the session of s is without it.
CutOff(s) == [u \in User |-> IF use[u] = [at |-> "got", server |-> s]
                             THEN [use[u] EXCEPT !.at = "failed"] ELSE use[u]]

SessionEnds(s) ==
    /\ conn[s] = "live" /\ connected /\ faults < MaxFaults
    /\ conn' = [conn EXCEPT ![s] = "ended"]
    /\ told' = [told EXCEPT ![s] = 0]
    /\ use' = CutOff(s)
    /\ faults' = faults + 1
    /\ UNCHANGED <<offers, changes, lock, closed, closing, connected, listeners, watching, run>>

-----------------------------------------------------------------------------
(* Sessions: Connect, Use and Close. *)

Opened == {s \in Server : conn[s] # "none"}

\* Connect opens them one after another.
ConnectNext ==
    /\ ~connected /\ ~closed
    /\ LET s == Configured[Cardinality(Opened) + 1] IN conn' = [conn EXCEPT ![s] = "live"]
    /\ connected' = (Cardinality(Opened) + 1 = Cardinality(Server))
    /\ UNCHANGED <<servers, lock, closed, closing, use, listeners, watching, run, faults>>

ConnectFails ==
    /\ ~connected /\ ~closed /\ faults < MaxFaults
    /\ closed' = TRUE /\ faults' = faults + 1
    /\ closing' = [s \in Server |-> IF s \in Opened THEN "waiting" ELSE "no"]
    /\ UNCHANGED <<servers, conn, lock, connected, use, listeners, watching, run>>

Close ==
    /\ connected /\ ~closed
    /\ closed' = TRUE
    /\ closing' = [s \in Server |-> "waiting"]
    /\ UNCHANGED <<servers, conn, lock, connected, use, listeners, watching, run, faults>>

CloseEntry(s) ==
    /\ closing[s] = "waiting" /\ lock[s] = None
    /\ conn' = [conn EXCEPT ![s] = "none"] /\ told' = [told EXCEPT ![s] = 0]
    /\ use' = CutOff(s)
    /\ closing' = [closing EXCEPT ![s] = "done"]
    /\ UNCHANGED <<offers, changes, lock, closed, connected, listeners, watching, run, faults>>

Using(u, at, s) == use' = [use EXCEPT ![u] = [at |-> at, server |-> s]]

\* live looks at closed, waits for the entry's lock, and looks again.  A session that
\* has just ended may be handed out once more, before its end is known.
Start(u, s) == Using(u, IF closed THEN "failed" ELSE "checked", s)

\* Mutant: it does not look again.
LookedBefore == FALSE
ClosedSince == closed

Enter(u) ==
    /\ use[u].at = "checked"
    /\ LET s == use[u].server IN
       /\ lock[s] = None
       /\ \/ ClosedSince /\ Using(u, "failed", s) /\ UNCHANGED <<conn, lock>>
          \/ ~ClosedSince /\ conn[s] = "ended" /\ Using(u, "failed", s) /\ UNCHANGED <<conn, lock>>
          \/ ~ClosedSince /\ conn[s] = "live" /\ Using(u, "got", s) /\ UNCHANGED <<conn, lock>>
          \/ /\ ~ClosedSince /\ conn[s] # "live"
             /\ conn' = [conn EXCEPT ![s] = "none"] /\ lock' = [lock EXCEPT ![s] = u]
             /\ Using(u, "opening", s)
    /\ UNCHANGED <<servers, closed, closing, connected, listeners, watching, run, faults>>

Open(u) ==
    /\ use[u].at = "opening"
    /\ LET s == use[u].server IN
       /\ lock' = [lock EXCEPT ![s] = None]
       /\ \/ /\ conn' = [conn EXCEPT ![s] = "live"]
             /\ Using(u, "got", s) /\ UNCHANGED faults
          \/ /\ faults < MaxFaults /\ faults' = faults + 1
             /\ Using(u, "failed", s) /\ UNCHANGED conn
    /\ UNCHANGED <<servers, closed, closing, connected, listeners, watching, run>>

\* What was to be done with the session fails by itself.
UseFails(u) ==
    /\ use[u].at = "got" /\ faults < MaxFaults
    /\ faults' = faults + 1
    /\ Using(u, "failed", use[u].server)
    /\ UNCHANGED <<servers, sessions, listeners, watching, run>>

Used(u) == use' = [use EXCEPT ![u] = NoUse]

-----------------------------------------------------------------------------
(* toolListChanged, and the goroutine that lists a server again. *)

\* Mutant: a notification that comes while the server is listed is dropped.
Dropped(s) == again[s]
Noted(s) == TRUE

Notification(s) ==
    /\ told[s] > 0
    /\ told' = [told EXCEPT ![s] = @ - 1]
    /\ IF rebuilding[s]
       THEN again' = [again EXCEPT ![s] = Noted(s)] /\ UNCHANGED <<rebuilding, listing>>
       ELSE /\ rebuilding' = [rebuilding EXCEPT ![s] = TRUE]
            /\ listing' = [listing EXCEPT ![s].at = "starting"] /\ UNCHANGED again
    /\ UNCHANGED <<offers, changes, sessions, use, listeners, run, faults>>

\* With nobody registered the server is not listed.
TakeWatchers(s) ==
    /\ listing[s].at = "starting"
    /\ IF listeners = <<>>
       THEN listing' = [listing EXCEPT ![s].at = "over"] /\ UNCHANGED use
       ELSE /\ listing' = [listing EXCEPT ![s].at = "listing", ![s].watchers = listeners]
            /\ Start(s, s)
    /\ UNCHANGED <<servers, sessions, listeners, rebuilding, again, run, faults>>

ListAgain(s) ==
    /\ listing[s].at = "listing" /\ use[s].at \in {"got", "failed"}
    /\ listing' = [listing EXCEPT ![s].at = "telling", ![s].failed = (use[s].at = "failed"),
                     ![s].list = IF use[s].at = "got" THEN offers[s] ELSE Nothing]
    /\ Used(s)
    /\ UNCHANGED <<servers, sessions, listeners, rebuilding, again, run, faults>>

Names(list) == DOMAIN list
Named(list, ns) == [n \in Names(list) \intersect ns |-> list[n]]

\* The names a server's tools have now are there for its new ones.
ClaimedByOthers(r, s) == run[r].claimed \ Names(run[r].tools[s])

\* changed: the server's tools are named anew, and published if any of them moved.
Changed(r, s, list) ==
    LET others == ClaimedByOthers(r, s)
        taken == Named(list, Name \ others)
        skips == Names(list) \intersect others
        moved == taken # run[r].tools[s] \/ ~(skips \subseteq run[r].skipped[s])
        claims == [run EXCEPT ![r].claimed = others \union Names(taken)]
    IN run' = IF moved THEN [claims EXCEPT ![r].tools[s] = taken, ![r].skipped[s] = skips] ELSE claims

\* A run that has ended is told too, and has nobody to use it.
Tell(s) ==
    /\ listing[s].at = "telling" /\ listing[s].watchers # <<>>
    /\ LET r == Head(listing[s].watchers) IN
       IF listing[s].failed \/ run[r].at = "ended" THEN UNCHANGED run ELSE Changed(r, s, listing[s].list)
    /\ listing' = [listing EXCEPT ![s].watchers = Tail(@)]
    /\ UNCHANGED <<servers, sessions, use, listeners, rebuilding, again, faults>>

EndTelling(s) ==
    /\ listing[s].at = "telling" /\ listing[s].watchers = <<>>
    /\ listing' = [listing EXCEPT ![s] = [Quiet EXCEPT !.at = "over"]]
    /\ UNCHANGED <<servers, sessions, use, listeners, rebuilding, again, run, faults>>

\* It lists once more if a notification came meanwhile.
EndListing(s) ==
    /\ listing[s].at = "over"
    /\ listing' = [listing EXCEPT ![s].at = IF again[s] THEN "starting" ELSE "idle"]
    /\ rebuilding' = [rebuilding EXCEPT ![s] = again[s]]
    /\ again' = [again EXCEPT ![s] = FALSE]
    /\ UNCHANGED <<servers, sessions, use, listeners, run, faults>>

-----------------------------------------------------------------------------
(* A run: it imports every server, registers, calls tools and ends. *)

StartRun(r) ==
    /\ connected /\ run[r].at = "new"
    /\ run' = [run EXCEPT ![r].at = "importing"]
    /\ UNCHANGED <<servers, sessions, use, listeners, watching, faults>>

Importing(r) == Configured[run[r].imported + 1]

ImportNext(r) ==
    /\ run[r].at = "importing" /\ use[r] = NoUse
    /\ Start(r, Importing(r))
    /\ UNCHANGED <<servers, sessions, listeners, watching, run, faults>>

\* Mutant: a name another server's tool has is given again.
ClashesWithOwn(r, list) == Names(list) \intersect Own # {}
Clashes(r, list) == Names(list) \intersect run[r].claimed # {}

\* A list that fails, or a name that is taken, is the end of a run that starts.
Imported(r) ==
    /\ run[r].at = "importing" /\ use[r].at \in {"got", "failed"}
    /\ Used(r)
    /\ LET s == Importing(r) IN
       IF use[r].at = "failed" \/ Clashes(r, offers[s]) THEN run' = [run EXCEPT ![r].at = "ended"]
       ELSE run' = [run EXCEPT ![r].tools[s] = offers[s], ![r].imported = @ + 1,
                               ![r].claimed = @ \union Names(offers[s]),
                               ![r].at = IF run[r].imported + 1 = Len(Configured) THEN "imported" ELSE @]
    /\ UNCHANGED <<servers, sessions, listeners, watching, faults>>

Register(r) ==
    /\ run[r].at = "imported"
    /\ run' = [run EXCEPT ![r].at = "live"]
    /\ listeners' = Append(listeners, r)
    /\ UNCHANGED <<servers, sessions, use, watching, faults>>

StartCall(r, s) ==
    /\ run[r].at = "live" /\ use[r] = NoUse /\ Names(run[r].tools[s]) # {}
    /\ Start(r, s)
    /\ UNCHANGED <<servers, sessions, listeners, watching, run, faults>>

EndCall(r) ==
    /\ run[r].at = "live" /\ use[r].at \in {"got", "failed"}
    /\ Used(r)
    /\ UNCHANGED <<servers, sessions, listeners, watching, run, faults>>

EndRun(r) ==
    /\ run[r].at = "live" /\ use[r] = NoUse
    /\ run' = [run EXCEPT ![r].at = "ended"]
    /\ \E i \in DOMAIN listeners : listeners[i] = r /\ listeners' = RemoveAt(listeners, i)
    /\ UNCHANGED <<servers, sessions, use, watching, faults>>

-----------------------------------------------------------------------------
Sessions == ConnectNext \/ ConnectFails \/ Close \/ \E s \in Server : CloseEntry(s)
Uses(u) == Enter(u) \/ Open(u)
Listing(s) == Notification(s) \/ TakeWatchers(s) \/ ListAgain(s) \/ Tell(s) \/ EndTelling(s) \/ EndListing(s)
Running(r) ==
    \/ StartRun(r) \/ ImportNext(r) \/ Imported(r) \/ Register(r) \/ EndCall(r) \/ EndRun(r)
    \/ \E s \in Server : StartCall(r, s)

Next ==
    \/ Sessions
    \/ \E s \in Server : Listing(s) \/ SessionEnds(s) \/ \E list \in Lists : ChangeList(s, list)
    \/ \E u \in User : Uses(u) \/ UseFails(u)
    \/ \E r \in Run : Running(r)

\* Goroutines go on, and what is opened, listed or closed comes to an end.  A lock that
\* is let go is not kept from who waits for it.
Fairness ==
    /\ \A s \in Server : WF_vars(Listing(s)) /\ WF_vars(CloseEntry(s))
    /\ \A s \in Server : SF_vars(Enter(s)) /\ WF_vars(Open(s))
    /\ \A r \in Run : SF_vars(Enter(r)) /\ WF_vars(Open(r)) /\ WF_vars(EndCall(r))

Spec == Init /\ [][Next]_vars /\ Fairness

-----------------------------------------------------------------------------
(* Correctness. *)

\* The model has one tool behind each name it is offered, and a run's claimed names are
\* those its tools have (mcplive.go 176-213), whatever lists came in which order.
OneToolAName ==
    \A r \in Run : run[r].at = "live" =>
        /\ run[r].claimed = Own \union UNION {Names(run[r].tools[s]) : s \in Server}
        /\ \A s \in Server :
              /\ Names(run[r].tools[s]) \intersect Own = {}
              /\ \A t \in Server \ {s} : Names(run[r].tools[s]) \intersect Names(run[r].tools[t]) = {}

\* No session outlives Close (mcpclient.go 337-339): once it has been through an entry,
\* the entry holds none and nobody opens one in it.
NoSessionLeft ==
    \A s \in Server : closing[s] = "done" => conn[s] = "none" /\ lock[s] = None

\* The run's tools are those the server offers now, but for names others have.
Follows(r, s) ==
    /\ \A n \in Names(run[r].tools[s]) : n \in Names(offers[s]) /\ offers[s][n] = run[r].tools[s][n]
    /\ Names(offers[s]) \subseteq Names(run[r].tools[s]) \union run[r].skipped[s]

\* A run that is registered when a notification comes has the server's tools as they are
\* in the end (mcpclient.go 605-632), unless the listing fails or the session ends.
Latest ==
    \A r \in Run, s \in Server :
        run[r].at = "live" /\ told[s] > 0 ~>
            Follows(r, s) \/ run[r].at = "ended" \/ conn[s] # "live" \/ listing[s].failed

\* What the comment of OnToolListChanged says (mcpclient.go 568-570): nothing is lost by
\* not listing a server while no run is registered.  A run between its import and its
\* registration is not told.
NothingLost ==
    \A r \in Run, s \in Server :
        (run[r].at = "live" /\ told[s] = 0 /\ ~rebuilding[s] /\ faults = 0 /\ ~closed) => Follows(r, s)
=============================================================================
