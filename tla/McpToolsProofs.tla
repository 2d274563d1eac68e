--------------------------- MODULE McpToolsProofs ---------------------------
(***************************************************************************)
(* No session with an MCP server outlives Close, and a run has one tool    *)
(* behind each name, for any servers, any runs and whatever lists they are *)
(* in the middle of.                                                       *)
(***************************************************************************)
EXTENDS McpTools, TLAPS

\* The shapes of what the sessions are used through; an import has a server to go to.
ShapeInv ==
    /\ DOMAIN conn = Server /\ DOMAIN lock = Server /\ DOMAIN closing = Server
    /\ DOMAIN use = User /\ DOMAIN run = Run
    /\ \A u \in User :
        /\ DOMAIN use[u] = {"at", "server"}
        /\ use[u].at # "no" => use[u].server \in Server
    /\ \A r \in Run :
        /\ DOMAIN run[r] = {"at", "imported", "tools", "skipped", "claimed"}
        /\ run[r].imported \in Nat
        /\ run[r].at = "new" => run[r].imported = 0
        /\ run[r].at = "importing" => run[r].imported < Len(Configured)

\* Whoever opens a session holds the entry's lock, which Close waits for; and nobody
\* begins to once the sessions are closed.
EntryInv ==
    /\ \A s \in Server : closing[s] # "no" => closed
    /\ NoSessionLeft
    /\ \A u \in User : use[u].at = "opening" => lock[use[u].server] = u

SessionInv == ShapeInv /\ EntryInv

\* There are servers, and nobody who uses them is None.
LEMMA ServerFacts ==
  /\ Len(Configured) \in Nat /\ Len(Configured) > 0
  /\ \A i \in 1 .. Len(Configured) : Configured[i] \in Server
  /\ Run \subseteq User /\ Server \subseteq User /\ None \notin User
  BY ServerAssumption DEF Server, ToSet, User

\* A run's step that leaves the sessions alone, or starts or ends its use of one.
LEMMA UseSteps ==
  ASSUME SessionInv, NEW u \in User, NEW at \in {"no", "checked", "got", "failed"}, NEW s,
         at # "no" => s \in Server,
         Using(u, at, s), UNCHANGED sessions, ShapeInv' \/ UNCHANGED run
  PROVE  SessionInv'
<1> USE DEF SessionInv, ShapeInv, EntryInv, NoSessionLeft, sessions
<1>1. ShapeInv'
  BY DEF Using
<1>2. EntryInv'
  BY DEF Using
<1> QED BY <1>1, <1>2

\* A step that leaves the sessions and their use alone.
LEMMA AsideSteps ==
  ASSUME SessionInv, UNCHANGED <<sessions, use>>, ShapeInv' \/ UNCHANGED run
  PROVE  SessionInv'
  BY DEF SessionInv, ShapeInv, EntryInv, NoSessionLeft, sessions

\* Every step keeps the sessions in order.
LEMMA SessionsKept == Spec => []SessionInv
<1> USE ServerFacts
<1>1. Init => SessionInv
  <2> SUFFICES ASSUME Init
               PROVE  SessionInv
    OBVIOUS
  <2>1. ShapeInv
    BY DEF Init, ShapeInv, NoUse, NewRun
  <2>2. EntryInv
    BY DEF Init, EntryInv, NoSessionLeft, NoUse
  <2> QED BY <2>1, <2>2 DEF SessionInv
<1>2. SessionInv /\ [Next]_vars => SessionInv'
  <2> SUFFICES ASSUME SessionInv, [Next]_vars
               PROVE  SessionInv'
    OBVIOUS
  <2>a. ASSUME NEW s \in Server, use' = CutOff(s) PROVE
          /\ DOMAIN use' = User
          /\ \A u \in User : /\ DOMAIN use'[u] = {"at", "server"}
                             /\ use'[u].server = use[u].server
                             /\ use'[u].at = use[u].at \/ (use[u].at = "got" /\ use'[u].at = "failed")
    <3>1. ASSUME NEW u \in User
          PROVE  /\ DOMAIN use'[u] = {"at", "server"}
                 /\ use'[u].server = use[u].server
                 /\ use'[u].at = use[u].at \/ (use[u].at = "got" /\ use'[u].at = "failed")
      <4>1. CASE use[u] = [at |-> "got", server |-> s]
        <5>1. use'[u] = [use[u] EXCEPT !.at = "failed"]
          BY <2>a, <4>1 DEF CutOff
        <5>2. use[u].at = "got" /\ DOMAIN use[u] = {"at", "server"}
          BY <4>1
        <5> QED BY <5>1, <5>2
      <4>2. CASE use[u] # [at |-> "got", server |-> s]
        BY <2>a, <4>2 DEF CutOff, SessionInv, ShapeInv
      <4> QED BY <4>1, <4>2
    <3> QED BY <2>a, <3>1 DEF CutOff
  <2>b. ASSUME NEW u \in User, NEW s \in Server, Start(u, s), UNCHANGED sessions, ShapeInv' \/ UNCHANGED run
        PROVE  SessionInv'
    <3>1. CASE closed
      BY <2>b, <3>1, UseSteps DEF Start
    <3>2. CASE ~closed
      BY <2>b, <3>2, UseSteps DEF Start
    <3> QED BY <3>1, <3>2
  <2>c. ASSUME NEW u \in User, Used(u), UNCHANGED sessions, ShapeInv' \/ UNCHANGED run
        PROVE  SessionInv'
    <3>1. Using(u, "no", None)
      BY <2>c DEF Used, Using, NoUse
    <3> QED BY <2>c, <3>1, UseSteps
  <2>1. ASSUME NEW s \in Server, SessionEnds(s) PROVE SessionInv'
    BY <2>1, <2>a DEF SessionEnds, SessionInv, ShapeInv, EntryInv, NoSessionLeft
  <2>2. CASE ConnectNext
    BY <2>2 DEF ConnectNext, SessionInv, ShapeInv, EntryInv, NoSessionLeft
  <2>3. CASE ConnectFails \/ Close
    BY <2>3 DEF ConnectFails, Close, SessionInv, ShapeInv, EntryInv, NoSessionLeft
  <2>4. ASSUME NEW s \in Server, CloseEntry(s) PROVE SessionInv'
    BY <2>4, <2>a DEF CloseEntry, SessionInv, ShapeInv, EntryInv, NoSessionLeft
  <2>5. ASSUME NEW u \in User, Enter(u) PROVE SessionInv'
    <3> DEFINE s == use[u].server
    <3>1. s \in Server /\ lock[s] = None /\ use[u].at = "checked" /\ UNCHANGED <<closed, closing, run>>
      BY <2>5 DEF Enter, SessionInv, ShapeInv
    <3>2. CASE Using(u, "failed", s) /\ UNCHANGED <<conn, lock>>
      BY <2>5, <3>1, <3>2, UseSteps DEF Enter, sessions
    <3>3. CASE Using(u, "got", s) /\ UNCHANGED <<conn, lock>>
      BY <2>5, <3>1, <3>3, UseSteps DEF Enter, sessions
    <3>4. CASE /\ ~closed
               /\ conn' = [conn EXCEPT ![s] = "none"] /\ lock' = [lock EXCEPT ![s] = u]
               /\ Using(u, "opening", s)
      <4>1. \A t \in Server : closing[t] = "no"
        BY <3>4 DEF SessionInv, EntryInv
      <4>2. use' = [use EXCEPT ![u] = [at |-> "opening", server |-> s]]
        BY <3>4 DEF Using
      <4>3. ShapeInv'
        BY <3>1, <3>4, <4>2 DEF SessionInv, ShapeInv
      <4>4. \A v \in User : use'[v].at = "opening" => lock'[use'[v].server] = v
        BY <3>1, <3>4, <4>2 DEF SessionInv, ShapeInv, EntryInv
      <4> QED BY <3>1, <4>1, <4>3, <4>4 DEF SessionInv, EntryInv, NoSessionLeft
    <3> QED BY <2>5, <3>2, <3>3, <3>4 DEF Enter, ClosedSince
  <2>6. ASSUME NEW u \in User, Open(u) PROVE SessionInv'
    <3> DEFINE s == use[u].server
    <3>1. /\ s \in Server /\ lock[s] = u /\ lock' = [lock EXCEPT ![s] = None]
          /\ UNCHANGED <<closed, closing, run>>
          /\ conn' = conn \/ conn' = [conn EXCEPT ![s] = "live"]
      BY <2>6 DEF Open, SessionInv, ShapeInv, EntryInv
    <3>2. PICK at \in {"got", "failed"} : use' = [use EXCEPT ![u] = [at |-> at, server |-> s]]
      BY <2>6 DEF Open, Using
    <3>3. closing[s] # "done"
      BY <3>1 DEF SessionInv, EntryInv, NoSessionLeft
    <3>4. ShapeInv'
      BY <3>1, <3>2 DEF SessionInv, ShapeInv
    <3>5. NoSessionLeft'
      BY <3>1, <3>3 DEF SessionInv, ShapeInv, EntryInv, NoSessionLeft
    <3>6. \A v \in User : use'[v].at = "opening" => lock'[use'[v].server] = v
      BY <3>1, <3>2 DEF SessionInv, ShapeInv, EntryInv
    <3> QED BY <3>1, <3>4, <3>5, <3>6 DEF SessionInv, EntryInv
  <2>7. ASSUME NEW u \in User, UseFails(u) PROVE SessionInv'
    <3>1. use[u].server \in Server
      BY <2>7 DEF UseFails, SessionInv, ShapeInv
    <3> QED BY <2>7, <3>1, UseSteps DEF UseFails
  <2>8. ASSUME NEW s \in Server, Notification(s) \/ EndTelling(s) \/ EndListing(s) PROVE SessionInv'
    BY <2>8, AsideSteps DEF Notification, EndTelling, EndListing
  <2>9. ASSUME NEW s \in Server, NEW list, ChangeList(s, list) PROVE SessionInv'
    BY <2>9, AsideSteps DEF ChangeList
  <2>10. ASSUME NEW s \in Server, TakeWatchers(s) PROVE SessionInv'
    BY <2>10, <2>b, AsideSteps DEF TakeWatchers
  <2>11. ASSUME NEW s \in Server, ListAgain(s) PROVE SessionInv'
    BY <2>11, <2>c DEF ListAgain
  <2>d. ASSUME NEW r, DOMAIN run' = Run, \A q \in Run \ {r} : run'[q] = run[q],
               r \in Run =>
                 /\ DOMAIN run'[r] = DOMAIN run[r]
                 /\ \/ run'[r].at = run[r].at /\ run'[r].imported = run[r].imported
                    \/ run[r].at = "new" /\ run'[r].at = "importing" /\ run'[r].imported = run[r].imported
                    \/ run'[r].at = "imported" /\ run'[r].imported = run[r].imported + 1
                    \/ run'[r].at \in {"live", "ended"} /\ run'[r].imported = run[r].imported
                    \/ /\ run[r].at = "importing" /\ run'[r].at = "importing"
                       /\ run[r].imported + 1 # Len(Configured)
                       /\ run'[r].imported = run[r].imported + 1,
               UNCHANGED <<conn, lock, closing>>,
               DOMAIN use' = User,
               \A u \in User : DOMAIN use'[u] = {"at", "server"} /\ (use'[u].at # "no" => use'[u].server \in Server)
        PROVE  ShapeInv'
    BY <2>d DEF SessionInv, ShapeInv
  <2>e. ASSUME NEW r, DOMAIN run' = Run, \A q \in Run \ {r} : run'[q] = run[q],
               UNCHANGED <<sessions, use>>,
               r \in Run =>
                 /\ DOMAIN run'[r] = DOMAIN run[r]
                 /\ \/ run'[r].at = run[r].at
                    \/ run[r].at = "new" /\ run'[r].at = "importing"
                    \/ run'[r].at \in {"live", "ended"}
                 /\ run'[r].imported = run[r].imported
        PROVE  SessionInv'
    <3>2. /\ UNCHANGED <<conn, lock, closing>> /\ DOMAIN use' = User
          /\ \A u \in User : DOMAIN use'[u] = {"at", "server"} /\ (use'[u].at # "no" => use'[u].server \in Server)
      BY <2>e DEF SessionInv, ShapeInv, sessions
    <3>3. ShapeInv'
      BY <2>d, <2>e, <3>2
    <3> QED BY <2>e, <3>3, AsideSteps
  <2>12. ASSUME NEW s \in Server, Tell(s) PROVE SessionInv'
    <3> DEFINE r == Head(listing[s].watchers)
    <3>1. UNCHANGED <<sessions, use>>
      BY <2>12 DEF Tell
    <3>2. CASE UNCHANGED run
      BY <3>1, <3>2, AsideSteps
    <3>3. CASE Changed(r, s, listing[s].list)
      <4> DEFINE others == ClaimedByOthers(r, s)
                 taken == Named(listing[s].list, Name \ others)
                 skips == Names(listing[s].list) \intersect others
                 claimed == others \union Names(taken)
                 claims == [run EXCEPT ![r].claimed = claimed]
      <4>1. run' = claims \/ run' = [claims EXCEPT ![r].tools[s] = taken, ![r].skipped[s] = skips]
        BY <3>3 DEF Changed
      <4> HIDE DEF r, others, taken, skips, claimed
      <4>2. /\ DOMAIN claims = Run /\ (\A q \in Run \ {r} : claims[q] = run[q])
            /\ r \in Run => /\ DOMAIN claims[r] = DOMAIN run[r] /\ claims[r].at = run[r].at
                            /\ claims[r].imported = run[r].imported
        BY DEF SessionInv, ShapeInv
      <4> HIDE DEF claims
      <4>3. /\ DOMAIN run' = Run /\ (\A q \in Run \ {r} : run'[q] = run[q])
            /\ r \in Run => /\ DOMAIN run'[r] = DOMAIN run[r] /\ run'[r].at = run[r].at
                            /\ run'[r].imported = run[r].imported
        BY <4>1, <4>2 DEF SessionInv, ShapeInv
      <4> QED BY <3>1, <4>3, <2>e
    <3> QED BY <2>12, <3>2, <3>3 DEF Tell
  <2>13. ASSUME NEW r \in Run, StartRun(r) \/ Register(r) \/ EndRun(r) PROVE SessionInv'
    <3>1. PICK at \in {"importing", "live", "ended"} :
            run' = [run EXCEPT ![r].at = at] /\ (at = "importing" => run[r].at = "new")
      BY <2>13 DEF StartRun, Register, EndRun
    <3>2. UNCHANGED <<sessions, use>>
      BY <2>13 DEF StartRun, Register, EndRun
    <3>3. /\ DOMAIN run' = Run /\ (\A q \in Run \ {r} : run'[q] = run[q])
          /\ DOMAIN run'[r] = DOMAIN run[r] /\ run'[r].at = at /\ run'[r].imported = run[r].imported
      BY <3>1 DEF SessionInv, ShapeInv
    <3> QED BY <2>e, <3>1, <3>2, <3>3
  <2>14. ASSUME NEW r \in Run, ImportNext(r) PROVE SessionInv'
    <3>1. Importing(r) \in Server
      BY <2>14 DEF ImportNext, Importing, SessionInv, ShapeInv
    <3> QED BY <2>14, <2>b, <3>1 DEF ImportNext
  <2>15. ASSUME NEW r \in Run, Imported(r) PROVE SessionInv'
    <3>1. run[r].at = "importing" /\ Used(r) /\ UNCHANGED sessions
      BY <2>15 DEF Imported
    <3>2. /\ DOMAIN use' = User /\ UNCHANGED <<conn, lock, closing>>
          /\ \A u \in User : DOMAIN use'[u] = {"at", "server"} /\ (use'[u].at # "no" => use'[u].server \in Server)
      BY <3>1 DEF Used, NoUse, SessionInv, ShapeInv, sessions
    <3>3. ShapeInv'
      <4> DEFINE s == Importing(r)
                 at == IF run[r].imported + 1 = Len(Configured) THEN "imported" ELSE run[r].at
      <4>1. \/ run' = [run EXCEPT ![r].at = "ended"]
            \/ run' = [run EXCEPT ![r].tools[s] = offers[s], ![r].imported = @ + 1,
                                  ![r].claimed = @ \union Names(offers[s]), ![r].at = at]
        BY <2>15 DEF Imported
      <4>2. at = "imported" \/ (at = "importing" /\ run[r].imported + 1 # Len(Configured))
        BY <3>1
      <4> HIDE DEF s, at
      <4>3. /\ DOMAIN run' = Run /\ (\A q \in Run \ {r} : run'[q] = run[q])
            /\ DOMAIN run'[r] = DOMAIN run[r]
            /\ \/ run'[r].at = "ended" /\ run'[r].imported = run[r].imported
               \/ run'[r].at = at /\ run'[r].imported = run[r].imported + 1
        BY <4>1 DEF SessionInv, ShapeInv
      <4>4. CASE run'[r].at = "ended" /\ run'[r].imported = run[r].imported
        BY <2>d, <3>2, <4>3, <4>4
      <4>5. CASE run'[r].at = at /\ run'[r].imported = run[r].imported + 1
        BY <2>d, <3>1, <3>2, <4>2, <4>3, <4>5
      <4> QED BY <4>3, <4>4, <4>5
    <3> QED BY <2>c, <3>1, <3>3
  <2>16. ASSUME NEW r \in Run, NEW s \in Server, StartCall(r, s) PROVE SessionInv'
    BY <2>16, <2>b DEF StartCall
  <2>17. ASSUME NEW r \in Run, EndCall(r) PROVE SessionInv'
    BY <2>17, <2>c DEF EndCall
  <2>18. CASE UNCHANGED vars
    BY <2>18, AsideSteps DEF vars
  <2> QED
    BY <2>1, <2>2, <2>3, <2>4, <2>5, <2>6, <2>7, <2>8, <2>9, <2>10, <2>11, <2>12, <2>13, <2>14, <2>15,
       <2>16, <2>17, <2>18
    DEF Next, Sessions, Listing, Uses, Running
<1> QED
  BY <1>1, <1>2, PTL DEF Spec

\* No session outlives Close: once it has been through an entry, the entry holds none and
\* nobody opens one in it.
THEOREM AllClosed == Spec => []NoSessionLeft
<1>1. SessionInv => NoSessionLeft
  BY DEF SessionInv, EntryInv
<1> QED
  BY <1>1, SessionsKept, PTL

-----------------------------------------------------------------------------
(* The tools of a run. *)

\* The names claimed are a run's own and those of its servers' tools, each given once.
GivenOnce(tools, claimed) ==
    /\ claimed = Own \union UNION {Names(tools[s]) : s \in Server}
    /\ \A s \in Server :
          /\ Names(tools[s]) \intersect Own = {}
          /\ \A t \in Server \ {s} : Names(tools[s]) \intersect Names(tools[t]) = {}

\* Only a run that has all its tools, or has ended, is told of a list.
Registered == {r \in Run : run[r].at \in {"live", "ended"}}

ToldInv ==
    /\ listeners \in Seq(Registered)
    /\ DOMAIN listing = Server
    /\ \A s \in Server :
        /\ DOMAIN listing[s] = {"at", "watchers", "failed", "list"}
        /\ listing[s].watchers \in Seq(Registered)

\* What a run has yet to import has no tools, so that an import replaces none.
ToolsInv ==
    \A r \in Run :
        /\ DOMAIN run[r].tools = Server
        /\ run[r].at # "ended" => GivenOnce(run[r].tools, run[r].claimed)
        /\ run[r].at \in {"new", "importing"} =>
              \A i \in DOMAIN Configured : i > run[r].imported => Names(run[r].tools[Configured[i]]) = {}

NamesInv == ToldInv /\ ToolsInv

\* A server's tools named anew: the names it had are free for them, those of others are not.
LEMMA NamedAnew ==
  ASSUME NEW tools, NEW claimed, NEW s \in Server, GivenOnce(tools, claimed),
         NEW after, \A t \in Server \ {s} : after[t] = tools[t],
         Names(after[s]) \intersect (claimed \ Names(tools[s])) = {}
  PROVE  GivenOnce(after, (claimed \ Names(tools[s])) \union Names(after[s]))
<1> DEFINE others == claimed \ Names(tools[s])
<1>1. others = Own \union UNION {Names(tools[t]) : t \in Server \ {s}}
  BY DEF GivenOnce
<1>2. others \union Names(after[s]) = Own \union UNION {Names(after[t]) : t \in Server}
  BY <1>1
<1>3. \A t \in Server : Names(after[t]) \intersect Own = {}
  BY <1>1 DEF GivenOnce
<1>4. \A t \in Server \ {s} : Names(after[s]) \intersect Names(tools[t]) = {}
  BY <1>1
<1>5. ASSUME NEW t \in Server, NEW u \in Server \ {t} PROVE Names(after[t]) \intersect Names(after[u]) = {}
  <2>1. CASE t = s
    BY <2>1, <1>4
  <2>2. CASE u = s
    BY <2>2, <1>4
  <2>3. CASE t # s /\ u # s
    BY <2>3 DEF GivenOnce
  <2> QED BY <2>1, <2>2, <2>3
<1>6. GivenOnce(after, others \union Names(after[s]))
  <2> HIDE DEF others
  <2> QED BY <1>2, <1>3, <1>5 DEF GivenOnce
<1> QED BY <1>6

\* A step that registers no run: those being told of a list are as before, or fewer, or
\* those that are registered.
LEMMA TellingSteps ==
  ASSUME ToldInv, Registered \subseteq Registered', UNCHANGED listeners,
         DOMAIN listing' = Server,
         \A s \in Server :
           /\ DOMAIN listing'[s] = {"at", "watchers", "failed", "list"}
           /\ \/ listing'[s].watchers \in {listing[s].watchers, listeners, <<>>}
              \/ listing[s].watchers # <<>> /\ listing'[s].watchers = Tail(listing[s].watchers)
  PROVE  ToldInv'
<1>1. ASSUME NEW l \in Seq(Registered) PROVE l \in Seq(Registered')
  BY <1>1
<1>2. ASSUME NEW s \in Server PROVE listing'[s].watchers \in Seq(Registered')
  <2>1. listing[s].watchers \in Seq(Registered) /\ listeners \in Seq(Registered)
    BY DEF ToldInv
  <2>2. CASE listing'[s].watchers \in {listing[s].watchers, listeners, <<>>}
    <3>1. CASE listing'[s].watchers = listing[s].watchers
      BY <1>1, <2>1, <3>1
    <3>2. CASE listing'[s].watchers = listeners
      BY <1>1, <2>1, <3>2
    <3>3. CASE listing'[s].watchers = <<>>
      BY <3>3
    <3> QED BY <2>2, <3>1, <3>2, <3>3
  <2>3. CASE listing[s].watchers # <<>> /\ listing'[s].watchers = Tail(listing[s].watchers)
    <3>1. Tail(listing[s].watchers) \in Seq(Registered)
      BY <2>1, <2>3
    <3> QED BY <1>1, <2>3, <3>1
  <2> QED BY <2>2, <2>3
<1>3. listeners' \in Seq(Registered')
  BY <1>1 DEF ToldInv
<1> QED BY <1>2, <1>3 DEF ToldInv

\* A run's step that leaves its tools alone.
LEMMA GoesOn ==
  ASSUME ShapeInv, ToolsInv, NEW r \in Run, NEW at,
         \/ run[r].at = "new" /\ at = "importing"
         \/ run[r].at = "imported" /\ at = "live"
         \/ at = "ended",
         run' = [run EXCEPT ![r].at = at]
  PROVE  ToolsInv' /\ Registered \subseteq Registered'
<1>1. \A q \in Run : /\ run'[q].tools = run[q].tools /\ run'[q].claimed = run[q].claimed
                     /\ run'[q].imported = run[q].imported
  BY DEF ShapeInv
<1>2. run'[r].at = at /\ \A q \in Run \ {r} : run'[q].at = run[q].at
  BY DEF ShapeInv
<1>3. Registered \subseteq Registered'
  BY <1>2 DEF Registered
<1> QED BY <1>1, <1>2, <1>3 DEF ToolsInv

\* A run is told of a list: it has all its tools, and names those of the server anew.
LEMMA ChangedNames ==
  ASSUME ShapeInv, ToolsInv, NEW r \in Registered, NEW s \in Server, NEW list,
         run[r].at # "ended", Changed(r, s, list)
  PROVE  ToolsInv' /\ Registered \subseteq Registered'
<1> DEFINE others == ClaimedByOthers(r, s)
           taken == Named(list, Name \ others)
           skips == Names(list) \intersect others
           claimed == others \union Names(taken)
           claims == [run EXCEPT ![r].claimed = claimed]
<1>1. r \in Run /\ run[r].at = "live"
  BY DEF Registered
<1>2. \/ run' = claims /\ taken = run[r].tools[s]
      \/ run' = [claims EXCEPT ![r].tools[s] = taken, ![r].skipped[s] = skips]
  BY DEF Changed
<1>3. Names(taken) \intersect others = {}
  BY DEF Named, Names
<1>4. others = run[r].claimed \ Names(run[r].tools[s])
  BY DEF ClaimedByOthers
<1> HIDE DEF others, taken, skips
<1>5. /\ DOMAIN run[r].tools = Server
      /\ GivenOnce(run[r].tools, run[r].claimed)
      /\ DOMAIN run[r] = {"at", "imported", "tools", "skipped", "claimed"}
      /\ DOMAIN run = Run
  BY <1>1 DEF ToolsInv, ShapeInv
<1>6. /\ DOMAIN claims = Run /\ \A q \in Run \ {r} : claims[q] = run[q]
      /\ DOMAIN claims[r] = DOMAIN run[r] /\ claims[r].at = run[r].at
      /\ claims[r].tools = run[r].tools /\ claims[r].claimed = claimed
  BY <1>1, <1>5
<1> HIDE DEF claims, claimed
<1>7. /\ \A q \in Run \ {r} : run'[q] = run[q]
      /\ run'[r].at = "live" /\ run'[r].claimed = claimed
      /\ DOMAIN run'[r].tools = Server /\ run'[r].tools[s] = taken
      /\ \A t \in Server \ {s} : run'[r].tools[t] = run[r].tools[t]
  <2>1. CASE run' = claims /\ taken = run[r].tools[s]
    BY <1>1, <1>5, <1>6, <2>1
  <2>2. CASE run' = [claims EXCEPT ![r].tools[s] = taken, ![r].skipped[s] = skips]
    <3>1. run'[r].tools = [claims[r].tools EXCEPT ![s] = taken]
      BY <1>1, <1>5, <1>6, <2>2
    <3>2. run'[r].at = claims[r].at /\ run'[r].claimed = claims[r].claimed
      BY <1>1, <1>5, <1>6, <2>2
    <3>3. \A q \in Run \ {r} : run'[q] = claims[q]
      BY <1>6, <2>2
    <3> QED BY <1>1, <1>5, <1>6, <3>1, <3>2, <3>3
  <2> QED BY <1>2, <2>1, <2>2
<1>8. GivenOnce(run'[r].tools, run'[r].claimed)
  <2>1. GivenOnce(run'[r].tools, (run[r].claimed \ Names(run[r].tools[s])) \union Names(run'[r].tools[s]))
    BY <1>3, <1>4, <1>5, <1>7, NamedAnew
  <2> QED BY <1>4, <1>7, <2>1 DEF claimed
<1>9. Registered \subseteq Registered'
  BY <1>1, <1>7 DEF Registered
<1> QED BY <1>7, <1>8, <1>9 DEF ToolsInv

\* A run imports a server's list: none of its names is claimed, and the server had none.
LEMMA ImportedNames ==
  ASSUME ShapeInv, ToolsInv, NEW r \in Run, Imported(r)
  PROVE  ToolsInv' /\ Registered \subseteq Registered'
<1> DEFINE s == Importing(r)
           list == offers[s]
           at == IF run[r].imported + 1 = Len(Configured) THEN "imported" ELSE run[r].at
<1>1. /\ run[r].at = "importing" /\ run[r].imported \in Nat /\ run[r].imported < Len(Configured)
      /\ DOMAIN run[r].tools = Server /\ GivenOnce(run[r].tools, run[r].claimed)
      /\ DOMAIN run[r] = {"at", "imported", "tools", "skipped", "claimed"}
      /\ DOMAIN run = Run
  BY DEF Imported, ToolsInv, ShapeInv
<1>2. run[r].imported + 1 \in DOMAIN Configured /\ s = Configured[run[r].imported + 1] /\ s \in Server
  BY <1>1, ServerFacts, ServerAssumption DEF Importing
<1>3. Names(run[r].tools[s]) = {}
  <2>1. run[r].imported + 1 > run[r].imported
    BY <1>1
  <2>2. \A i \in DOMAIN Configured : i > run[r].imported => Names(run[r].tools[Configured[i]]) = {}
    BY <1>1 DEF ToolsInv
  <2> HIDE DEF s
  <2> QED BY <1>2, <2>1, <2>2
<1>4. CASE run' = [run EXCEPT ![r].at = "ended"]
  BY <1>4, GoesOn
<1>5. CASE /\ ~Clashes(r, list)
           /\ run' = [run EXCEPT ![r].tools[s] = list, ![r].imported = @ + 1,
                                 ![r].claimed = @ \union Names(list), ![r].at = at]
  <2>1. at \in {"imported", "importing"}
    BY <1>1
  <2>2. Names(list) \intersect (run[r].claimed \ Names(run[r].tools[s])) = {}
    BY <1>5 DEF Clashes
  <2>3. run[r].claimed \ Names(run[r].tools[s]) = run[r].claimed
    BY <1>3
  <2> HIDE DEF s, list, at
  <2>4. /\ \A q \in Run \ {r} : run'[q] = run[q]
        /\ run'[r].at = at /\ run'[r].imported = run[r].imported + 1
        /\ run'[r].claimed = run[r].claimed \union Names(list)
        /\ DOMAIN run'[r].tools = Server /\ run'[r].tools[s] = list
        /\ \A t \in Server \ {s} : run'[r].tools[t] = run[r].tools[t]
    BY <1>1, <1>2, <1>5
  <2>5. GivenOnce(run'[r].tools, run'[r].claimed)
    <3>1. GivenOnce(run'[r].tools, (run[r].claimed \ Names(run[r].tools[s])) \union Names(run'[r].tools[s]))
      BY <1>1, <1>2, <2>2, <2>4, NamedAnew
    <3> QED BY <2>3, <2>4, <3>1
  <2>6. ASSUME NEW i \in DOMAIN Configured, i > run[r].imported + 1
        PROVE  Names(run'[r].tools[Configured[i]]) = {}
    <3>1. i \in Nat /\ i > run[r].imported /\ i # run[r].imported + 1
      BY <1>1, <2>6, ServerAssumption
    <3>2. Configured[i] # s
      BY <1>2, <3>1, ServerAssumption
    <3>3. Configured[i] \in Server
      BY ServerAssumption
    <3>4. Names(run[r].tools[Configured[i]]) = {}
      BY <1>1, <3>1 DEF ToolsInv
    <3>5. run'[r].tools[Configured[i]] = run[r].tools[Configured[i]]
      BY <1>1, <2>4, <3>2, <3>3
    <3> QED BY <3>4, <3>5
  <2>7. Registered \subseteq Registered'
    BY <1>1, <2>4 DEF Registered
  <2>8. ASSUME NEW i \in DOMAIN Configured, i > run'[r].imported
        PROVE  Names(run'[r].tools[Configured[i]]) = {}
    BY <2>4, <2>6, <2>8
  <2>9. ASSUME NEW q \in Run \ {r}
        PROVE  /\ DOMAIN run'[q].tools = Server
               /\ run'[q].at # "ended" => GivenOnce(run'[q].tools, run'[q].claimed)
               /\ run'[q].at \in {"new", "importing"} =>
                     \A i \in DOMAIN Configured : i > run'[q].imported => Names(run'[q].tools[Configured[i]]) = {}
    <3>1. run'[q] = run[q]
      BY <2>4
    <3> QED BY <3>1 DEF ToolsInv
  <2>10. ToolsInv'
    BY <2>4, <2>5, <2>8, <2>9 DEF ToolsInv
  <2> QED BY <2>7, <2>10
<1>6. \/ run' = [run EXCEPT ![r].at = "ended"]
      \/ /\ ~Clashes(r, list)
         /\ run' = [run EXCEPT ![r].tools[s] = list, ![r].imported = @ + 1,
                               ![r].claimed = @ \union Names(list), ![r].at = at]
  BY DEF Imported
<1> QED BY <1>4, <1>5, <1>6

\* The model has one tool behind each name it is offered, and a run's claimed names are
\* those its tools have, whatever lists come in whatever order.
THEOREM OneToolEachName == Spec => []OneToolAName
<1>1. Init => NamesInv
  <2> SUFFICES ASSUME Init
               PROVE  NamesInv
    OBVIOUS
  <2>1. ToldInv
    <3>1. <<>> \in Seq(Registered)
      OBVIOUS
    <3>2. listeners = <<>> /\ listing = [s \in Server |-> Quiet]
      BY DEF Init
    <3>3. DOMAIN Quiet = {"at", "watchers", "failed", "list"} /\ Quiet.watchers = <<>>
      BY DEF Quiet
    <3> QED BY <3>1, <3>2, <3>3 DEF ToldInv
  <2>2. ASSUME NEW r \in Run
        PROVE  /\ DOMAIN run[r].tools = Server
               /\ GivenOnce(run[r].tools, run[r].claimed)
               /\ \A i \in DOMAIN Configured : Names(run[r].tools[Configured[i]]) = {}
    <3>1. run[r].claimed = Own /\ run[r].tools = [s \in Server |-> Nothing]
      BY DEF Init, NewRun
    <3>2. Names(Nothing) = {}
      BY DEF Nothing, Names
    <3>3. \A s \in Server : Names(run[r].tools[s]) = {}
      BY <3>1, <3>2
    <3>4. \A i \in DOMAIN Configured : Configured[i] \in Server
      BY ServerAssumption
    <3> QED BY <3>1, <3>3, <3>4 DEF GivenOnce
  <2> QED BY <2>1, <2>2 DEF NamesInv, ToolsInv
<1>2. ShapeInv /\ NamesInv /\ [Next]_vars => NamesInv'
  <2> SUFFICES ASSUME ShapeInv, NamesInv, [Next]_vars
               PROVE  NamesInv'
    OBVIOUS
  <2> USE DEF NamesInv
  <2>a. ASSUME UNCHANGED <<listeners, listing>>, ToolsInv', Registered \subseteq Registered' PROVE NamesInv'
    BY <2>a, TellingSteps DEF ToldInv
  <2>b. ASSUME UNCHANGED run PROVE ToolsInv' /\ Registered \subseteq Registered'
    BY <2>b DEF ToolsInv, Registered
  <2>c. ASSUME UNCHANGED <<run, listeners, listing>> PROVE NamesInv'
    BY <2>a, <2>b, <2>c
  <2>1. CASE Sessions
    BY <2>1, <2>c DEF Sessions, ConnectNext, ConnectFails, Close, CloseEntry, watching
  <2>2. ASSUME NEW s \in Server, NEW list, ChangeList(s, list) \/ SessionEnds(s) PROVE NamesInv'
    BY <2>2, <2>c DEF ChangeList, SessionEnds, watching
  <2>3. ASSUME NEW u \in User, Uses(u) \/ UseFails(u) PROVE NamesInv'
    BY <2>3, <2>c DEF Uses, Enter, Open, UseFails, watching
  <2>4. ASSUME NEW s \in Server,
               Notification(s) \/ TakeWatchers(s) \/ ListAgain(s) \/ EndTelling(s) \/ EndListing(s)
        PROVE  NamesInv'
    <3>1. UNCHANGED <<run, listeners>>
      BY <2>4 DEF Notification, TakeWatchers, ListAgain, EndTelling, EndListing
    <3>2. /\ DOMAIN listing' = Server
          /\ \A t \in Server : DOMAIN listing'[t] = {"at", "watchers", "failed", "list"}
      BY <2>4 DEF Notification, TakeWatchers, ListAgain, EndTelling, EndListing, ToldInv, Quiet
    <3>3. \A t \in Server : listing'[t].watchers \in {listing[t].watchers, listeners, <<>>}
      <4>1. CASE Notification(s)
        BY <4>1 DEF Notification, ToldInv
      <4>2. CASE TakeWatchers(s)
        <5>1. \/ listing' = [listing EXCEPT ![s].at = "over"]
              \/ listing' = [listing EXCEPT ![s].at = "listing", ![s].watchers = listeners]
          BY <4>2 DEF TakeWatchers
        <5>2. \A t \in Server \ {s} : listing'[t].watchers = listing[t].watchers
          BY <5>1 DEF ToldInv
        <5>3. listing'[s].watchers \in {listing[s].watchers, listeners}
          BY <5>1 DEF ToldInv
        <5> QED BY <5>2, <5>3
      <4>3. CASE ListAgain(s)
        <5> DEFINE failed == use[s].at = "failed"
                   list == IF use[s].at = "got" THEN offers[s] ELSE Nothing
        <5>1. listing' = [listing EXCEPT ![s].at = "telling", ![s].failed = failed, ![s].list = list]
          BY <4>3 DEF ListAgain
        <5> HIDE DEF failed, list
        <5> QED BY <5>1 DEF ToldInv
      <4>4. CASE EndTelling(s)
        <5>1. listing' = [listing EXCEPT ![s] = [Quiet EXCEPT !.at = "over"]]
          BY <4>4 DEF EndTelling
        <5>2. [Quiet EXCEPT !.at = "over"].watchers = <<>>
          BY DEF Quiet
        <5> QED BY <5>1, <5>2 DEF ToldInv
      <4>5. CASE EndListing(s)
        BY <4>5 DEF EndListing, ToldInv
      <4> QED BY <2>4, <4>1, <4>2, <4>3, <4>4, <4>5
    <3> QED BY <2>b, <3>1, <3>2, <3>3, TellingSteps
  <2>5. ASSUME NEW s \in Server, Tell(s) PROVE NamesInv'
    <3> DEFINE r == Head(listing[s].watchers)
    <3>1. /\ listing[s].watchers # <<>> /\ UNCHANGED listeners
          /\ listing' = [listing EXCEPT ![s].watchers = Tail(@)]
      BY <2>5 DEF Tell
    <3>2. r \in Registered
      BY <3>1 DEF ToldInv
    <3>3. UNCHANGED run \/ (run[r].at # "ended" /\ Changed(r, s, listing[s].list))
      BY <2>5 DEF Tell
    <3>4. ToolsInv' /\ Registered \subseteq Registered'
      <4> HIDE DEF r
      <4> QED BY <2>b, <3>2, <3>3, ChangedNames
    <3>5. /\ DOMAIN listing' = Server
          /\ \A t \in Server : DOMAIN listing'[t] = {"at", "watchers", "failed", "list"}
          /\ \A t \in Server \ {s} : listing'[t].watchers = listing[t].watchers
          /\ listing'[s].watchers = Tail(listing[s].watchers)
      BY <3>1 DEF ToldInv
    <3>6. ToldInv'
      BY <3>1, <3>4, <3>5, TellingSteps
    <3> QED BY <3>4, <3>6
  <2>6. ASSUME NEW r \in Run, StartRun(r) PROVE NamesInv'
    BY <2>6, <2>a, GoesOn DEF StartRun, watching
  <2>7. ASSUME NEW r \in Run, ImportNext(r) \/ EndCall(r) PROVE NamesInv'
    BY <2>7, <2>c DEF ImportNext, EndCall, watching
  <2>8. ASSUME NEW r \in Run, Imported(r) PROVE NamesInv'
    BY <2>8, <2>a, ImportedNames DEF Imported, watching
  <2>9. ASSUME NEW r \in Run, Register(r) PROVE NamesInv'
    <3>1. ToolsInv' /\ Registered \subseteq Registered'
      BY <2>9, GoesOn DEF Register
    <3>2. r \in Registered'
      BY <2>9 DEF Register, Registered, ShapeInv
    <3>3. \A l \in Seq(Registered) : l \in Seq(Registered')
      BY <3>1
    <3>4. listeners' \in Seq(Registered')
      <4>1. listeners \in Seq(Registered') /\ listeners' = Append(listeners, r)
        BY <2>9, <3>3 DEF Register, ToldInv
      <4> QED BY <3>2, <4>1
    <3> QED BY <2>9, <3>1, <3>3, <3>4 DEF Register, ToldInv, watching
  <2>10. ASSUME NEW r \in Run, NEW s \in Server, StartCall(r, s) PROVE NamesInv'
    BY <2>10, <2>c DEF StartCall, watching
  <2>11. ASSUME NEW r \in Run, EndRun(r) PROVE NamesInv'
    <3>1. ToolsInv' /\ Registered \subseteq Registered'
      BY <2>11, GoesOn DEF EndRun
    <3>2. \A l \in Seq(Registered) : l \in Seq(Registered')
      BY <3>1
    <3>3. listeners' \in Seq(Registered')
      <4>1. PICK i \in DOMAIN listeners : listeners' = RemoveAt(listeners, i)
        BY <2>11 DEF EndRun
      <4>2. listeners \in Seq(Registered')
        BY <3>2 DEF ToldInv
      <4> QED BY <4>1, <4>2 DEF RemoveAt
    <3> QED BY <2>11, <3>1, <3>2, <3>3 DEF EndRun, ToldInv, watching
  <2>12. CASE UNCHANGED vars
    BY <2>12, <2>c DEF vars, watching
  <2> QED
    BY <2>1, <2>2, <2>3, <2>4, <2>5, <2>6, <2>7, <2>8, <2>9, <2>10, <2>11, <2>12 DEF Next, Listing, Running
<1>3. NamesInv => OneToolAName
  BY DEF NamesInv, ToolsInv, OneToolAName, GivenOnce
<1>4. SessionInv => ShapeInv
  BY DEF SessionInv
<1> QED
  BY <1>1, <1>2, <1>3, <1>4, SessionsKept, PTL DEF Spec
=============================================================================
