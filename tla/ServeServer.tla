---------------------------- MODULE ServeServer -----------------------------
(***************************************************************************)
(* serve.Server: a puller for each channel takes work, waits for one of    *)
(* the channel's slots and runs it; Drain and Stop release the endpoints   *)
(* one after another; a fault, an endpoint's or a channel's panic, drains  *)
(* and is what Serve returns.                                              *)
(*                                                                         *)
(* A channel is what serve.Channel asks of one.  Its Close either returns  *)
(* at once, as the A2A endpoint's, or waits for the runs it has handed     *)
(* over, as the work queue's, whose Next goes on until then.               *)
(***************************************************************************)
EXTENDS Naturals, Sequences, FiniteSets

CONSTANTS
    Channels,   \* opts.Channels, the order in which they are released
    Work,       \* what they have to offer
    From,       \* w -> the channel that offers it
    Slots,      \* ch -> how many of its runs may go on at once
    Waiting,    \* the channels whose Close waits for their runs
    Faulting    \* those that report a fault of their own, as FaultingEndpoint

Channel == {Channels[i] : i \in DOMAIN Channels}

\* A channel is not known by the name of another who releases.
ASSUME ServerAssumption ==
    /\ Channels \in Seq(Channel)
    /\ From \in [Work -> Channel]
    /\ Channel \intersect {"program", "stop", "watcher"} = {}

\* Who may call release: the program draining on a signal, the program stopping
\* after Serve, the fault watcher, and the puller of a channel that panicked.
Drainer == {"program", "stop", "watcher"} \union Channel

VARIABLES
    canceled,   \* the context Serve was given has ended
    services,   \* the services still answer
    faulted,    \* the buffer of the channel faulted holds an error
    raised,     \* ch -> its Faults has an error for whoever reads it
    watcher,    \* where watchFaults is
    puller,     \* ch -> where its pull is
    closing,    \* ch -> how far its Close is
    drain,      \* d -> the endpoint its release has come to; 0 before it is called
    work,       \* w -> what has become of it
    reports,    \* w -> how often its Done was called
    serve       \* "serving", or what Serve returned

vars == <<canceled, services, faulted, raised, watcher, puller, closing,
          drain, work, reports, serve>>

TypeOK ==
    /\ canceled \in BOOLEAN /\ services \in BOOLEAN /\ faulted \in BOOLEAN
    /\ raised \in [Channel -> {"no", "yes", "read"}]
    /\ watcher \in {"watching", "faulting", "gone"}
    /\ puller \in [Channel -> {"next", "retry", "slot", "faulting", "draining", "gone"}]
    /\ closing \in [Channel -> {"open", "closing", "closed"}]
    /\ drain \in [Drainer -> 0 .. Len(Channels) + 2]
    /\ work \in [Work -> {"offered", "discarded", "held", "running", "reported",
                          "ended", "abandoned"}]
    /\ reports \in [Work -> Nat]
    /\ serve \in {"serving", "nil", "error"}

Init ==
    /\ canceled = FALSE /\ services = TRUE /\ faulted = FALSE
    /\ raised = [ch \in Channel |-> "no"]
    /\ watcher = "watching"
    /\ puller = [ch \in Channel |-> "next"]
    /\ closing = [ch \in Channel |-> "open"]
    /\ drain = [d \in Drainer |-> 0]
    /\ work = [w \in Work |-> "offered"]
    /\ reports = [w \in Work |-> 0]
    /\ serve = "serving"

Of(ch, states) == {w \in Work : From[w] = ch /\ work[w] \in states}
Pulling(ch, at) == serve = "serving" /\ puller[ch] = at

\* s.released is closed: some release was called.
released == \E d \in Drainer : drain[d] # 0

\* Next has nothing more for its caller.
Done(ch) == closing[ch] = "closed" \/ (closing[ch] = "closing" /\ ch \notin Waiting)

-----------------------------------------------------------------------------
(* pull: take, then wait for a slot, then run. *)

TakeWork(w) ==
    /\ Pulling(From[w], "next")
    /\ closing[From[w]] # "closed"
    /\ work[w] = "offered"
    /\ work' = [work EXCEPT ![w] = "held"]
    /\ puller' = [puller EXCEPT ![From[w]] = "slot"]
    /\ UNCHANGED <<canceled, services, faulted, raised, watcher, closing, drain,
                   reports, serve>>

\* Work without a Done cannot be reported, so it is not run.
DiscardWork(w) ==
    /\ Pulling(From[w], "next")
    /\ closing[From[w]] # "closed"
    /\ work[w] = "offered"
    /\ work' = [work EXCEPT ![w] = "discarded"]
    /\ UNCHANGED <<canceled, services, faulted, raised, watcher, puller, closing,
                   drain, reports, serve>>

PullerMoves(ch, to) ==
    /\ puller' = [puller EXCEPT ![ch] = to]
    /\ UNCHANGED <<canceled, services, faulted, raised, watcher, closing, drain,
                   work, reports, serve>>

NextFails(ch) == Pulling(ch, "next") /\ ~Done(ch) /\ PullerMoves(ch, "retry")
RetryNext(ch) == Pulling(ch, "retry") /\ ~canceled /\ PullerMoves(ch, "next")
NextPanics(ch) == Pulling(ch, "next") /\ ~Done(ch) /\ PullerMoves(ch, "faulting")
NextIsDone(ch) == Pulling(ch, "next") /\ Done(ch) /\ PullerMoves(ch, "gone")

PullCanceled(ch) ==
    /\ Pulling(ch, "next") \/ Pulling(ch, "retry")
    /\ canceled
    /\ PullerMoves(ch, "gone")

HasSlot(ch) == Cardinality(Of(ch, {"running", "reported"})) < Slots[ch]

StartRun(w) ==
    /\ Pulling(From[w], "slot")
    /\ work[w] = "held"
    /\ HasSlot(From[w])
    /\ work' = [work EXCEPT ![w] = "running"]
    /\ puller' = [puller EXCEPT ![From[w]] = "next"]
    /\ UNCHANGED <<canceled, services, faulted, raised, watcher, closing, drain,
                   reports, serve>>

\* Mutant: what ran already may be given up too.
NotEnded == {"held", "running"}
NotStarted == {"held"}

\* Mutant: work that waits for a slot is dropped in silence.
ToldNothing(w) == reports
Told(w) == [reports EXCEPT ![w] = @ + 1]

AbandonWork(w) ==
    /\ Pulling(From[w], "slot")
    /\ work[w] \in NotStarted
    /\ canceled
    /\ work' = [work EXCEPT ![w] = "abandoned"]
    /\ reports' = Told(w)
    /\ puller' = [puller EXCEPT ![From[w]] = "gone"]
    /\ UNCHANGED <<canceled, services, faulted, raised, watcher, closing, drain,
                   serve>>

\* execute: the run has ended, or crashed, and its Done was called; a Done that
\* panics has still had its call.
EndRun(w) ==
    /\ work[w] = "running"
    /\ work' = [work EXCEPT ![w] = "reported"]
    /\ reports' = [reports EXCEPT ![w] = @ + 1]
    /\ UNCHANGED <<canceled, services, faulted, raised, watcher, puller, closing,
                   drain, serve>>

FreeSlot(w) ==
    /\ work[w] = "reported"
    /\ work' = [work EXCEPT ![w] = "ended"]
    /\ UNCHANGED <<canceled, services, faulted, raised, watcher, puller, closing,
                   drain, reports, serve>>

-----------------------------------------------------------------------------
(* fault and release. *)

\* Mutant: the endpoint is drained and its error forgotten.
DrainOnly(d) ==
    /\ faulted' = faulted
    /\ drain' = IF drain[d] = 0 THEN [drain EXCEPT ![d] = 1] ELSE drain

\* fault: only the first one is kept, and drains.
Fault(d) ==
    /\ faulted' = TRUE
    /\ drain' = IF faulted THEN drain ELSE [drain EXCEPT ![d] = 1]

FaultPuller(ch) ==
    /\ puller[ch] = "faulting"
    /\ Fault(ch)
    /\ puller' = [puller EXCEPT ![ch] = IF faulted THEN "gone" ELSE "draining"]
    /\ UNCHANGED <<canceled, services, raised, watcher, closing, work, reports, serve>>

LeaveAfterDrain(ch) ==
    /\ Pulling(ch, "draining")
    /\ drain[ch] = Len(Channels) + 2
    /\ PullerMoves(ch, "gone")

RaiseFault(ch) ==
    /\ ch \in Faulting /\ raised[ch] = "no" /\ closing[ch] = "open" /\ serve = "serving"
    /\ raised' = [raised EXCEPT ![ch] = "yes"]
    /\ UNCHANGED <<canceled, services, faulted, watcher, puller, closing, drain,
                   work, reports, serve>>

ReadFault(ch) ==
    /\ watcher = "watching" /\ raised[ch] = "yes"
    /\ raised' = [raised EXCEPT ![ch] = "read"]
    /\ watcher' = "faulting"
    /\ UNCHANGED <<canceled, services, faulted, puller, closing, drain, work,
                   reports, serve>>

FaultWatcher ==
    /\ watcher = "faulting"
    /\ Fault("watcher")
    /\ watcher' = "gone"
    /\ UNCHANGED <<canceled, services, raised, puller, closing, work, reports, serve>>

\* Mutant: the watcher leaves when it likes.
Unwatched == TRUE
WatchEnds == canceled \/ released \/ serve # "serving"

StopWatching ==
    /\ watcher = "watching"
    /\ WatchEnds
    /\ watcher' = "gone"
    /\ UNCHANGED <<canceled, services, faulted, raised, puller, closing, drain,
                   work, reports, serve>>

BeginRelease(d) ==
    /\ drain[d] = 0
    /\ drain' = [drain EXCEPT ![d] = 1]
    /\ UNCHANGED <<canceled, services, faulted, raised, watcher, puller, closing, work,
                   reports, serve>>

Drain == serve = "serving" /\ BeginRelease("program")
Stop == serve # "serving" /\ BeginRelease("stop")

AtChannel(d) == drain[d] \in DOMAIN Channels

\* The first to come to a channel closes it, and whoever comes later waits for that.
BeginClose(d) ==
    /\ AtChannel(d) /\ closing[Channels[drain[d]]] = "open"
    /\ closing' = [closing EXCEPT ![Channels[drain[d]]] = "closing"]
    /\ UNCHANGED <<canceled, services, faulted, raised, watcher, puller, drain,
                   work, reports, serve>>

\* Mutant: Close waits for the puller, which may be who is draining.
PullerGone(ch) == puller[ch] = "gone"
RunsOver(ch) == Of(ch, {"held", "running"}) = {}

FinishClose(ch) ==
    /\ closing[ch] = "closing"
    /\ ch \in Waiting => RunsOver(ch)
    /\ closing' = [closing EXCEPT ![ch] = "closed"]
    /\ UNCHANGED <<canceled, services, faulted, raised, watcher, puller, drain,
                   work, reports, serve>>

LeaveChannel(d) ==
    /\ AtChannel(d) /\ closing[Channels[drain[d]]] = "closed"
    /\ drain' = [drain EXCEPT ![d] = @ + 1]
    /\ UNCHANGED <<canceled, services, faulted, raised, watcher, puller, closing,
                   work, reports, serve>>

AtServices(d) == drain[d] = Len(Channels) + 1

CloseServices(d) ==
    /\ AtServices(d)
    /\ drain' = [drain EXCEPT ![d] = @ + 1]
    /\ services' = FALSE
    /\ UNCHANGED <<canceled, faulted, raised, watcher, puller, closing, work,
                   reports, serve>>

-----------------------------------------------------------------------------
(* Serve. *)

\* wg: the pullers, and the runs they have spawned.  A server without channels, which
\* has services, waits for its end instead.
NobodyLeft ==
    /\ Channels = <<>> => canceled \/ released
    /\ \A ch \in Channel : puller[ch] = "gone"
    /\ \A w \in Work : work[w] \notin {"running", "reported"}

Return ==
    /\ serve = "serving" /\ NobodyLeft
    /\ serve' = IF faulted THEN "error" ELSE "nil"
    /\ UNCHANGED <<canceled, services, faulted, raised, watcher, puller, closing,
                   drain, work, reports>>

Cancel ==
    /\ ~canceled /\ serve = "serving"
    /\ canceled' = TRUE
    /\ UNCHANGED <<services, faulted, raised, watcher, puller, closing, drain, work,
                   reports, serve>>

Next ==
    \/ \E w \in Work : TakeWork(w) \/ DiscardWork(w) \/ StartRun(w) \/ AbandonWork(w)
    \/ \E w \in Work : EndRun(w) \/ FreeSlot(w)
    \/ \E ch \in Channel : NextFails(ch) \/ RetryNext(ch) \/ NextPanics(ch) \/ NextIsDone(ch)
    \/ \E ch \in Channel : PullCanceled(ch) \/ FaultPuller(ch) \/ LeaveAfterDrain(ch)
    \/ \E ch \in Channel : RaiseFault(ch) \/ ReadFault(ch) \/ FinishClose(ch)
    \/ FaultWatcher \/ StopWatching \/ Drain \/ Stop \/ Return \/ Cancel
    \/ \E d \in Drainer : BeginClose(d) \/ LeaveChannel(d) \/ CloseServices(d)

\* What goroutines do by themselves, once it can be done: nobody has to cancel, to
\* drain, or to break.
KeepsGoing ==
    /\ \A ch \in Channel : WF_vars(RetryNext(ch) \/ NextIsDone(ch) \/ PullCanceled(ch)
                                    \/ FaultPuller(ch) \/ LeaveAfterDrain(ch))
    /\ \A ch \in Channel : WF_vars(ReadFault(ch)) /\ WF_vars(FinishClose(ch))
    /\ \A w \in Work : WF_vars(StartRun(w) \/ AbandonWork(w)) /\ WF_vars(FreeSlot(w))
    /\ \A d \in Drainer : WF_vars(BeginClose(d) \/ LeaveChannel(d) \/ CloseServices(d))
    /\ WF_vars(FaultWatcher \/ StopWatching) /\ WF_vars(Stop) /\ WF_vars(Return)

\* A run comes to its end: a tool, a model or a person waited for has a timeout.
RunsEnd == \A w \in Work : WF_vars(EndRun(w))

Spec == Init /\ [][Next]_vars /\ KeepsGoing /\ RunsEnd

-----------------------------------------------------------------------------
(* Correctness. *)

\* "Done reports the outcome exactly once" (serve.go 318): what was run or given up has been
\* reported once, and nothing else has been.
Once ==
    \A w \in Work :
        reports[w] = IF work[w] \in {"reported", "ended", "abandoned"} THEN 1 ELSE 0

\* Serve returns no error only if somebody asked it to end (server.go 352-365): an
\* endpoint that broke first, from whichever goroutine, is its error.
ForAReason == serve = "nil" => canceled \/ drain["program"] # 0

\* What the channel of a piece of work can tell of it.
Seen == [w \in Work |->
    CASE work[w] \in {"offered", "discarded"} -> "offered"
      [] work[w] = "held" -> "taken"
      [] work[w] = "running" -> "started"
      [] work[w] \in {"reported", "ended"} -> "reported"
      [] work[w] = "abandoned" -> "abandoned"]

Report == INSTANCE WorkReport WITH state <- Seen

\* The server keeps its promise to the channels: work is abandoned only if it was never
\* started, and nothing happens to it after its report.
KeepsPromise == Report!Spec

\* A cancel, a drain or a fault is the end of Serve, whichever of the pullers, the
\* watcher and the drains come first and wait for each other (server.go 582-639).
Ends == (canceled \/ released) ~> serve # "serving"

\* A fault of an endpoint, seen by nobody but the watcher, ends Serve (server.go 433-478).
FaultEnds == \A ch \in Channel : raised[ch] = "yes" ~> serve # "serving"
=============================================================================
