# fisk-ai: a verification project

fisk-ai runs agents: a loop that calls a model, runs the tools its reply asks for, and
calls again. What makes it more than a loop is that a run is *durable*. Every step is
journaled before the next one is taken, so that a run may crash, be suspended while
somebody decides on a tool call, be taken over by another worker, and go on where it was,
without paying twice for a model call or running a tool twice. The modules here say what
that promise is, model the code that keeps it, and check and prove that it does, or show
where it does not.

All paths are relative to `src/`; `internal/` is left out where it is plain.

## The system

| Part | State it keeps | Operations | Talks to |
|---|---|---|---|
| journal contract, `runstate/store.go` | one append-only log of records per run | `Create`, `Open`, `Load`, `Delete`; on a handle `Append`, `LastSeq`, `CheckHeld`, `Close` | the two backends implement it, `agent`, `serve/web` and the command line call it |
| JetStream store, `runstate/jetstream` | a subject per record; per handle a nonce, the last seq, the tail's stream sequence | the contract, by publishes fenced on the run's tail; a *hold* keeps others off a turn in flight | a NATS server |
| file store, `runstate/file` | a file of JSON lines and a lock file per run | the contract, by write, fsync and flock | the file system |
| fold and supplied answers, `runstate/state.go`, `supply.go` | none: a run's state is computed from its records | `Fold`, `SupplyToolResult`, `AnswerDeferredCall` | called by `agent`, the channels and the command line |
| agent run, `agent/agent.go` | what one process restored: state, handle, sequence number | load, gates, open, claim, answer, start the runner | journal, model provider, tools |
| runner, `agent/runner.go` | messages, the restored pending turn, iteration, sequence number | `run`, `loop`, `completePending`, `executeTool`, `followUpTurn`, `rotateSession` | journal, hooks, prompter |
| hooks, approvals, confirmation, PII guard, `agent/*.go` | standing grants of a conversation | allow, deny, rewrite, defer | runner, prompter |
| live tool set, `agent/mcplive.go`, `agent/toolset.go`, `mcpclient` | the published set of tools; MCP sessions | `publish`, `snapshot`, reconnect | MCP servers, runner |
| `serve.Server` | slots per channel, a released flag, the first fault | `Serve`, `pull`, `execute`, `report`, `Drain`, `Stop` | channels and services |
| channels: `serve/a2aendpoint`, `asyncjobs`, `slack`, `web`, `embedded` | tasks, threads, leases or turns in flight; open questions | admit, hand off, cancel, answer, report an outcome | the server, their transport, the session store |
| A2A protocol, `a2a` | reply streams, subscriptions | send, stream, cancel, elicit | NATS |
| memory, `memory/*` | notes, and the revisions a conversation has read | `Create`, `Update`, `Delete` by compare and set | file system or a key-value bucket |
| RAG, `rag` | a search index, its write lock, a watcher's pending paths | index, watch, search | file system |
| toolkit, providers, config, telemetry, terminal UI, multiplex, PII, sanitize | per process | pure functions, display, network clients | |

Components interact by calls, but for three places: workers of different processes share
a run's **journal** (and nothing else), channels and the server share **channels of
work** and callbacks, and people answer **questions** of a run from outside it.

### What is hard

* *Interleaving through the journal.* A worker that was slow and the one that took its
  run over both think they hold it. A state is loaded at one time, the run is opened at
  a second and claimed at a third.
* *Crashes between any two steps*, and records that were stored though their writer saw
  an error: a resume has only the journal to go by.
* *Answers from outside.* A deferred call is answered by a human or a job, at any time,
  perhaps twice, perhaps while a resume runs.
* *Turns that end in the middle.* A hook's error, a cap, a truncated reply, a suspend: the
  next turn starts from whatever they left.
* *Exactly once* on the serving side: an outcome for each piece of work, an ending for
  each task, under drain, faults, cancels and lost leases.

What would make each part correct, and where it is hard to test, is the list `hazards` of
`PROJECT.json`; each names the properties below that would catch it.

## The modules

```
            RunJournal  <------------------- what a journal promises
           /     |      \
 JetStreamJournal  FileJournal   AgentRun ---- SessionFold
   (refines it)   (refines it     (its appends   (what a resume
                   while usable)   refine it)     reads from it)

            WorkReport  <------------------- what a server promises its channels
           /     |    \   \
  ServeServer    |     |   SlackThreads      (the three channels are modelled
  (refines it)   |    AsyncJobs               against a server that does what
             A2AEndpoint                      WorkReport says)
                 |
             A2AQuestions ---- ElicitPrompter
             (the endpoint with the questions of one of its runs)

  McpTools   (sessions with MCP servers, and a run's tools)      RagWatch   (on its own)
```

**`RunJournal`** is the abstract specification: `log`, `gone` (how much `Delete` removed)
and `acked` (positions whose writer was told). A handle may write until another has
written after it, then never again (`Superseded`); records are numbered without gap; an
acknowledgement follows the record; an unacknowledged record may be lost, an acknowledged
one and those before it may not. `internal/runstate/store.go` is its source.

**`JetStreamJournal`** is `runstate/jetstream/jetstream.go` for one run. A handle goes from
`new` to `idle` by `CreateStart` and its meta record, or by `OpenAtRest`/`OpenPastHold`.
`Append` is split where the code is: sending the fenced publish (`AppendRecord`,
`Retry`), the server storing or refusing it (`StoreHeard`, `StoreUnheard`, `Refuse`), the
context expiring (`Fail`), and the read back after a refusal (`ReadBackAdopts`,
`ReadBackLoses`, `ReadBackFails`). A publish that nobody waits for any more may still
arrive. `last` and `tail` are `lastSeq` and `tailStreamSeq`; the handle is its nonce.
`st[h]` is where in `Append` its caller is.

**`FileJournal`** is `runstate/file/file.go` and `lock_unix.go`, a step per system call:
`CreateStart`/`OpenStart` (Open's look for the journal), `OpenLock` and `AcquireLock` (the lock file
opened, made when there is none, and then flocked), `OpenFile`/`OpenNewFile`, `ReadLast`, `Write` (or
`WriteTorn`), `Sync`, `SyncDir`, `Stop`, with `SyncFails` and `PowerLoss`. A file is a sequence of
lines; of a line only its form matters: whole, partial, whole but for the newline, or
joined to the one before. `DeleteJournal` and `DeleteLock` are the two removals of `Delete`. They have no guard
but the bound, as in the code: the run may be at rest, open, or in the middle of being
opened. A handle keeps writing to a file that was removed, and an opener
whose journal went between its look and its `O_CREATE` makes an empty one, as the code
does. `undercut` is history: a `DeleteLock` has removed the lock file that a process
had open, or flocked, on its way to the journal.

**`SessionFold`** is `runstate.Fold`, as the operators a resume is steered by: which turn is
open, which of its calls have an answer or a deferral, whether a user message may come
next, whether the last run completed. Claims, standing approvals and memory revisions
do nothing in the fold but count; a claim stands for all three.

**`AgentRun`** is `agent.Run` on a journaled run, the runner, and `SupplyToolResult`. Each
worker is a record `run[w]`: where it is (`pc`), what it was asked for (`mode`), what it
loaded (`view`), its handle's tail and the runner's `seq` (kept apart, as the code does),
the restored turn still pending, and the batch it is in. `Load`, `OpenJournal`, `Claim` and
`Answer` are the four separate looks at the journal that `agent.Run` takes;
`CompletePending` to `Finish` are the runner. Anything that depends on a tool, a hook, an
operator, a budget or the provider is a choice between the outcomes the code has
(`RefuseCall`, `DeferCall`, `Dispatch`, `AbortCall`, ...). `Emit` is `runner.emit` with
`CheckAppend` behind it: a record numbered below the handle's tail is silently passed
over, one beyond it fails. `Vanish` is a crash at any point, and an append that failed.

**`WorkReport`** is the second abstract specification, from `serve/serve.go`: a piece of work
is offered, taken, started and reported, or abandoned without having been started.

**`ServeServer`** is `serve/server.go`. `puller[ch]` is where `pull` is for a channel (in `Next`,
backing off, waiting for a slot, in `fault`), `work[w]` where `execute` is with a piece of
work, `drain[d]` the endpoint that the `release` of `d` has come to: the program, a `Stop` after
`Serve`, the fault watcher or a puller whose channel panicked. `closing[ch]` is the channel's
`Close`, which is called once, and for which every later `release` waits. What a channel is,
is what `serve.Channel` says of one: its `Close` may wait for its runs (`Waiting`) or not, and it
may report a fault of its own (`Faulting`).

**`A2AEndpoint`** is the prompt channel, `serve/a2aendpoint/task.go` and `channel.go`. `pc[t]` follows one
request: `handle` admits it, subscribes for its cancels, acks it and hands it over
(`Admit`, `WatchCancel`, `Accept`, `HandOff`), or refuses it at each of these; `inFlight` is the map of that
name; `Terminate` is `terminateWith`, whose `claimEnding` is `ended[t]`; `CloseWatch` and `GiveBack` are `end`.
Handlers for one subject are one goroutine, so `Arrive` waits for the one before. `ServeRead` is a read.

**`ElicitPrompter`** is `serve/a2aendpoint/prompter.go` for one run: `Register`, `Publish`, the select of `ask`
(`TakeAnswer`, `TakeAlive`, `Tick`, `GiveUp`) and the transport's side, `Route` and `Deliver`, which look
for the question and hand it the answer in two steps. It has no specification of its own:
**`A2AQuestions`** composes it with the endpoint, whose shutdown and context are the prompter's.

**`AsyncJobs`** is `serve/asyncjobs`: `handler[d]` is `handle` for one delivery, `run[d]` the server's
side of it, `ending[d]` what `disposition` made of the outcome; `proc[w]` and `closer[w]` are the
processor's goroutine and `Close` of one worker process. The queue and its engine are
external: leases, redelivery, renewals. The journal is `RunJournal` reduced to who holds it and
how far the run in it came: a run whose claim was written past appends nothing more.
A run is a step for each time it meets the journal, as in `agent.Run`: `LoadRun` keeps what it loaded in
`view[d]`; `AnswerStored` and the guard of `StartRun` test that view; `StartRun` opens and claims the journal as it
is by then; `RunReplies` journals the answer and `RunCompletes` the terminal record, which may
fail to be stored. Another delivery's run may come between any two of these. `blind` is
history: the jobs whose journal was claimed with the answer already in it by a run whose view did
not say that it was over.

**`SlackThreads`** is the core of `serve/slack/intake.go` and `prompter.go`. `inFlight`, `waiting`, `queued`,
`parked` and `handed` are the channel's fields; `turn[t]` has the lines a turn was admitted with
and those folded into it; `fate[l]` is what has become of a line and its author. `Release` is
`releaseLocked`, `Finish` is `finish`, `abandonWaiting` the drop of what `Close` finds waiting, whose authors
are told or not (`untold`: a turn has no status message without progress, `slack.go:524`).
`question[t]` is where the question of turn `t` is: `Ask` registers it, `Posted` or `PostFails` comes later, and a press
may come before either (`PressTaken`); `AskEnds` is the end of the window with `giveUp`. A press on a question the run
has left resumes the conversation (`PressResumes`), and so does one on a question that is no longer held at all, which is
`deliveryUnknown` (`PressUnknown`).

**`McpTools`** is `mcpclient.Sessions` and `agent`'s `liveMCPTools`: what happens between a server
that changes its tools and the runs that use them. `conn[s]`, `lock[s]` and `closing[s]` are an entry's
session, its mutex and where `Close` is with it; `use[u]` is a call of `Use`, which is made by
runs and by the goroutine that lists a server again (`listing[s]`). `Notification` sets `rebuilding` and
`again`; `ListAgain`, `Tell` and `EndListing` are `rebuildList` and its loop; `Changed` is `liveMCPTools.changed`,
with the names `claimed`, the tools kept and those `skipped`.

**`RagWatch`** is `rag/watch.go` with the part of `rag/index.go` that a pass is: `HandleEvent`, `StartPass`,
`TimerDuringPass` and `EndPass` are the cases of the loop's select; `OpenIndex` to `EndDeletes` are
`indexOnce`, which walks what is there, file by file, and then looks at each path it was told
is gone. The files change at any time (`WriteFile`, `RemoveFile`, `MoveDirAway`, `MakeDir`).

Each module defines a type invariant, `TypeOK`. It is checked in the run of `AgentRun`, where it
relates two tails, and proved where a `TypeCorrect` (`SlackTypeCorrect`) theorem is listed below.

`MC*` modules instantiate these for TLC (`AsyncJobs` and `RagWatch` need none); `*Proofs` modules hold the
theorems. An operator under a comment that begins "Mutant" is no part of the model: it is a
bug somebody could write in place of a definition, and `PROJECT.json` pairs each with the
property that finds it.

## What is checked

| Run | Module | Properties | Instance |
|---|---|---|---|
| `jetstream_journal` | JetStreamJournal | `AckedIsOwn`, `RestMeansNoTurn`, `ImplementsRunJournal` | 3 handles, 3 records, 2 tries, 1 delete |
| `file_journal` | FileJournal | `OneHolder`, `ContractWhileUsable` | 3 handles, 3 lines in all, 1 power loss, torn writes, deletes until a second journal is made |
| `agent_conversation` | AgentRun | `TypeOK`, `NoRepeat`, `StaysReadable`, `CompletedHasAnswer` | 2 workers, 2 calls, 2 replies, 1 user message, every mode |
| `agent_takeover` | AgentRun | `QuietResume`, `ModelSeesAnswers`, `KeepsContract` | 3 workers, 1 call, 1 reply |
| `double_answer` | AgentRun | `AnsweredOnce` (violated) | 3 workers, 1 call |
| `server` | ServeServer | `Once`, `ForAReason`, `KeepsPromise`, `Ends`, `FaultEnds` | 2 channels, one whose `Close` waits and one that may break; 2 pieces of work, 1 slot |
| `a2a` | A2AEndpoint | `AckedOnce`, `OneTurn`, `Accounted`, `Answered`, `DrainEnds` | 3 requests: two of one id, two of one conversation; 2 workers |
| `a2a_questions` | A2AQuestions | `RightAnswer`, `DrainEndsQuestions`, `CancelEnds` | 1 run, 2 questions, 2 answers, a window of 2 ticks |
| `async_jobs` | AsyncJobs | `PaidOnce`, `FromJournal`, `CloseEnds`, `AnswerArrives` | 1 job, 2 workers, 2 deliveries at once, 1 incident |
| `slack` | SlackThreads | `OneTurn`, `HeldByOne`, `Backlog`, `Answers`, `AnswerUsed` | 1 thread, 2 people, 3 lines, 1 question, 1 resume, 4 turns |
| `mcp_tools` | McpTools | `OneToolAName`, `NoSessionLeft`, `Latest` | 1 run, 2 servers that may offer a tool of one name, 2 changes, 2 faults |
| `rag_watch` | RagWatch | `LiveIsIndexed`, `GoneIsRemoved`, `Settles` | 2 files, one in a directory; 3 changes, 1 fault |

### The journals

`ImplementsRunJournal` says the JetStream backend is a refinement of `RunJournal`: no writer
that was written past gets a record in, whatever is lost, late or retried.
`AckedIsOwn` is about the read back: a record adopted after a refusal is the handle's own,
and the next fence is that record. `RestMeansNoTurn` is what the hold is for: a
journal that `atRest` calls at rest is not one whose last writer is inside a turn, though
an answer supplied from outside and a tool's own result are the same kind of record.

`ContractWhileUsable` says the file backend refines `RunJournal`, crashes, failed syncs and
power loss included. Three things are outside it, each of them shown to matter: what comes behind a
torn line that was written behind (an acknowledged record then cannot be
read: `AckedAreRead` fails), steps taken while a process writes on to a journal that was deleted under it (its records are
acknowledged and gone with the file), and what comes after a `Delete` undercut an opener.
`OneHolder` says how far `CheckHeld` may rely on the lock when it answers without I/O: no crash, no
power loss, no order of opens and creates, and no `Delete` of a run at rest or open gives a journal
two holders. What does is a `Delete` that takes the lock file away from a process which has it and
is about to open, or has just made, the journal. Without that exception it is `AloneWithJournal`, the sentence of
`CheckHeld` as it stands, and TLC finds that violated.

### The run

`NoRepeat`: a tool is never started for a call the journal has an answer or a deferral for.
It has two exceptions, each of them a hazard of the code: a record that landed between
this worker's load and its claim, and a call this worker itself answered before a prompt
that followed the turn's failure (`completePending` entered again works on what it was
restored with).
`QuietResume`: resuming a run that only waits costs a claim and a terminal record, and starts
nothing. `ModelSeesAnswers`: a worker that holds the run calls the model only when every
call of the turn has an answer. `StaysReadable`: no sequence of crashes and takeovers makes
the journal one that `Fold` rejects, unless a worker resumed on a stale view or a prompt
closed an unanswered turn. `CompletedHasAnswer`: a terminal record that says completed
lies behind a reply that asked for nothing more. `KeepsContract`: the runner's appends,
claims and answers together are a behaviour of `RunJournal`.

### The server

`Once` and `KeepsPromise` are what a channel relies on: one report for each piece of work, and
an abandoned one for work that was never started. `ForAReason`: `Serve` returns nil only if it was
canceled or drained; whichever goroutine saw the fault, it is what `Serve` returns. `Ends` and
`FaultEnds` are about who waits for whom: a puller that drains from its own goroutine, the
`Close` of a channel that waits for what that puller holds, the watcher that drains meanwhile.

### The channels

*A2A.* `AckedOnce`: one ending is told, behind an ack, and always after an acceptance. `OneTurn`:
a conversation has one run. `Accounted`: a request id belongs to the task that works under it;
a refused request of the same id gives nothing back. `Answered` and `DrainEnds`: the
hand-off, the shutdown and the server's end meet in any order and no prompt is left
behind, no worker kept. `RightAnswer`: an answer routed late, or twice, never becomes that of
another question. `DrainEndsQuestions` and `CancelEnds`: neither waits for the caller's patience.

*Jobs.* `PaidOnce`: lost leases, killed workers, deferred answers and retries of the task do
not work an answer out twice, nor does the gap between a run's load of the journal and its claim, unless a
run claims the journal with the answer in it on a view that did not say it was complete. That
exception is real and not small: without it the property is `NeverPaidTwice`, which TLC finds violated
after one lost lease, and after one terminal record that was not stored. `FromJournal`: a task is answered only behind a journal that
has the answer, with the same exception: such a run may make it unfinished again.
`AnswerArrives`: a journal that is complete reaches its task while some worker goes on, unless
another run makes it unfinished.
`CloseEnds`: `Close` waits for handlers which wait for a server that may have
stopped taking work, and for a processor that stops only for `Close`.

*Slack.* `OneTurn` again, over lines, resumes, follow-ups and releases. `HeldByOne`: a line is
carried by exactly one turn until it is handed over or its author told. `Backlog`: the bound
that `full` keeps under one lock, though turns move between three counters under others'.
`Answers`: while the server goes on, a line that was taken is given to a run or its author told, so
no turn is left in a thread nobody releases; what is not covered is a line folded into a resume that
has still to be handed over, which is lost (`NotLost` fails). `AnswerUsed`: a press taken once the
question was posted is what the run goes on with, also when the window ends in that moment;
one taken while the post is under way is thrown away when the post fails (`NeverUnread` fails).

### Tools and the index

*MCP.* `OneToolAName`: lists come in any order, two servers may trade a name, and a run never has two
tools behind it; what it counts as claimed is exactly what its tools are called.
`NoSessionLeft`: `Close` goes through the entries while runs and listings open sessions in
them, and none is left open behind it. `Latest`: a change that is notified while its server is being
listed is listed again, so that a registered run ends up with what the server offers.

*RAG.* `LiveIsIndexed`: what the loop has heard of reaches the index as it is in the
end, though the timer runs out during a pass, a locked index delays it, and a file comes back
or goes again while a pass is between looking and deleting. `GoneIsRemoved`: a removal that is waiting for a
pass comes out of the index, in whatever order files go, return and go again, with three
exceptions by name: a pass that failed, one that found the index locked, and a file whose
directory is back. A locked index does not merely delay a removal, it loses it:
`WillRetry` fails. `Settles`: the watcher hears
what its own passes write beside the files, and does not go on for ever.

### What the code says of itself and does not keep

One run states a sentence of a comment and finds it violated; `findings` in `PROJECT.json`
quotes the line. `double_answer`: `SupplyToolResult` is fenced on the tail at `Open`, not on the one its
check was made on (`supply.go:75-76`), so two callers may both answer one call. The same gap can leave a
journal that `Fold` rejects: a supplier that writes a result behind records it has not seen may put it where no
turn is open. This is why `StaysReadable` excepts a stale view of *any* worker: an earlier form of
`Stale` looked only at workers that claim, and an attempt to prove the invariant found the supplier, which has no claim.

The following have no run. Where a definition is named, TLC finds it
violated when it is put in the module's configuration (for `AckedAreRead`, with `MaxDelete = 0`).

* `FileJournal!AloneWithJournal`: `CheckHeld` says that no other process opened an open journal (`file.go:776`). A process has
  flocked the lock file when `Delete` (`file.go:674`) begins, makes the journal anew between the two removals, and
  loses its lock file to the second; another process makes a new one and opens the same journal.
* `FileJournal!AckedAreRead`: a failed or torn write "re-appends the same seq on retry rather than silently losing it"
  (`validate.go:76`). A torn last line is dropped by readers but never removed or ended (`file.go:716`), so the
  next append is joined to it, acknowledged and lost.
* `AsyncJobs!NeverPaidTwice`: a redelivery "finds a completed session" (`asyncjobs.go:58`) only if it loads the journal after the other
  run completed it (`agent.go:1661`, `1683`); otherwise it may open and claim the journal behind the answer (`1810`, `1824`) and
  work it out again.
* `AsyncJobs!StopReturns`: a job whose run is cut by the end of its worker's context is settled as
  failed (`handler.go:228`); the comment at `asyncjobs.go:43` says it goes back to the queue.
* `SlackThreads!NotLost`: a line "either reaches this prompt or waits for the follow-up" (`intake.go:586`). One folded into a
  resume before that is handed over is drained into a prompt that a resume does not have.
* `SlackThreads!NeverUnread`: a question is registered before it is posted so that no press "lands in a buffer nobody
  reads" (`prompter.go:732`). When the post fails the question is forgotten, and a press that was
  taken meanwhile with it (`prompter.go:748`).
* `RagWatch!WillRetry`: a pass that finds the index locked warns that it will be tried again
  (`watch.go:358`). It is, but without the removals it had been started with.
* `AgentRun!TruncatedNeverRuns`: the calls of a reply cut off at the output cap are not run by
  the process that got it but are by the next resume (`runner.go:1319`).
* `AgentRun!PromptFollowsAnswers`: in a chat a turn that failed between its calls takes the next
  prompt, and the journal closes it with calls unanswered (`state.go:398`).
* `AgentRun!CompletedIsOver`: a follow-up that crashes in its turn leaves a journal that reads
  completed and that a plain resume refuses (`state.go:268`).
* `McpTools!NothingLost`: a server is not listed again while no run is registered, because a run
  imports it when it starts (`mcpclient.go:568`); a change between a run's import and its
  registration is missed until the next one.
* RAG: a directory that is moved away and made again before the pass keeps the documents of what
  was in it, as its own path is back; and the first pass runs before the watches are
  set, so a change in between is not heard of (`watch.go:126-135`).
* MCP: what a run is told of a changed list is queued for the next request, which may be one that
  was put together before the change (`mcplive.go:173`, `runner.go:1149`).
* A2A: a prompt may be accepted after `Close` has waited for the hand-offs (`channel.go:184`); it
  still comes to an ending, because the hand-off sees the shutdown. A second answer to a
  question may be told that it was delivered though the run has moved on (`prompter.go:360`).
* Slack: a follow-up that `finish` makes after `abandonWaiting` stays in `waiting`, and a resume
  admitted by a press and then dropped by `abandonWaiting` tells nobody.
* `serve.Server`: a drain closes the services while runs that outlive their channel's `Close` may
  still use them (`server.go:511`).

### Bounds, and why they are enough

* *Handles and workers.* Three: one that is slow, one that takes over, one that takes over
  from that one or answers a call meanwhile. Handles are symmetric and used once, as in the
  code, so three is also three opens in the life of a run. `agent_conversation` has two,
  as its properties need a crash and a resume but no third party.
* *Records.* `MaxLog` 3 lets a record be written behind a foreign one that is behind an own
  one; late publishes are fenced on any of the three. `MaxLine` 3 is a torn line, one behind
  it and one behind that; the lines of a journal that was deleted count too. `AgentRun`'s log is bounded by replies (`MaxTurn`), user messages
  (`MaxUser`) and workers; claims, results and deferrals follow.
* *Tries.* `MaxTry` 2: the second try meets the first one's publish, stored or in flight.
* *Deletes and power losses.* One of each: after it a run begins again as a new one. In `FileJournal` `Delete`
  may come, and come again, until a second journal was made.
* *Calls.* Two to a reply, so that a batch has an answered call before one that is not;
  one where the property is about workers and not about batches.
* *Work and slots.* Two pieces for one slot: one runs, one waits. The channel that waits
  comes first in the order of release, so that everything behind it waits too.
* *A2A.* Three requests are every pair: same id, same conversation, neither. A window of 2 ticks
  can be restarted with one gone; one of 1 could never be kept open.
* *Jobs.* Two deliveries of one job are a run and its successor; `Forget` uses a delivery again, so
  there may be any number one after another. One incident is one crash, lost lease,
  interrupt, cancel or broken processor; more are the same again with another worker.
* *Slack.* One turn each for a line and for a resume; `MaxWait` and `MaxCoal` 1 so that both are full.
* *MCP.* Two servers with a name in common are what a clash needs; two changes let one come while
  the other is listed; two faults end a session and then a listing. With two definitions of a tool the
  invariants were checked as well (`Def = {"d", "e"}`, 440,000 states).
* *RAG.* A file in a directory and one beside it; three changes are away, back and away again. One
  fault is a pass that fails or a lock another process takes.

Deadlock is not checked in any run: the workers are used once, or the server and its
channels stop, and a system in which all have finished has stopped for good.

`MCJetStreamJournal!View` identifies states that differ only in publishes that can have no
effect but to be refused unheard.

### Fairness

The journals and `AgentRun` assume none, and nothing live is claimed of them: a store may be
unreachable for ever, and nobody has to resume a run.

The serving side does. What goroutines do by themselves is weakly fair: a select whose
case stays ready, a lock, a `WaitGroup` at zero, a handler on its way (`KeepsGoing` of `ServeServer`,
`Fairness` of `A2AEndpoint`, `AsyncJobs` and `SlackThreads`). Nobody *has* to cancel, drain, fault, die, press, answer
or ask. Runs end (`RunsEnd`, and `Runs(d)` elsewhere): model calls, tools and prompts have timeouts.
Strong fairness is assumed in three places. The select of `ask` offers both a restart of the
window and its end: a caller can make the first ready again and again, and Go's select
chooses at random among those that are ready (`SF` of `Tick` and `GiveUp`). And `Close` of a job worker
waits on a `WaitGroup` that may leave zero again, because the engine may start a handler before the
processor's context ends: it is enough that the count was zero when the waiter looked
(`SF` of `HandlersDone`). An entry's mutex in `McpTools` is taken and let go over and over by whoever uses the
session; a `sync.Mutex` in starvation mode hands itself to who waited longest (`SF` of `Enter`). In
`RagWatch` the loop's select takes each of its cases in the end, another writer ends, and nothing else
has to happen.

## What is proved

TLAPS checks, for any sets of handles, workers, calls and kinds of record and any bounds:

* `JournalTypeCorrect` and `EpochsHold` (`JetStreamJournalProofs`, of `Contract!Spec`): under the contract a journal is
  one stretch of records after another, each of one handle. It is the reason a worker
  that finds its tail moved may conclude that it has lost the run for good. The proof is
  by the contract's guard: only a handle that never wrote, or wrote last, adds.
* `TypeCorrect` and `Implementation` (`JetStreamJournalProofs`): the JetStream backend refines
  the contract.
* `TypeCorrect` and `ContractKept` (`AgentRunProofs`): so do workers that load, open, claim,
  answer, run, crash and take over, with what they do to their handles as `agent.Run` does
  it. With `EpochsHold` that makes a run's journal the work of one worker after another.
* `RunsOnce`, `WaitsQuietly`, `ModelHasAnswers`, `JournalReadable` and `CompletedAnswered`
  (`AgentRunProofs`): the five invariants the runs check of resumed turns, `NoRepeat`, `QuietResume`,
  `ModelSeesAnswers`, `StaysReadable` and `CompletedHasAnswer`, hold for any number of workers, calls,
  replies and messages.
* `TypeCorrect`, `ReportedOnce`, `Implementation` and `ReasonHolds` (`ServeServerProofs`): the server reports work
  once, refines `WorkReport`, and returns nil only for a cancellation or the program's drain.
* `TypeCorrect`, `ToldOnce`, `WorkersAccounted` and `TurnsApart` (`A2AEndpointProofs`): a caller is told
  one ending, workers are accounted for, and a conversation has one run.
* `PrompterAdds`, `StillKept` and `AnswersRight` (`A2AEndpointProofs`): the endpoint with a prompter in it does nothing
  the endpoint alone may not do, so keeps all that; and an answer is that of its own question.
* `SlackTypeCorrect`, `OneTurnAThread`, `LinesHeldByOne` and `BacklogBounded` (`SlackThreadsProofs`), all of
  `TurnsKept`: one turn a thread, one turn a line, and a bounded backlog.
* `TypeCorrect`, `AnswersKept`, `AnswerPaidOnce` and `AnsweredFromJournal` (`AsyncJobsProofs`): an answer is worked out once
  and a task answered from its journal only, unless a run claimed the journal with the answer in it on a view from
  before its end. The load, the test, the claim, the answer and the terminal record are separate steps there.
* `AdoptsItsOwn` and `RestHolds` (`JetStreamJournalProofs`): an acknowledged record is its handle's own and
  the next fence, and a journal called at rest has no turn in flight.
* `LocksHold` and `OpenedByOne` (`FileJournalProofs`): one process at a time has a file journal open, with deletes
  at any moment, unless one took the lock file from a process that was opening the run.
* `AllClosed` and `OneToolEachName` (`McpToolsProofs`): no session with an MCP server outlives `Close`, and a
  run has one tool behind each name.

`Implementation` of `JetStreamJournalProofs` needs an inductive invariant, `IInv`, for two reasons. The fence compares
a stream sequence, while the contract speaks of the record's own number and of its writer;
so `PublishInv` ties the three: a publish fenced on `f` carries the number after
that of record `f`, and its handle, if it wrote at or before `f`, wrote `f`. And a publish
may outlive the `Append` that sent it, so the same has to hold of everything in `net` and
not only of what its handle waits for; a publish fenced on 0, which an empty run
accepts even after a delete, must be the only one its handle ever sent. `HandleInv` says the
same of each handle's `last` and `tail`, `NumberedFromOne` of the log. `Inductive` proves
`IInv` relative to `TypeOK`, one case for each action; `FenceIsEnough` draws the conclusion
that `StoreRecord` is `RunJournal!Store`; `StepSimulation` maps every step. A delete between
a publish and its arrival is covered: the fence is then 0 or below the tail, and fails.

`ContractKept` stands on `Handles`: a worker before its claim has written nothing, and one
behind it knows a tail that it wrote itself. An append that finds the tail to be the
log's end then comes from whoever wrote last or from somebody who never wrote, which
is all the contract asks. The first half is why the claim comes before anything else: a
handle that has only been opened may have a tail of somebody else's. `TypeInv` adds that
`seq` is never past `tail`, so that the record `CheckAppend` passes over is never one the
log lacks. The two dozen actions are reduced first (`Opening`, `Turning`, `Calling`,
`Modelling`, `Ending`, together `EveryStep`) to one relation on the handle, `WorkerStep`:
it is dropped, taken, left alone, or has appended one record; the invariant and the
refinement are proved of that.

On the serving side the arguments are shorter. `ReportedOnce` and the server's `Implementation` stand on
`WorkSteps`: whatever a step does, it moves one piece of work along its path and counts a
report exactly on the two moves that make one. `ReasonHolds` needs to know why anything was ever
closed: `ReleaserInv` says that whoever began to release is the program, a fault, or a `Stop` behind a
`Serve` that had returned. `ToldOnce` is by `ToldInv`, what may have been said to a caller at each place of
its request; `TurnsApart` and `WorkersAccounted` by `HoldInv`, which says of the map `inFlight` that it is
one-to-one, also in conversations. `AnswersKept` is why a job is paid for once, as far as it is: outside the
jobs in `blind`, a run that holds the claim of its journal and is at work stands behind no answer, because it claimed
a journal without one and whoever else might have answered since has lost the claim. A run that is superseded neither answers
nor reopens the journal; one whose claim fell behind the answer puts its job in `blind`.

`AdoptsItsOwn` is by `OwnInv`: nobody else can take a handle's tail or its acknowledgement away
(`OwnKept`), and what a read back adopts bears the handle's nonce. `RestHolds` needs `TurnInv`, over the log, the
publishes under way and those still wanted alike: a result of a turn comes behind a record of the same turn, so the
results behind an end were supplied and belong to none. `LockInv` relates the three things a lock is
made of, the file at its path, the file a handle has open and the flock on it. Nobody compares them: `AcquireLock`
flocks what `OpenLock` opened, wherever that is by then. `FlockInv` says what holds whatever is deleted: who writes has a
flock, and no lock file has two. `PathInv` says that, unless `Delete` undercut somebody, whoever has opened the journal at
its path, or is about to, has the lock file at its path; one that holds an older, removed journal may have an older lock file, and
shares neither with anybody who came later. Together they give `OneHolder`. `AllClosed` is by `EntryInv`: whoever opens a session
holds its entry's lock, which `Close` waits for, and nobody begins to once `closed` is set, because `live`
looks at it again under the lock.

What `AgentRun` says of resumed turns needs more of a step than its handle. `Moves(w)` says of every action where it
leaves from, where it leads and what it writes, and `EveryMove` that each action is such a move; the
invariants are then proved of moves. `Place(w)` is what a worker's `pc` says of the rest of its record. `Course(w)` says that
a worker behind whose load nobody else has written, up to its own last record (`Alone`), knows exactly what the journal leaves unanswered: this is what the
three properties with a `Stale` in them stand on, and it is a case over every record a worker may add, by what `Fold`
makes of a log with one record more (`FoldMore`, `FoldAdded` and the lemmas before them).
`Quiet(w)` follows a worker that found all its calls waiting, from load to end. `Once(w)` is why nothing runs
twice: everything in a batch's `todo` was unanswered in `view`, and what was written since is the worker's own, or lies
between its load and its claim. The exceptions of `NoRepeat` are met exactly there, and cannot be dropped.

In `SlackThreads` a turn is in one of a few places, and each action is one of a few moves between them (`Moves`
again). `Kept` ties the places to `inFlight`, `waiting` and `queued`, both ways and without repetition; ties the counters
`parked` and `handed` to the number of turns in a place; and says that a taken line is carried by exactly one turn. `Backlog` is not
inductive: it needs that the puller holds one turn at a time and that a turn which moves from a queue to `waiting` leaves the
sum alone, which are the conjuncts of `Counts`. `Finish` of the module bounds follow-ups by the turns there are (`MaxTurns`).

`PrompterAdds` is a refinement: each step of the composition is one of the endpoint or leaves it alone, so all that
was proved of the endpoint's steps (`Safety`, its specification without fairness) is inherited. `AnswersRight` is by `AnswerInv`: what lies
in a question's buffer, or came out of it, is addressed to that question, and its sender has been told that it was delivered.

`OneToolEachName` says of every run that has not ended what `OneToolAName` says of a live one, and two things beside: a
server yet to be imported has no tools in the run, or its import would leave the replaced names claimed; and only
runs that are live or ended are told of lists (`ToldInv`), or a list could come before the import. The first needs
that no server is configured twice, which `Connect` refuses (`mcpclient.go:173-178`), now part of `ServerAssumption`.

The theorems assume only what the modules' `ASSUME`s say, which TLC evaluates in every
run. The assumptions are that bounds are numbers,
that labels such as `"none"` are no answers, tasks, runs or servers, that a line has a thread, and that no server is
configured twice.

Model-checked only:

* `ContractWhileUsable` of `FileJournal`: its refinement mapping flattens the lines of a file, which is recursion over data
  and out of the provers' reach. Every other invariant the runs check is proved.
* Liveness under fairness: `Ends`, `FaultEnds`, `Answered`, `DrainEnds`, `DrainEndsQuestions`, `CancelEnds`, `CloseEnds`,
  `AnswerArrives`, `Answers`, `AnswerUsed`, `Latest` and all three properties of `RagWatch`.

## What is not modelled

* Listing and paging of sessions, summaries, usage counters, messages' texts: they read.
* Token budgets and iteration caps are choices and not arithmetic.
* `rotateSession` (a chat's cleared context), standing approvals and memory revisions.
* The hold's clock: a tail may be older than the hold at any time, which allows more than
  any clock does. `OpenPastHold` covers a hold of zero.
* Platforms without flock (`lock_other.go`), where two processes may hold a file journal.
* JetStream itself is taken to do what its client is told: a publish is stored if and only
  if its fence holds, and is stored once.
* A2A: the approval a request may carry, the stream of a run's events, several endpoints on
  one transport, and the client's side. Slack: what is posted but the questions, the stop button, envelopes
  delivered twice, answers typed as mentions, a registry of questions at its bound, and a restart of the worker (a press
  on a question of before it does what `PressUnknown` does). The web and the embedded channel.
* RAG: chunks, embeddings, the vector tier, reindexing and search. MCP: transports, credentials,
  filters, schemas; the server fisk-ai offers itself.
* Memory's compare and set: see the plan. Telemetry, displays, configuration and text
  filters are per process and sequential: not planned.

## Plan

1. *(done)* `RunJournal`, `JetStreamJournal`, `FileJournal`; refinement by both backends, proved
   for JetStream.
2. *(done)* `SessionFold`, `AgentRun`: resumes, takeovers, deferrals, follow-ups, chats; the
   contract proved.
3. *(done)* `ServeServer`, `A2AEndpoint`: reports, endings, drains, with liveness.
4. *(done)* `AsyncJobs`: redelivery, lost leases, dispositions.
5. *(done)* Questions (`ElicitPrompter`, `A2AQuestions`) and `SlackThreads`.
6. *(done)* `McpTools` and `RagWatch`; the safety properties of
   `ServeServer`, `A2AEndpoint`, `AsyncJobs`, the lock of `FileJournal` and `NoSessionLeft` proved;
   then those of `AgentRun`, `SlackThreads`, the questions and `OneToolAName`.
7. Memory's compare and set.
8. The web's pending question against what `completePending` asks next; context resets and
   grants in `AgentRun`.

Theorems to come: those of the modules in 7 and 8; for the file journal, the step of `ContractWhileUsable` as far as it can be
stated without flattening.

## Running

```
tlc -workers 2 -config JetStreamJournal.cfg MCJetStreamJournal
tlapm JetStreamJournalProofs.tla
```

and likewise for each `*Proofs` module, and for each `.cfg` with the module `PROJECT.json` names for
its run. Each run takes between a few seconds and three minutes; the proofs take a few minutes.
