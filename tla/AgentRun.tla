------------------------------ MODULE AgentRun ------------------------------
(***************************************************************************)
(* agent.Run on a journaled run, and SupplyToolResult beside it: workers   *)
(* load a run, open it, claim it, finish the turn they found in flight,    *)
(* call the model and run its tools, journaling each step before the next. *)
(* They crash anywhere and others resume after them.                       *)
(*                                                                         *)
(* The journal is RunJournal's as both backends keep it: an append is      *)
(* fenced on the tail its handle knows.  Open hands the run to anybody, as *)
(* the JetStream backend does past its hold; the file backend's lock allows*)
(* fewer of these behaviours.  An append that fails leaves the runner's    *)
(* next sequence number a gap, so nothing more is written: to the journal  *)
(* it is a crash.                                                          *)
(***************************************************************************)
EXTENDS SessionFold

CONSTANTS
    Worker,     \* one for each agent.Run and each SupplyToolResult
    Mode,       \* what they may be run for
    MaxTurn,    \* bound: replies in a journal
    MaxUser     \* bound: user messages in a journal behind the first

ASSUME ModeAssumption == Mode \subseteq {"plain", "followUp", "chat", "answer", "supply"}
ASSUME BoundAssumption == MaxTurn \in Nat /\ MaxUser \in Nat

VARIABLES
    log,    \* the journal's records
    run     \* w -> what its process holds

vars == <<log, run>>

\* No tool is running; no turn has ended.
NoCall == [turn |-> 0, call |-> 0]
NoReason == "none"

Run == [
    pc : {"new", "loaded", "opened", "answering", "turn", "batch", "tool", "model",
          "ended", "prompt", "closed"},
    mode : Mode \union {"plain", "none"},   \* what the caller wants of it
    view : Nat,                             \* how many records there were at its load
    tail : Nat,                             \* the last record its journal handle knows of
    seq : Nat,                              \* r.seq: the last record its runner numbered
    given : CallId \union {NoCall},         \* the call its caller's answer was for
    pending : BOOLEAN,                      \* r.pending: a restored turn is to be completed
    todo : SUBSET CallId,                   \* the calls of its batch still to be run
    waiting : BOOLEAN,                      \* a call of its batch is deferred
    doing : CallId \union {NoCall},         \* the call its tool is running for
    reason : Reason \union {NoReason}]      \* why its last turn ended

TypeOK ==
    /\ log \in Seq(Record(Worker))
    /\ run \in [Worker -> Run]
    /\ \A w \in Worker : run[w].seq <= run[w].tail /\ run[w].tail <= Len(log)

\* A process that is not there: nothing but what it once loaded is known of it.
Gone(pc, view) == [
    pc |-> pc, mode |-> "none", view |-> view, tail |-> 0, seq |-> 0, given |-> NoCall,
    pending |-> FALSE, todo |-> {}, waiting |-> FALSE, doing |-> NoCall, reason |-> NoReason]

Init ==
    /\ log = << >>
    /\ run = [w \in Worker |-> Gone("new", 0)]

-----------------------------------------------------------------------------
(* The journal handle. *)

Meta(w, m) == [by |-> w, kind |-> "meta", interactive |-> m = "chat"]
Claimed(w) == [by |-> w, kind |-> "claim"]
UserTurn(w) == [by |-> w, kind |-> "user"]
Assistant(w, calls, stop) == [by |-> w, kind |-> "assistant", calls |-> calls, stop |-> stop]
Result(w, id) == [by |-> w, kind |-> "result", id |-> id]
Deferral(w, id) == [by |-> w, kind |-> "deferred", id |-> id]
Terminal(w, why) == [by |-> w, kind |-> "terminal", reason |-> why]

HeldAlways(w) == TRUE

\* Nobody has written since this handle did, or was opened: what CheckHeld asks
\* and what fences an append.
Held(w) == run[w].tail = Len(log)

SeqBeforeClaim(w) == run[w].tail
SeqOfNext(w) == Len(log) + 2

\* j.LastSeq, read once the record that is appended now has landed.
RestoredSeq(w) == Len(log) + 1

\* Append the record behind the last one the handle knows of; the runner, which is
\* then r, counts on from it.
AppendNext(w, rec, r) ==
    /\ Held(w)
    /\ log' = Append(log, rec)
    /\ run' = [run EXCEPT ![w] = [r EXCEPT !.tail = Len(log) + 1, !.seq = RestoredSeq(w)]]

\* runner.emit, which numbers the record itself.  CheckAppend passes one numbered below
\* the handle's tail over as recorded before, and refuses one past it.
Emit(w, rec, r) ==
    LET known == run[w].seq < run[w].tail
    IN /\ known \/ (run[w].seq = run[w].tail /\ Held(w))
       /\ log' = IF known THEN log ELSE Append(log, rec)
       /\ run' = [run EXCEPT ![w] =
                    [r EXCEPT !.tail = IF known THEN run[w].tail ELSE Len(log) + 1,
                              !.seq = run[w].seq + 1]]

\* A step that writes nothing.
Becomes(w, r) ==
    /\ run' = [run EXCEPT ![w] = r]
    /\ UNCHANGED log

\* What w knows of the run: what it loaded, and the answer its caller gave.
State(w) ==
    LET loaded == Fold(log, run[w].view)
    IN [loaded EXCEPT !.unanswered = @ \ {run[w].given}, !.waiting = @ \ {run[w].given}]

-----------------------------------------------------------------------------
(* agent.Run up to the loop. *)

Create(w, m) ==
    /\ run[w].pc = "new"
    /\ log = << >>
    /\ m \in {"plain", "chat"}
    /\ log' = <<Meta(w, m)>>
    /\ run' = [run EXCEPT ![w] =
                 [@ EXCEPT !.pc = "turn", !.mode = m, !.tail = 1, !.seq = 1]]

\* A chat is resumed as a chat, and only a chat is.
Agrees(m) == m = "supply" \/ (log[1].interactive <=> m = "chat")

\* What a resume and a supplier refuse on what they loaded.
Refused(m, state) ==
    \/ m \in {"plain", "chat", "answer"} /\ state.completed
    \/ m = "supply" /\ state.waiting = {}

Load(w, m) ==
    /\ run[w].pc = "new"
    /\ log # << >>
    /\ ~Corrupt(log)
    /\ Agrees(m)
    /\ ~Refused(m, Fold(log, Len(log)))
    /\ Becomes(w, [run[w] EXCEPT !.pc = "loaded", !.mode = m, !.view = Len(log)])

\* store.Open, which knows nothing of what was loaded.
OpenJournal(w) ==
    /\ run[w].pc = "loaded"
    /\ Becomes(w, [run[w] EXCEPT !.pc = "opened", !.tail = Len(log)])

EntryAnyChat(w) ==
    CASE run[w].mode = "followUp" /\ State(w).boundary -> "prompt"
      [] run[w].mode = "chat"                          -> "ended"
      [] run[w].mode = "answer"                        -> "answering"
      [] OTHER                                         -> "turn"

\* Where the claim leads: to the caller's follow-up, the input bar, the answer in hand
\* or the turn in flight.
Entry(w) ==
    CASE run[w].mode = "followUp" /\ State(w).boundary -> "prompt"
      [] run[w].mode = "chat" /\ State(w).boundary     -> "ended"
      [] run[w].mode = "answer"                        -> "answering"
      [] OTHER                                         -> "turn"

\* claimRun.  Nothing is loaded again: what the run goes on with is what it loaded.
Claim(w) ==
    /\ run[w].pc = "opened"
    /\ run[w].mode # "supply"
    /\ AppendNext(w, Claimed(w),
         [run[w] EXCEPT !.pc = Entry(w), !.pending = Pending(State(w)),
                        !.reason = IF Entry(w) = "ended" THEN "completed" ELSE @])

\* Checkpoint.Answer: AnswerDeferredCall under the claim.  A call that is not waiting
\* fails the resume.
Answer(w) ==
    /\ run[w].pc = "answering"
    /\ \E id \in State(w).waiting :
          AppendNext(w, Result(w, id), [run[w] EXCEPT !.pc = "turn", !.given = id])

\* SupplyToolResult: the same record, by somebody who runs nothing.
Supply(w) ==
    /\ run[w].pc = "opened"
    /\ run[w].mode = "supply"
    /\ \E id \in State(w).waiting :
          /\ Held(w)
          /\ log' = Append(log, Result(w, id))
          /\ run' = [run EXCEPT ![w] = Gone("closed", @.view)]

-----------------------------------------------------------------------------
(* runner.loop. *)

UnrunOrDeferred(w) == State(w).unanswered

\* The calls a restored turn still has to run.
Unrun(w) == State(w).unanswered \ State(w).waiting

WaitsOnNobody(w) == FALSE

StillWaiting(w) == State(w).waiting # {}

\* completePending starts from what was restored, however often it is entered.
CompletePending(w) ==
    /\ run[w].pc = "turn"
    /\ run[w].pending
    /\ Becomes(w, [run[w] EXCEPT !.pc = "batch", !.todo = Unrun(w), !.waiting = StillWaiting(w)])

SkipPending(w) ==
    /\ run[w].pc = "turn"
    /\ ~run[w].pending
    /\ Becomes(w, [run[w] EXCEPT !.pc = "model"])

\* The turn ends, and what it left undone is nothing to the process any more.
Ended(r, why) ==
    [r EXCEPT !.pc = "ended", !.reason = why, !.todo = {}, !.waiting = FALSE, !.doing = NoCall]

\* Every call of the batch is answered, here or before.
BatchDone(w) ==
    /\ run[w].pc = "batch"
    /\ run[w].todo = {}
    /\ ~run[w].waiting
    /\ Becomes(w, [run[w] EXCEPT !.pc = "model", !.pending = FALSE])

\* Every call of the batch is answered or deferred: the turn cannot be committed.
BatchWaits(w) ==
    /\ run[w].pc = "batch"
    /\ run[w].todo = {}
    /\ run[w].waiting
    /\ Becomes(w, Ended(run[w], "stopped"))

\* The batch runs in the order the model asked, one call at a time.
NextCall(w) ==
    CHOOSE id \in run[w].todo : \A other \in run[w].todo : id.call <= other.call

HasCall(w) == run[w].pc = "batch" /\ run[w].todo # {}

Settled(w, id) == [run[w] EXCEPT !.pc = "batch", !.todo = @ \ {id}, !.doing = NoCall]

\* executeTool answers a call itself: no such tool, arguments missing, a policy's or
\* the operator's refusal.
RefuseCall(w) ==
    /\ HasCall(w)
    /\ Emit(w, Result(w, NextCall(w)), Settled(w, NextCall(w)))

\* The operator asked to approve it will answer later.
DeferCall(w) ==
    /\ HasCall(w)
    /\ Emit(w, Deferral(w, NextCall(w)), [Settled(w, NextCall(w)) EXCEPT !.waiting = TRUE])

\* checkStillHeld answers yes, and the tool is started.
Dispatch(w) ==
    /\ HasCall(w)
    /\ Held(w)
    /\ Becomes(w, [run[w] EXCEPT !.pc = "tool", !.doing = NextCall(w)])

\* A hook's error, a run that is not held or cannot be asked for, or an operator who
\* did not answer, before the tool was started.
AbortCall(w) ==
    /\ HasCall(w)
    /\ \E why \in {"failed", "stopped"} : Becomes(w, Ended(run[w], why))

ToolAnswers(w) ==
    /\ run[w].pc = "tool"
    /\ Emit(w, Result(w, run[w].doing), Settled(w, run[w].doing))

\* journalDeferral.
ToolDefers(w) ==
    /\ run[w].pc = "tool"
    /\ Emit(w, Deferral(w, run[w].doing), [Settled(w, run[w].doing) EXCEPT !.waiting = TRUE])

\* The tool ran and its result is lost: PostToolUse failed, or it asked the operator
\* something that was not answered.
ToolFails(w) ==
    /\ run[w].pc = "tool"
    /\ \E why \in {"failed", "stopped"} : Becomes(w, Ended(run[w], why))

Replies == {p \in 1..Len(log) : log[p].kind = "assistant"}

\* The provider's error, a hook's, a requested suspend or the iteration cap.
NoReply(w) ==
    /\ run[w].pc = "model"
    /\ \E why \in {"failed", "stopped"} : Becomes(w, Ended(run[w], why))

\* How the loop goes on behind a reply: a PostModelCall hook may end the turn whatever
\* the reply is, and so does one that is cut off.  One that asks for nothing more
\* completes the turn.  The calls of any other are run, unless it is over budget.
AfterReply(w, calls, stop) ==
    LET final == calls = {} /\ stop = "done"
        batch == {[turn |-> Len(log) + 1, call |-> c] : c \in calls}
    IN {Ended(run[w], "failed")} \union
       CASE stop = "cut" -> {}
         [] final        -> {Ended(run[w], "completed")}
         [] OTHER        -> {Ended(run[w], "stopped"),
                             [run[w] EXCEPT !.pc = "batch", !.todo = batch]}

\* The reply is journaled before anything is done about it.  Pausing adds nothing to a
\* reply that has calls.
Reply(w, calls, stop) ==
    /\ run[w].pc = "model"
    /\ stop = "pause" => calls = {}
    /\ Cardinality(Replies) < MaxTurn
    /\ \E r \in AfterReply(w, calls, stop) : Emit(w, Assistant(w, calls, stop), r)

-----------------------------------------------------------------------------
(* runner.run: what follows a turn. *)

Continuable(why) == why \in {"completed", "failed"}

Messages == {p \in 1..Len(log) : log[p].kind = "user"}

\* The caller's follow-up is its next turn, a chat asks its operator.
TakePrompt(w) ==
    /\ run[w].pc = "ended"
    /\ run[w].mode \in {"followUp", "chat"}
    /\ Continuable(run[w].reason)
    /\ Becomes(w, [run[w] EXCEPT !.pc = "prompt"])

\* followUpTurn and the interactive follow-up: the message is journaled before the
\* model is called.  A follow-up is delivered once and leaves an ordinary run.
Prompt(w) ==
    /\ run[w].pc = "prompt"
    /\ Cardinality(Messages) < MaxUser
    /\ Emit(w, UserTurn(w),
         [run[w] EXCEPT !.pc = "turn", !.reason = NoReason,
                        !.mode = IF @ = "followUp" THEN "plain" ELSE @])

\* A hook's error or, for a follow-up, its refusal, or a conversation over budget.
NoPrompt(w) ==
    /\ run[w].pc = "prompt"
    /\ \E why \in {"failed", "stopped"} :
          Becomes(w, [run[w] EXCEPT !.pc = "ended", !.reason = why, !.mode = "plain"])

\* Why the run is over: an operator who leaves a chat or clears its context suspends it,
\* and one who aborts it at the prompt fails it.
Outcomes(w) ==
    {run[w].reason} \union
        (IF run[w].mode = "chat" /\ Continuable(run[w].reason) THEN {"stopped", "failed"} ELSE {})

\* The terminal record.  A cancelled run writes it without asking for a prompt.
Finish(w) ==
    /\ run[w].pc = "ended"
    /\ \E why \in Outcomes(w) : Emit(w, Terminal(w, why), Gone("closed", run[w].view))

\* It crashes, gives up, or an append of its fails.
Vanish(w) ==
    /\ run[w].pc \notin {"new", "closed"}
    /\ Becomes(w, Gone("closed", run[w].view))

Next ==
    \E w \in Worker :
        \/ \E m \in Mode : Create(w, m) \/ Load(w, m)
        \/ OpenJournal(w)
        \/ Claim(w)
        \/ Answer(w)
        \/ Supply(w)
        \/ CompletePending(w)
        \/ SkipPending(w)
        \/ BatchDone(w)
        \/ BatchWaits(w)
        \/ RefuseCall(w)
        \/ DeferCall(w)
        \/ Dispatch(w)
        \/ AbortCall(w)
        \/ ToolAnswers(w)
        \/ ToolDefers(w)
        \/ ToolFails(w)
        \/ NoReply(w)
        \/ \E calls \in SUBSET Call, stop \in Stop : Reply(w, calls, stop)
        \/ TakePrompt(w)
        \/ Prompt(w)
        \/ NoPrompt(w)
        \/ Finish(w)
        \/ Vanish(w)

Spec == Init /\ [][Next]_vars

-----------------------------------------------------------------------------
(* Properties. *)

\* Where w's claim is; its creator has none and needs none.
ClaimAt(w) == Latest({p \in 1..Len(log) : log[p] = Claimed(w)})

\* w, resuming or answering, wrote behind a record of somebody else's that was not there
\* when it loaded the run.
Stale(w) ==
    \E p, q \in 1..Len(log) :
        run[w].view < p /\ p < q /\ log[p].by # w /\ log[q].by = w

\* r.emit and the claim keep the journal's promise to its callers: what workers write
\* is one stretch of records for each, numbered as they lie.
Journal == INSTANCE RunJournal WITH
    Handle <- Worker,
    Kind   <- {"meta", "claim", "user", "assistant", "result", "deferred", "terminal"},
    log    <- [p \in 1..Len(log) |-> [by |-> log[p].by, kind |-> log[p].kind, seq |-> p]],
    gone   <- 0,
    acked  <- 1..Len(log)

KeepsContract == Journal!Spec

\* completePending reuses what the journal has (runner.go 1397-1408).  A tool that was
\* started by a worker that still holds the run has no result and no deferral in the
\* journal, but for one that landed between the worker's load and its claim, and one
\* of its own from before a prompt that followed the turn's failure.
NoRepeat ==
    \A w \in Worker : run[w].pc = "tool" =>
        \A p \in 1..run[w].tail :
            log[p].kind \in {"result", "deferred"} /\ log[p].id = run[w].doing =>
                \/ run[w].view < p /\ p < ClaimAt(w)
                \/ log[p].by = w /\ \E q \in p..Len(log) : log[q] = UserTurn(w)

\* "A resume before the answer arrives costs a load and two records" (runner.go
\* 1125-1126): a worker that found a turn waiting on deferred answers alone, and has
\* none of them, runs no tool, calls no model, takes no prompt and writes no more than
\* its claim and its terminal record.
QuietResume ==
    \A w \in Worker :
        LET found == Fold(log, run[w].view)
            own   == {p \in 1..Len(log) : log[p].by = w}
        IN /\ run[w].pc \notin {"new", "loaded", "closed"}
           /\ run[w].mode \notin {"answer", "supply"}
           /\ found.waiting # {} /\ found.waiting = found.unanswered
           => /\ run[w].pc \notin {"tool", "model", "prompt"}
              /\ \A p \in own : log[p].kind \in {"claim", "terminal"}

\* "A turn cannot be handed to the model while a tool_use has no result" (runner.go
\* 1407-1409): a worker that is not stale and holds the run calls the model only when
\* the journal has an answer for every call of the turn in flight.
ModelSeesAnswers ==
    \A w \in Worker :
        run[w].pc = "model" /\ Held(w) /\ ~Stale(w) => Fold(log, Len(log)).unanswered = {}

\* Whatever crashes and takeovers there are, the journal stays one Fold reads, unless
\* somebody wrote on a stale view or a prompt was taken behind an unfinished turn.
StaysReadable ==
    Corrupt(log) =>
        \/ \E w \in Worker : Stale(w)
        \/ \E p \in 1..Len(log) : log[p].kind = "user" /\ Fold(log, p - 1).unanswered # {}

\* A run is closed as completed only behind a reply that asked for nothing more: what
\* Completed's callers, who refuse to resume such a run, go by.
CompletedHasAnswer ==
    \A p \in 1..Len(log) :
        log[p].kind = "terminal" /\ log[p].reason = "completed"
            => (\E w \in Worker : Stale(w)) \/ Fold(log, p).boundary

-----------------------------------------------------------------------------
(* What the code says of itself, and does not keep; AnsweredOnce has a run of its own. *)

\* "A journal that moved between these two points is refused by the append rather than
\* accepted on a stale view" (supply.go 75-76): nobody answers an answered call.
AnsweredOnce ==
    [][\A w \in Worker :
          (Supply(w) \/ Answer(w)) =>
              log'[Len(log')].id \notin Said(log, 0, Len(log), "result")]_vars

\* "A turn truncated at the output token cap may carry a partial tool_use whose input is
\* incomplete, so it must never be executed" (runner.go 1315-1317).
TruncatedNeverRuns ==
    \A w \in Worker : run[w].pc = "tool" => log[run[w].doing.turn].stop # "cut"

\* "Its tools are all answered by the time the operator was handed the input bar"
\* (state.go, Fold): a user message closes a turn that has all its answers.
PromptFollowsAnswers ==
    \A p \in 1..Len(log) : log[p].kind = "user" => Fold(log, p - 1).unanswered = {}

\* Completed "reports whether the last run in this journal ended by answering" (state.go):
\* a run with a call in flight has begun anew, and may be resumed.
CompletedIsOver ==
    LET state == Fold(log, Len(log))
    IN state.completed => (\E w \in Worker : Stale(w)) \/ state.unanswered = {}
=============================================================================
