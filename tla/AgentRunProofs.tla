--------------------------- MODULE AgentRunProofs ---------------------------
(***************************************************************************)
(* Workers that load, open, claim, resume, crash and take over keep the    *)
(* journal contract and what a resume promises: for any number of workers, *)
(* calls, replies and messages.                                            *)
(*                                                                         *)
(* The argument for the contract has two halves.  WorkerStep says what any *)
(* step of a worker may do to its journal handle and the log, and          *)
(* EveryStep that every action is one of those.  Handles, the inductive    *)
(* invariant, is then only about the handle: it has written nothing before *)
(* its claim, and after it the last record it knows of is its own.         *)
(*                                                                         *)
(* What resumes promise needs more of a step: Moves says where it leaves   *)
(* from, where it leads and what it writes, and EveryMove that every       *)
(* action is such a move.  Four invariants are kept by moves: Place, what  *)
(* a worker's program counter says of the rest of it; Course, that a       *)
(* worker nobody wrote in between knows what is unanswered; Quiet, the way *)
(* of one that found nothing to do; and Once, that what it is about to run *)
(* has no answer it could have seen.                                       *)
(***************************************************************************)
EXTENDS AgentRun, TLAPS, WellFoundedInduction

\* It holds the run, or did: it has written.
Active(pc) == pc \notin {"new", "loaded", "opened", "closed"}

\* A worker's record, with what its place says of the rest.
WorkerOK(r) ==
    /\ r \in Run
    /\ r.seq <= r.tail
    /\ r.pc = "ended" => r.reason \in Reason
    /\ r.pc = "tool" => r.doing \in CallId

TypeInv ==
    /\ log \in Seq(Record(Worker))
    /\ run \in [Worker -> Run]
    /\ \A w \in Worker :
          /\ WorkerOK(run[w])
          /\ run[w].tail <= Len(log)
          /\ run[w].view <= Len(log)

Handles ==
    \A w \in Worker :
        /\ run[w].pc \in {"new", "loaded", "opened"} => \A p \in 1..Len(log) : log[p].by # w
        /\ Active(run[w].pc) => run[w].tail \in 1..Len(log) /\ log[run[w].tail].by = w

\* The log is as it was, and so is the handle unless it is new.
Silent(w) ==
    /\ log' = log
    /\ \/ run[w].pc \in {"new", "loaded"} /\ run'[w].pc \in {"loaded", "opened"}
       \/ run'[w].pc = "closed"
       \/ Active(run[w].pc) /\ Active(run'[w].pc) /\ run'[w].tail = run[w].tail

\* The log has one more record, of a worker that has it whole.
Writes(w) ==
    /\ \E rec \in Record(Worker) : rec.by = w /\ log' = Append(log, rec)
    /\ log = << >> \/ (Held(w) /\ run[w].pc \notin {"new", "loaded", "closed"})
    /\ run'[w].pc = "closed" \/ (Active(run'[w].pc) /\ run'[w].tail = Len(log) + 1)

WorkerStep(w) ==
    /\ run' = [run EXCEPT ![w] = run'[w]]
    /\ WorkerOK(run'[w])
    /\ run'[w].tail <= Len(log')
    /\ run'[w].view <= Len(log')
    /\ Silent(w) \/ Writes(w)

-----------------------------------------------------------------------------
(* Least and greatest elements. *)

\* A set of natural numbers has a least element.
LEMMA HasMin ==
    ASSUME NEW T, T \subseteq Nat, T # {}
    PROVE  \E x \in T : \A y \in T : x <= y
<1>1. PICK x \in T : \A y \in T : ~ (<<y, x>> \in OpToRel(<, Nat))
  BY NatLessThanWellFounded, WFMin
<1>2. \A y \in T : <<y, x>> \in Nat \X Nat
  OBVIOUS
<1>3. \A y \in T : ~(y < x)
  BY <1>1, <1>2 DEF OpToRel
<1> QED
  BY <1>3

\* A set of positions has a last one.
LEMMA HasMax ==
    ASSUME NEW n \in Nat, NEW S, S \subseteq 1..n, S # {}
    PROVE  \E x \in S : \A y \in S : y <= x
<1> DEFINE T == {d \in Nat : n - d \in S}
<1>1. \A y \in S : y \in Int /\ y <= n /\ n - y \in Nat /\ n - (n - y) = y
  OBVIOUS
<1>2. \A y \in S : n - y \in T
  BY <1>1
<1>3. T \subseteq Nat /\ T # {}
  BY <1>2
<1>4. PICK d \in T : \A e \in T : d <= e
  BY <1>3, HasMin
<1>5. n - d \in S /\ d \in Nat
  OBVIOUS
<1>6. \A y \in S : y <= n - d
  <2> TAKE y \in S
  <2>1. d <= n - y
    BY <1>2, <1>4
  <2> QED
    BY <1>1, <1>5, <2>1
<1> QED
  BY <1>5, <1>6

\* Latest is one of the positions it is asked about.
LEMMA LatestIsOne ==
    ASSUME NEW n \in Nat, NEW S, S \subseteq 1..n, S # {}
    PROVE  Latest(S) \in S
BY HasMax DEF Latest

-----------------------------------------------------------------------------
(* Records, and what a resume reads from them. *)

\* What every record has, and what a reply has.
LEMMA RecordFacts ==
    ASSUME NEW rec \in Record(Worker)
    PROVE  /\ rec.by \in Worker
           /\ rec.kind \in {"meta", "claim", "user", "assistant", "result", "deferred", "terminal"}
           /\ rec.kind = "assistant" => rec.calls \subseteq Call
BY DEF Record

\* The calls a fold names are calls of the open turn.
LEMMA FoldFacts ==
    ASSUME log \in Seq(Record(Worker)), NEW n \in Nat, n <= Len(log)
    PROVE  Fold(log, n).unanswered \subseteq CallId /\ Fold(log, n).waiting \subseteq CallId
<1> DEFINE S == {j \in 1..n : log[j].kind \in {"assistant", "user"}}
<1> DEFINE turn == OpenTurn(log, n)
<1> DEFINE calls == IF turn = 0 THEN {}
                    ELSE {[turn |-> turn, call |-> c] : c \in log[turn].calls}
<1>1. ASSUME turn # 0
      PROVE  turn \in 1..n /\ log[turn].kind = "assistant"
  <2>1. turn = Latest(S) /\ log[turn].kind = "assistant" /\ Latest(S) > 0
    BY <1>1 DEF OpenTurn
  <2>2. S # {}
    BY <2>1 DEF Latest
  <2>3. Latest(S) \in S
    BY <2>2, LatestIsOne
  <2> QED
    BY <2>1, <2>3
<1>2. calls \subseteq CallId
  <2>1. CASE turn = 0
    BY <2>1
  <2>2. CASE turn # 0
    <3>1. turn \in Nat \ {0} /\ log[turn] \in Record(Worker)
      BY <1>1, <2>2
    <3>2. log[turn].calls \subseteq Call
      BY <1>1, <2>2, <3>1, RecordFacts
    <3> QED
      BY <2>2, <3>1, <3>2 DEF CallId
  <2> QED
    BY <2>1, <2>2
<1> HIDE DEF turn
<1>3. Fold(log, n).unanswered \subseteq calls
  BY DEF Fold, turn
<1>4. Fold(log, n).waiting \subseteq calls
  BY DEF Fold, turn
<1> QED
  BY <1>2, <1>3, <1>4

\* And so are those a worker knows of.
LEMMA StateFacts ==
    ASSUME TypeInv, NEW w \in Worker
    PROVE  /\ State(w).unanswered \subseteq CallId
           /\ State(w).waiting \subseteq CallId
<1> DEFINE f == Fold(log, run[w].view)
<1> DEFINE left == f.unanswered \ {run[w].given}
<1> DEFINE asked == f.waiting \ {run[w].given}
<1>1. run[w].view \in Nat /\ run[w].view <= Len(log)
  BY DEF TypeInv, Run
<1>2. f.unanswered \subseteq CallId /\ f.waiting \subseteq CallId
  BY <1>1, FoldFacts DEF TypeInv
<1>3. f = [x \in DOMAIN f |-> f[x]] /\ "unanswered" \in DOMAIN f /\ "waiting" \in DOMAIN f
  BY DEF Fold
<1>4. State(w) = [f EXCEPT !.unanswered = left, !.waiting = asked]
  BY DEF State
<1> HIDE DEF f, left, asked
<1>5. State(w).unanswered = left /\ State(w).waiting = asked
  BY <1>3, <1>4
<1> QED
  BY <1>2, <1>5 DEF left, asked

\* The next call of a batch is one of it.
LEMMA NextCallFacts ==
    ASSUME TypeInv, NEW w \in Worker, run[w].todo # {}
    PROVE  NextCall(w) \in run[w].todo /\ NextCall(w) \in CallId
<1>1. run[w].todo \subseteq CallId
  BY DEF TypeInv, Run
<1>2. \A id \in CallId : id.call \in Nat
  BY CallAssumption DEF CallId
<1> DEFINE T == {id.call : id \in run[w].todo}
<1>3. T \subseteq Nat /\ T # {}
  BY <1>1, <1>2
<1>4. PICK x \in T : \A y \in T : x <= y
  BY <1>3, HasMin
<1>5. \E id \in run[w].todo : \A other \in run[w].todo : id.call <= other.call
  BY <1>4
<1>6. NextCall(w) \in run[w].todo
  BY <1>5 DEF NextCall
<1> QED
  BY <1>1, <1>6

-----------------------------------------------------------------------------
(* The shapes a step can have. *)

\* What a worker writes is a record of its own.
LEMMA NewRecords ==
    ASSUME NEW w \in Worker
    PROVE  /\ \A m : Meta(w, m) \in Record(Worker) /\ Meta(w, m).by = w
           /\ Claimed(w) \in Record(Worker) /\ Claimed(w).by = w
           /\ UserTurn(w) \in Record(Worker) /\ UserTurn(w).by = w
           /\ \A calls \in SUBSET Call, stop \in Stop :
                 /\ Assistant(w, calls, stop) \in Record(Worker)
                 /\ Assistant(w, calls, stop).by = w
           /\ \A id \in CallId :
                 /\ Result(w, id) \in Record(Worker) /\ Result(w, id).by = w
                 /\ Deferral(w, id) \in Record(Worker) /\ Deferral(w, id).by = w
           /\ \A why \in Reason :
                 Terminal(w, why) \in Record(Worker) /\ Terminal(w, why).by = w
<1>1. \A m : Meta(w, m) \in Record(Worker) /\ Meta(w, m).by = w
  BY DEF Meta, Record
<1>2. Claimed(w) \in Record(Worker) /\ Claimed(w).by = w
  BY DEF Claimed, Record
<1>3. UserTurn(w) \in Record(Worker) /\ UserTurn(w).by = w
  BY DEF UserTurn, Record
<1>4. \A calls \in SUBSET Call, stop \in Stop :
        Assistant(w, calls, stop) \in Record(Worker) /\ Assistant(w, calls, stop).by = w
  BY DEF Assistant, Record
<1>5. \A id \in CallId :
        /\ Result(w, id) \in Record(Worker) /\ Result(w, id).by = w
        /\ Deferral(w, id) \in Record(Worker) /\ Deferral(w, id).by = w
  BY DEF Result, Deferral, Record
<1>6. \A why \in Reason : Terminal(w, why) \in Record(Worker) /\ Terminal(w, why).by = w
  BY DEF Terminal, Record
<1> QED
  BY <1>1, <1>2, <1>3, <1>4, <1>5, <1>6

\* A worker at work that writes nothing goes on with the handle it has.
LEMMA Quiets ==
    ASSUME TypeInv, NEW w \in Worker, NEW r, Becomes(w, r), WorkerOK(r),
           r.view = run[w].view, r.tail = run[w].tail,
           Active(run[w].pc), Active(r.pc)
    PROVE  WorkerStep(w)
<1>1. run' = [run EXCEPT ![w] = r] /\ log' = log
  BY DEF Becomes
<1>2. run'[w] = r
  BY <1>1 DEF TypeInv
<1>3. r.tail <= Len(log') /\ r.view <= Len(log')
  BY <1>1 DEF TypeInv
<1>4. Silent(w)
  BY <1>1, <1>2 DEF Silent
<1> QED
  BY <1>1, <1>2, <1>3, <1>4 DEF WorkerStep

\* A worker that lets go of its handle writes nothing.
LEMMA Leaves ==
    ASSUME TypeInv, NEW w \in Worker, Becomes(w, Gone("closed", run[w].view))
    PROVE  WorkerStep(w)
<1> DEFINE r == Gone("closed", run[w].view)
<1>1. run' = [run EXCEPT ![w] = r] /\ log' = log
  BY DEF Becomes
<1>2. run'[w] = r
  BY <1>1 DEF TypeInv
<1>3. run[w].view \in Nat /\ run[w].view <= Len(log) /\ Len(log) \in Nat
  BY DEF TypeInv, Run
<1>4. WorkerOK(r)
  BY <1>3 DEF WorkerOK, Gone, Run
<1>5. r.tail = 0 /\ r.view = run[w].view /\ r.pc = "closed"
  BY DEF Gone
<1>6. Silent(w)
  BY <1>1, <1>2, <1>5 DEF Silent
<1> HIDE DEF r
<1>7. run' = [run EXCEPT ![w] = run'[w]]
  BY <1>1, <1>2
<1>8. run'[w].tail <= Len(log') /\ run'[w].view <= Len(log')
  BY <1>1, <1>2, <1>3, <1>5
<1> QED
  BY <1>2, <1>4, <1>6, <1>7, <1>8 DEF WorkerStep

\* One that emits does so behind all there is, or its record was there before.
LEMMA Emits ==
    ASSUME TypeInv, NEW w \in Worker, NEW rec \in Record(Worker), rec.by = w,
           NEW r, WorkerOK(r), r.view = run[w].view, Emit(w, rec, r),
           Active(run[w].pc), r.pc = "closed" \/ Active(r.pc)
    PROVE  WorkerStep(w)
<1> DEFINE known == run[w].seq < run[w].tail
<1> DEFINE tail == IF known THEN run[w].tail ELSE Len(log) + 1
<1> DEFINE new == [r EXCEPT !.tail = tail, !.seq = run[w].seq + 1]
<1>1. /\ run[w] \in Run /\ run[w].seq \in Nat /\ run[w].tail \in Nat /\ run[w].view \in Nat
      /\ run[w].seq <= run[w].tail /\ run[w].tail <= Len(log) /\ run[w].view <= Len(log)
      /\ Len(log) \in Nat
  BY DEF TypeInv, WorkerOK, Run
<1>2. known \/ (run[w].seq = run[w].tail /\ run[w].tail = Len(log))
  BY DEF Emit, Held
<1>3. log' = (IF known THEN log ELSE Append(log, rec))
  BY DEF Emit
<1>4. run' = [run EXCEPT ![w] = new]
  BY DEF Emit
<1>5. run'[w] = new
  BY <1>4 DEF TypeInv
<1>6. tail \in Nat /\ run[w].seq + 1 \in Nat /\ run[w].seq + 1 <= tail
  BY <1>1, <1>2
<1>7. r \in Run
  BY DEF WorkerOK
<1>8. new \in Run
  BY <1>6, <1>7 DEF Run
<1>9. /\ new.pc = r.pc /\ new.view = r.view /\ new.reason = r.reason /\ new.doing = r.doing
      /\ new.tail = tail /\ new.seq = run[w].seq + 1
  BY <1>7 DEF Run
<1> HIDE DEF new
<1>10. WorkerOK(new)
  BY <1>6, <1>8, <1>9 DEF WorkerOK
<1>11. CASE known
  <2>1. log' = log /\ new.tail = run[w].tail
    BY <1>3, <1>9, <1>11
  <2>2. Silent(w)
    BY <1>5, <1>9, <2>1 DEF Silent
  <2> QED
    BY <1>1, <1>4, <1>5, <1>9, <1>10, <2>1, <2>2 DEF WorkerStep
<1>12. CASE ~known
  <2>1. log' = Append(log, rec) /\ new.tail = Len(log) + 1 /\ run[w].tail = Len(log)
    BY <1>2, <1>3, <1>9, <1>12
  <2>2. Len(log') = Len(log) + 1
    BY <2>1 DEF TypeInv
  <2>3. Held(w) /\ run[w].pc \notin {"new", "loaded", "closed"}
    BY <2>1 DEF Held, Active
  <2>4. Writes(w)
    BY <1>5, <1>9, <2>1, <2>3 DEF Writes
  <2>5. run' = [run EXCEPT ![w] = run'[w]]
    BY <1>4, <1>5
  <2>6. run'[w].tail <= Len(log') /\ run'[w].view <= Len(log')
    BY <1>1, <1>5, <1>9, <2>1, <2>2
  <2> QED
    BY <1>5, <1>10, <2>4, <2>5, <2>6 DEF WorkerStep
<1> QED
  BY <1>11, <1>12

\* One that appends behind its claim, or claims, has it last.
LEMMA Appends ==
    ASSUME TypeInv, NEW w \in Worker, NEW rec \in Record(Worker), rec.by = w,
           NEW r, WorkerOK(r), r.view = run[w].view, AppendNext(w, rec, r),
           run[w].pc \notin {"new", "loaded", "closed"}, Active(r.pc)
    PROVE  WorkerStep(w)
<1> DEFINE new == [r EXCEPT !.tail = Len(log) + 1, !.seq = Len(log) + 1]
<1>1. Held(w) /\ log' = Append(log, rec) /\ run' = [run EXCEPT ![w] = new]
  BY DEF AppendNext, RestoredSeq
<1>2. run'[w] = new
  BY <1>1 DEF TypeInv
<1>3. Len(log) + 1 \in Nat /\ Len(log') = Len(log) + 1 /\ run[w].view <= Len(log)
  BY <1>1 DEF TypeInv
<1>4. r \in Run
  BY DEF WorkerOK
<1>5. new \in Run
  BY <1>3, <1>4 DEF Run
<1>6. /\ new.pc = r.pc /\ new.view = r.view /\ new.reason = r.reason /\ new.doing = r.doing
      /\ new.tail = Len(log) + 1 /\ new.seq = Len(log) + 1
  BY <1>4 DEF Run
<1>7. run[w].view \in Nat
  BY DEF TypeInv, WorkerOK, Run
<1> HIDE DEF new
<1>8. WorkerOK(new)
  BY <1>3, <1>5, <1>6 DEF WorkerOK
<1>9. Writes(w)
  BY <1>1, <1>2, <1>6 DEF Writes
<1>10. run' = [run EXCEPT ![w] = run'[w]]
  BY <1>1, <1>2
<1>11. run'[w].tail <= Len(log') /\ run'[w].view <= Len(log')
  <2>1. run'[w].tail = Len(log')
    BY <1>2, <1>3, <1>6
  <2>2. run'[w].view <= Len(log')
    BY <1>2, <1>3, <1>6, <1>7
  <2> QED
    BY <1>3, <2>1, <2>2
<1> QED
  BY <1>2, <1>8, <1>9, <1>10, <1>11 DEF WorkerStep

-----------------------------------------------------------------------------
(* What the actions make of a worker. *)

\* What is known of a worker that is at work.
LEMMA WorkerFacts ==
    ASSUME TypeInv, NEW w \in Worker
    PROVE  /\ WorkerOK(run[w]) /\ run[w] \in Run
           /\ run[w].seq \in Nat /\ run[w].tail \in Nat /\ run[w].view \in Nat /\ Len(log) \in Nat
           /\ run[w].seq <= run[w].tail
           /\ run[w].tail <= Len(log)
           /\ run[w].view <= Len(log)
BY DEF TypeInv, WorkerOK, Run

\* A process that is not there any more holds nothing.
LEMMA GoneFacts ==
    ASSUME NEW n \in Nat
    PROVE  /\ WorkerOK(Gone("closed", n))
           /\ Gone("closed", n).pc = "closed"
           /\ Gone("closed", n).view = n
           /\ Gone("closed", n).tail = 0
BY DEF WorkerOK, Gone, Run

\* Ending a turn leaves the handle alone.
LEMMA EndedFacts ==
    ASSUME NEW r, WorkerOK(r), NEW why \in Reason
    PROVE  /\ WorkerOK(Ended(r, why))
           /\ Ended(r, why).pc = "ended"
           /\ Ended(r, why).view = r.view
           /\ Ended(r, why).tail = r.tail
<1> DEFINE e == Ended(r, why)
<1>1. r \in Run
  BY DEF WorkerOK
<1>2. e \in Run
  BY <1>1 DEF Ended, Run, Reason
<1>3. e.pc = "ended" /\ e.view = r.view /\ e.tail = r.tail /\ e.seq = r.seq /\ e.reason = why
  BY <1>1 DEF Ended, Run
<1> HIDE DEF e
<1>4. WorkerOK(e)
  BY <1>2, <1>3 DEF WorkerOK
<1> QED
  BY <1>3, <1>4 DEF e

\* Settling a call, by an answer or a deferral, leaves what was loaded alone.
LEMMA SettledFacts ==
    ASSUME TypeInv, NEW w \in Worker, NEW id
    PROVE  /\ WorkerOK(Settled(w, id))
           /\ Settled(w, id).pc = "batch"
           /\ Settled(w, id).view = run[w].view
           /\ WorkerOK([Settled(w, id) EXCEPT !.waiting = TRUE])
           /\ [Settled(w, id) EXCEPT !.waiting = TRUE].pc = "batch"
           /\ [Settled(w, id) EXCEPT !.waiting = TRUE].view = run[w].view
<1> DEFINE s == Settled(w, id)
<1> DEFINE d == [s EXCEPT !.waiting = TRUE]
<1>1. run[w] \in Run /\ run[w].seq <= run[w].tail
  BY WorkerFacts
<1>2. s \in Run
  BY <1>1 DEF Settled, Run
<1>3. s.pc = "batch" /\ s.view = run[w].view /\ s.tail = run[w].tail /\ s.seq = run[w].seq
  BY <1>1 DEF Settled, Run
<1> HIDE DEF s
<1>4. WorkerOK(s)
  BY <1>1, <1>2, <1>3 DEF WorkerOK
<1>5. d \in Run
  BY <1>2 DEF Run
<1>6. d.pc = "batch" /\ d.view = run[w].view /\ d.tail = run[w].tail /\ d.seq = run[w].seq
  BY <1>2, <1>3 DEF Run
<1> HIDE DEF d
<1>7. WorkerOK(d)
  BY <1>1, <1>5, <1>6 DEF WorkerOK
<1> QED
  BY <1>3, <1>4, <1>6, <1>7 DEF s, d

\* What a claim leads to.
LEMMA EntryFacts ==
    ASSUME NEW w
    PROVE  Entry(w) \in {"prompt", "ended", "answering", "turn"}
<1>1. CASE run[w].mode = "answer"
  BY <1>1 DEF Entry
<1>2. CASE run[w].mode = "followUp"
  BY <1>2 DEF Entry
<1>3. CASE run[w].mode = "chat"
  BY <1>3 DEF Entry
<1>4. CASE run[w].mode \notin {"answer", "followUp", "chat"}
  BY <1>4 DEF Entry
<1> QED
  BY <1>1, <1>2, <1>3, <1>4

-----------------------------------------------------------------------------
(* Every action is a worker's step. *)

\* Up to the loop: the process takes the run.
LEMMA Opening ==
    ASSUME TypeInv, NEW w \in Worker,
           \/ \E m \in Mode : Create(w, m) \/ Load(w, m)
           \/ OpenJournal(w)
           \/ Claim(w)
           \/ Answer(w)
           \/ Supply(w)
    PROVE  WorkerStep(w)
<1>1. /\ WorkerOK(run[w]) /\ run[w] \in Run
      /\ run[w].seq \in Nat /\ run[w].tail \in Nat /\ run[w].view \in Nat /\ Len(log) \in Nat
      /\ run[w].seq <= run[w].tail /\ run[w].tail <= Len(log) /\ run[w].view <= Len(log)
  BY WorkerFacts
<1>2. run \in [Worker -> Run]
  BY DEF TypeInv
<1>3. ASSUME NEW m \in Mode, Create(w, m)
      PROVE  WorkerStep(w)
  <2> DEFINE r == [run[w] EXCEPT !.pc = "turn", !.mode = m, !.tail = 1, !.seq = 1]
  <2>1. log = << >> /\ log' = <<Meta(w, m)>> /\ run' = [run EXCEPT ![w] = r]
    BY <1>3 DEF Create
  <2>2. run'[w] = r
    BY <1>2, <2>1
  <2>3. r \in Run
    BY <1>1 DEF Run
  <2>4. r.pc = "turn" /\ r.tail = 1 /\ r.seq = 1 /\ r.view = run[w].view
    BY <1>1 DEF Run
  <2> HIDE DEF r
  <2>5. WorkerOK(r)
    BY <2>3, <2>4 DEF WorkerOK
  <2>6. Len(log) = 0 /\ Len(log') = 1 /\ log' = Append(log, Meta(w, m))
    BY <2>1
  <2>7. Writes(w)
    BY <2>1, <2>2, <2>4, <2>6, NewRecords DEF Writes, Active
  <2>8. run' = [run EXCEPT ![w] = run'[w]]
    BY <2>1, <2>2
  <2>9. run'[w].tail <= Len(log') /\ run'[w].view <= Len(log')
    BY <1>1, <2>2, <2>4, <2>6
  <2> QED
    BY <2>2, <2>5, <2>7, <2>8, <2>9 DEF WorkerStep
<1>4. ASSUME NEW m \in Mode, Load(w, m)
      PROVE  WorkerStep(w)
  <2> DEFINE r == [run[w] EXCEPT !.pc = "loaded", !.mode = m, !.view = Len(log)]
  <2>1. run[w].pc = "new" /\ log' = log /\ run' = [run EXCEPT ![w] = r]
    BY <1>4 DEF Load, Becomes
  <2>2. run'[w] = r
    BY <1>2, <2>1
  <2>3. r \in Run
    BY <1>1 DEF Run
  <2>4. r.pc = "loaded" /\ r.tail = run[w].tail /\ r.seq = run[w].seq /\ r.view = Len(log)
    BY <1>1 DEF Run
  <2> HIDE DEF r
  <2>5. WorkerOK(r)
    BY <1>1, <2>3, <2>4 DEF WorkerOK
  <2>6. Silent(w)
    BY <2>1, <2>2, <2>4 DEF Silent
  <2>7. run' = [run EXCEPT ![w] = run'[w]]
    BY <2>1, <2>2
  <2>8. run'[w].tail <= Len(log') /\ run'[w].view <= Len(log')
    BY <1>1, <2>1, <2>2, <2>4
  <2> QED
    BY <2>2, <2>5, <2>6, <2>7, <2>8 DEF WorkerStep
<1>5. ASSUME OpenJournal(w)
      PROVE  WorkerStep(w)
  <2> DEFINE r == [run[w] EXCEPT !.pc = "opened", !.tail = Len(log)]
  <2>1. run[w].pc = "loaded" /\ log' = log /\ run' = [run EXCEPT ![w] = r]
    BY <1>5 DEF OpenJournal, Becomes
  <2>2. run'[w] = r
    BY <1>2, <2>1
  <2>3. r \in Run
    BY <1>1 DEF Run
  <2>4. r.pc = "opened" /\ r.tail = Len(log) /\ r.seq = run[w].seq /\ r.view = run[w].view
    BY <1>1 DEF Run
  <2> HIDE DEF r
  <2>5. WorkerOK(r)
    BY <1>1, <2>3, <2>4 DEF WorkerOK
  <2>6. Silent(w)
    BY <2>1, <2>2, <2>4 DEF Silent
  <2>7. run' = [run EXCEPT ![w] = run'[w]]
    BY <2>1, <2>2
  <2>8. run'[w].tail <= Len(log') /\ run'[w].view <= Len(log')
    BY <1>1, <2>1, <2>2, <2>4
  <2> QED
    BY <2>2, <2>5, <2>6, <2>7, <2>8 DEF WorkerStep
<1>6. ASSUME Claim(w)
      PROVE  WorkerStep(w)
  <2> DEFINE why == IF Entry(w) = "ended" THEN "completed" ELSE run[w].reason
  <2> DEFINE p == Pending(State(w))
  <2> DEFINE r == [run[w] EXCEPT !.pc = Entry(w), !.pending = p, !.reason = why]
  <2>1. run[w].pc = "opened" /\ AppendNext(w, Claimed(w), r)
    BY <1>6 DEF Claim
  <2>2. p \in BOOLEAN
    BY DEF Pending
  <2>3. Entry(w) \in {"prompt", "ended", "answering", "turn"}
    BY EntryFacts
  <2>4. why \in Reason \union {NoReason} /\ (Entry(w) = "ended" => why \in Reason)
    BY <1>1 DEF Run, Reason
  <2> HIDE DEF p, why
  <2>5. r \in Run
    BY <1>1, <2>2, <2>3, <2>4 DEF Run
  <2>6. /\ r.pc = Entry(w) /\ r.reason = why
        /\ r.tail = run[w].tail /\ r.seq = run[w].seq /\ r.view = run[w].view
    BY <1>1 DEF Run
  <2> HIDE DEF r
  <2>7. WorkerOK(r)
    BY <1>1, <2>3, <2>4, <2>5, <2>6 DEF WorkerOK
  <2>8. Active(r.pc)
    BY <2>3, <2>6 DEF Active
  <2> QED
    BY <2>1, <2>6, <2>7, <2>8, NewRecords, Appends
<1>7. ASSUME Answer(w)
      PROVE  WorkerStep(w)
  <2>1. PICK id \in State(w).waiting :
          AppendNext(w, Result(w, id), [run[w] EXCEPT !.pc = "turn", !.given = id])
    BY <1>7 DEF Answer
  <2> DEFINE r == [run[w] EXCEPT !.pc = "turn", !.given = id]
  <2>2. id \in CallId
    BY StateFacts
  <2>3. r \in Run
    BY <1>1, <2>2 DEF Run
  <2>4. r.pc = "turn" /\ r.tail = run[w].tail /\ r.seq = run[w].seq /\ r.view = run[w].view
    BY <1>1 DEF Run
  <2>5. AppendNext(w, Result(w, id), r) /\ run[w].pc = "answering"
    BY <1>7, <2>1 DEF Answer
  <2> HIDE DEF r
  <2>6. WorkerOK(r) /\ Active(r.pc)
    BY <1>1, <2>3, <2>4 DEF WorkerOK, Active
  <2> QED
    BY <2>2, <2>4, <2>5, <2>6, NewRecords, Appends
<1>8. ASSUME Supply(w)
      PROVE  WorkerStep(w)
  <2> DEFINE r == Gone("closed", run[w].view)
  <2>1. PICK id \in State(w).waiting :
          Held(w) /\ log' = Append(log, Result(w, id)) /\ run' = [run EXCEPT ![w] = r]
    BY <1>8 DEF Supply
  <2>2. id \in CallId /\ run[w].pc = "opened"
    BY <1>8, StateFacts DEF Supply
  <2>3. run'[w] = r
    BY <1>2, <2>1
  <2>4. WorkerOK(r) /\ r.pc = "closed" /\ r.view = run[w].view /\ r.tail = 0
    BY <1>1, GoneFacts
  <2> HIDE DEF r
  <2>5. Len(log') = Len(log) + 1
    BY <2>1 DEF TypeInv
  <2>6. Writes(w)
    BY <2>1, <2>2, <2>3, <2>4, NewRecords DEF Writes
  <2>7. run' = [run EXCEPT ![w] = run'[w]]
    BY <2>1, <2>3
  <2>8. run'[w].tail <= Len(log') /\ run'[w].view <= Len(log')
    BY <1>1, <2>3, <2>4, <2>5
  <2> QED
    BY <2>3, <2>4, <2>6, <2>7, <2>8 DEF WorkerStep
<1> QED
  BY <1>3, <1>4, <1>5, <1>6, <1>7, <1>8


\* The restored turn, and what ends a batch.
LEMMA Turning ==
    ASSUME TypeInv, NEW w \in Worker,
           \/ CompletePending(w)
           \/ SkipPending(w)
           \/ BatchDone(w)
           \/ BatchWaits(w)
    PROVE  WorkerStep(w)
<1>1. WorkerOK(run[w]) /\ run[w] \in Run /\ run[w].seq <= run[w].tail
  BY WorkerFacts
<1>2. ASSUME CompletePending(w)
      PROVE  WorkerStep(w)
  <2> DEFINE r == [run[w] EXCEPT !.pc = "batch", !.todo = Unrun(w), !.waiting = StillWaiting(w)]
  <2>1. run[w].pc = "turn" /\ Becomes(w, r)
    BY <1>2 DEF CompletePending
  <2>2. Unrun(w) \subseteq CallId /\ StillWaiting(w) \in BOOLEAN
    BY StateFacts DEF Unrun, StillWaiting
  <2>3. r \in Run
    BY <1>1, <2>2 DEF Run
  <2>4. r.pc = "batch" /\ r.tail = run[w].tail /\ r.seq = run[w].seq /\ r.view = run[w].view
    BY <1>1 DEF Run
  <2> HIDE DEF r
  <2>5. WorkerOK(r) /\ Active(run[w].pc) /\ Active(r.pc)
    BY <1>1, <2>1, <2>3, <2>4 DEF WorkerOK, Active
  <2> QED
    BY <2>1, <2>4, <2>5, Quiets
<1>3. ASSUME SkipPending(w)
      PROVE  WorkerStep(w)
  <2> DEFINE r == [run[w] EXCEPT !.pc = "model"]
  <2>1. run[w].pc = "turn" /\ Becomes(w, r)
    BY <1>3 DEF SkipPending
  <2>2. r \in Run
    BY <1>1 DEF Run
  <2>3. r.pc = "model" /\ r.tail = run[w].tail /\ r.seq = run[w].seq /\ r.view = run[w].view
    BY <1>1 DEF Run
  <2> HIDE DEF r
  <2>4. WorkerOK(r) /\ Active(run[w].pc) /\ Active(r.pc)
    BY <1>1, <2>1, <2>2, <2>3 DEF WorkerOK, Active
  <2> QED
    BY <2>1, <2>3, <2>4, Quiets
<1>4. ASSUME BatchDone(w)
      PROVE  WorkerStep(w)
  <2> DEFINE r == [run[w] EXCEPT !.pc = "model", !.pending = FALSE]
  <2>1. run[w].pc = "batch" /\ Becomes(w, r)
    BY <1>4 DEF BatchDone
  <2>2. r \in Run
    BY <1>1 DEF Run
  <2>3. r.pc = "model" /\ r.tail = run[w].tail /\ r.seq = run[w].seq /\ r.view = run[w].view
    BY <1>1 DEF Run
  <2> HIDE DEF r
  <2>4. WorkerOK(r) /\ Active(run[w].pc) /\ Active(r.pc)
    BY <1>1, <2>1, <2>2, <2>3 DEF WorkerOK, Active
  <2> QED
    BY <2>1, <2>3, <2>4, Quiets
<1>5. ASSUME BatchWaits(w)
      PROVE  WorkerStep(w)
  BY <1>1, <1>5, EndedFacts, Quiets DEF BatchWaits, Reason, Active
<1> QED
  BY <1>2, <1>3, <1>4, <1>5

\* The calls of a batch.
LEMMA Calling ==
    ASSUME TypeInv, NEW w \in Worker,
           \/ RefuseCall(w)
           \/ DeferCall(w)
           \/ Dispatch(w)
           \/ AbortCall(w)
           \/ ToolAnswers(w)
           \/ ToolDefers(w)
           \/ ToolFails(w)
    PROVE  WorkerStep(w)
<1>1. WorkerOK(run[w]) /\ run[w] \in Run /\ run[w].seq <= run[w].tail
  BY WorkerFacts
<1>2. HasCall(w) => Active(run[w].pc) /\ NextCall(w) \in CallId
  BY NextCallFacts DEF HasCall, Active
<1>3. run[w].pc = "tool" => Active(run[w].pc) /\ run[w].doing \in CallId
  BY <1>1 DEF WorkerOK, Active
<1>4. Active("batch") /\ Active("ended") /\ Active("tool")
  BY DEF Active
<1>5. ASSUME NEW why \in {"failed", "stopped"}, Becomes(w, Ended(run[w], why)), Active(run[w].pc)
      PROVE  WorkerStep(w)
  <2>1. why \in Reason
    BY DEF Reason
  <2> QED
    BY <1>1, <1>4, <1>5, <2>1, EndedFacts, Quiets
<1>6. ASSUME NEW id \in CallId, Active(run[w].pc), Emit(w, Result(w, id), Settled(w, id))
      PROVE  WorkerStep(w)
  BY <1>4, <1>6, SettledFacts, NewRecords, Emits
<1>7. ASSUME NEW id \in CallId, Active(run[w].pc),
             Emit(w, Deferral(w, id), [Settled(w, id) EXCEPT !.waiting = TRUE])
      PROVE  WorkerStep(w)
  <2> DEFINE r == [Settled(w, id) EXCEPT !.waiting = TRUE]
  <2>1. WorkerOK(r) /\ r.pc = "batch" /\ r.view = run[w].view
    BY SettledFacts
  <2>2. Emit(w, Deferral(w, id), r)
    BY <1>7
  <2> HIDE DEF r
  <2> QED
    BY <1>4, <1>7, <2>1, <2>2, NewRecords, Emits
<1>8. ASSUME Dispatch(w)
      PROVE  WorkerStep(w)
  <2> DEFINE r == [run[w] EXCEPT !.pc = "tool", !.doing = NextCall(w)]
  <2>1. Becomes(w, r) /\ Active(run[w].pc) /\ NextCall(w) \in CallId
    BY <1>2, <1>8 DEF Dispatch
  <2>2. r \in Run
    BY <1>1, <2>1 DEF Run
  <2>3. /\ r.pc = "tool" /\ r.doing = NextCall(w)
        /\ r.tail = run[w].tail /\ r.seq = run[w].seq /\ r.view = run[w].view
    BY <1>1 DEF Run
  <2> HIDE DEF r
  <2>4. WorkerOK(r)
    BY <1>1, <2>1, <2>2, <2>3 DEF WorkerOK
  <2> QED
    BY <1>4, <2>1, <2>3, <2>4, Quiets
<1>9. RefuseCall(w) => WorkerStep(w)
  BY <1>2, <1>6 DEF RefuseCall
<1>10. DeferCall(w) => WorkerStep(w)
  BY <1>2, <1>7 DEF DeferCall
<1>11. AbortCall(w) => WorkerStep(w)
  BY <1>2, <1>5 DEF AbortCall
<1>12. ToolAnswers(w) => WorkerStep(w)
  BY <1>3, <1>6 DEF ToolAnswers
<1>13. ToolDefers(w) => WorkerStep(w)
  BY <1>3, <1>7 DEF ToolDefers
<1>14. ToolFails(w) => WorkerStep(w)
  BY <1>3, <1>5 DEF ToolFails
<1> QED
  BY <1>8, <1>9, <1>10, <1>11, <1>12, <1>13, <1>14

\* The model, and its reply.
LEMMA Modelling ==
    ASSUME TypeInv, NEW w \in Worker,
           \/ NoReply(w)
           \/ \E calls \in SUBSET Call, stop \in Stop : Reply(w, calls, stop)
    PROVE  WorkerStep(w)
<1>1. /\ WorkerOK(run[w]) /\ run[w] \in Run /\ run[w].seq <= run[w].tail
      /\ Len(log) \in Nat /\ run[w].view \in Nat
  BY WorkerFacts
<1>2. Active("model") /\ Active("ended") /\ Active("batch")
  BY DEF Active
<1>3. ASSUME NEW why \in Reason
      PROVE  /\ WorkerOK(Ended(run[w], why)) /\ Ended(run[w], why).pc = "ended"
             /\ Ended(run[w], why).view = run[w].view
             /\ Ended(run[w], why).tail = run[w].tail
  BY <1>1, EndedFacts
<1>4. "failed" \in Reason /\ "stopped" \in Reason /\ "completed" \in Reason
  BY DEF Reason
<1>5. NoReply(w) => WorkerStep(w)
  BY <1>2, <1>3, <1>4, Quiets DEF NoReply
<1>6. ASSUME NEW calls \in SUBSET Call, NEW stop \in Stop, Reply(w, calls, stop)
      PROVE  WorkerStep(w)
  <2> DEFINE batch == {[turn |-> Len(log) + 1, call |-> c] : c \in calls}
  <2> DEFINE b == [run[w] EXCEPT !.pc = "batch", !.todo = batch]
  <2>1. PICK r \in AfterReply(w, calls, stop) : Emit(w, Assistant(w, calls, stop), r)
    BY <1>6 DEF Reply
  <2>2. run[w].pc = "model"
    BY <1>6 DEF Reply
  <2>3. batch \subseteq CallId
    <3>1. Len(log) + 1 \in Nat \ {0}
      BY <1>1
    <3> QED
      BY <3>1 DEF CallId
  <2>4. r \in {Ended(run[w], "failed"), Ended(run[w], "stopped"), Ended(run[w], "completed"), b}
    BY <2>1 DEF AfterReply
  <2> HIDE DEF batch
  <2>5. WorkerOK(b) /\ b.pc = "batch" /\ b.view = run[w].view
    <3>1. b \in Run
      BY <1>1, <2>3 DEF Run
    <3>2. b.pc = "batch" /\ b.tail = run[w].tail /\ b.seq = run[w].seq /\ b.view = run[w].view
      BY <1>1 DEF Run
    <3> HIDE DEF b
    <3> QED
      BY <1>1, <3>1, <3>2 DEF WorkerOK
  <2> HIDE DEF b
  <2>6. WorkerOK(r) /\ r.view = run[w].view /\ Active(r.pc)
    BY <1>2, <1>3, <1>4, <2>4, <2>5
  <2> QED
    BY <1>2, <2>1, <2>2, <2>6, NewRecords, Emits
<1> QED
  BY <1>5, <1>6

\* What follows a turn.
LEMMA Ending ==
    ASSUME TypeInv, NEW w \in Worker,
           \/ TakePrompt(w)
           \/ Prompt(w)
           \/ NoPrompt(w)
           \/ Finish(w)
           \/ Vanish(w)
    PROVE  WorkerStep(w)
<1>1. WorkerOK(run[w]) /\ run[w] \in Run /\ run[w].seq <= run[w].tail /\ run[w].view \in Nat
  BY WorkerFacts
<1>2. Active("prompt") /\ Active("ended") /\ Active("turn")
  BY DEF Active
<1>3. ASSUME TakePrompt(w)
      PROVE  WorkerStep(w)
  <2> DEFINE r == [run[w] EXCEPT !.pc = "prompt"]
  <2>1. run[w].pc = "ended" /\ Becomes(w, r)
    BY <1>3 DEF TakePrompt
  <2>2. r \in Run
    BY <1>1 DEF Run
  <2>3. r.pc = "prompt" /\ r.tail = run[w].tail /\ r.seq = run[w].seq /\ r.view = run[w].view
    BY <1>1 DEF Run
  <2> HIDE DEF r
  <2>4. WorkerOK(r)
    BY <1>1, <2>2, <2>3 DEF WorkerOK
  <2> QED
    BY <1>2, <2>1, <2>3, <2>4, Quiets
<1>4. ASSUME Prompt(w)
      PROVE  WorkerStep(w)
  <2> DEFINE mode == IF run[w].mode = "followUp" THEN "plain" ELSE run[w].mode
  <2> DEFINE r == [run[w] EXCEPT !.pc = "turn", !.reason = NoReason, !.mode = mode]
  <2>1. run[w].pc = "prompt" /\ Emit(w, UserTurn(w), r)
    BY <1>4 DEF Prompt
  <2>2. mode \in Mode \union {"plain", "none"}
    BY <1>1 DEF Run
  <2> HIDE DEF mode
  <2>3. r \in Run
    BY <1>1, <2>2 DEF Run
  <2>4. r.pc = "turn" /\ r.tail = run[w].tail /\ r.seq = run[w].seq /\ r.view = run[w].view
    BY <1>1 DEF Run
  <2> HIDE DEF r
  <2>5. WorkerOK(r)
    BY <1>1, <2>3, <2>4 DEF WorkerOK
  <2> QED
    BY <1>2, <2>1, <2>4, <2>5, NewRecords, Emits
<1>5. ASSUME NoPrompt(w)
      PROVE  WorkerStep(w)
  <2>1. PICK why \in {"failed", "stopped"} :
          Becomes(w, [run[w] EXCEPT !.pc = "ended", !.reason = why, !.mode = "plain"])
    BY <1>5 DEF NoPrompt
  <2> DEFINE r == [run[w] EXCEPT !.pc = "ended", !.reason = why, !.mode = "plain"]
  <2>2. run[w].pc = "prompt" /\ Becomes(w, r)
    BY <1>5, <2>1 DEF NoPrompt
  <2>3. r \in Run
    BY <1>1 DEF Run, Reason
  <2>4. /\ r.pc = "ended" /\ r.reason \in Reason
        /\ r.tail = run[w].tail /\ r.seq = run[w].seq /\ r.view = run[w].view
    BY <1>1 DEF Run, Reason
  <2> HIDE DEF r
  <2>5. WorkerOK(r)
    BY <1>1, <2>3, <2>4 DEF WorkerOK
  <2> QED
    BY <1>2, <2>2, <2>4, <2>5, Quiets
<1>6. ASSUME Finish(w)
      PROVE  WorkerStep(w)
  <2>1. PICK why \in Outcomes(w) : Emit(w, Terminal(w, why), Gone("closed", run[w].view))
    BY <1>6 DEF Finish
  <2>2. run[w].pc = "ended" /\ run[w].reason \in Reason
    BY <1>1, <1>6 DEF Finish, WorkerOK
  <2>3. why \in Reason
    BY <2>2 DEF Outcomes, Reason
  <2> QED
    BY <1>1, <1>2, <2>1, <2>2, <2>3, GoneFacts, NewRecords, Emits
<1>7. Vanish(w) => WorkerStep(w)
  BY Leaves DEF Vanish
<1> QED
  BY <1>3, <1>4, <1>5, <1>6, <1>7

\* So every step is a step of some worker's.
LEMMA EveryStep ==
    ASSUME TypeInv, Next
    PROVE  \E w \in Worker : WorkerStep(w)
BY Opening, Turning, Calling, Modelling, Ending DEF Next

-----------------------------------------------------------------------------
(* The invariants. *)

\* A worker's step keeps the types.
LEMMA TypeInvStep ==
    ASSUME TypeInv, NEW w \in Worker, WorkerStep(w)
    PROVE  TypeInv'
<1>1. run' = [run EXCEPT ![w] = run'[w]] /\ WorkerOK(run'[w])
  BY DEF WorkerStep
<1>2. log' \in Seq(Record(Worker)) /\ Len(log') >= Len(log) /\ Len(log) \in Nat /\ Len(log') \in Nat
  BY DEF TypeInv, WorkerStep, Silent, Writes
<1>3. run' \in [Worker -> Run]
  BY <1>1 DEF TypeInv, WorkerOK
<1>4. ASSUME NEW v \in Worker
      PROVE  WorkerOK(run'[v]) /\ run'[v].tail <= Len(log') /\ run'[v].view <= Len(log')
  <2>1. CASE v = w
    BY <2>1 DEF WorkerStep
  <2>2. CASE v # w
    <3>1. run'[v] = run[v]
      BY <1>1, <2>2 DEF TypeInv
    <3> QED
      BY <1>2, <3>1, WorkerFacts
  <2> QED
    BY <2>1, <2>2
<1>5. /\ log' \in Seq(Record(Worker))
      /\ run' \in [Worker -> Run]
      /\ \A v \in Worker :
            /\ WorkerOK(run'[v])
            /\ run'[v].tail <= Len(log')
            /\ run'[v].view <= Len(log')
  BY <1>2, <1>3, <1>4
<1> QED
  BY <1>5 DEF TypeInv, WorkerOK

\* A worker's step keeps every handle's knowledge right: its own, and that of the
\* others, whose last record stays where it was.
LEMMA HandlesStep ==
    ASSUME TypeInv, Handles, NEW w \in Worker, WorkerStep(w)
    PROVE  Handles'
<1>1. run' = [run EXCEPT ![w] = run'[w]]
  BY DEF WorkerStep
<1>2. \A v \in Worker \ {w} : run'[v] = run[v]
  BY <1>1 DEF TypeInv
<1>3. Len(log) \in Nat
  BY DEF TypeInv
<1>4. SUFFICES ASSUME NEW v \in Worker
               PROVE  /\ run'[v].pc \in {"new", "loaded", "opened"} =>
                            \A p \in 1..Len(log') : log'[p].by # v
                      /\ Active(run'[v].pc) =>
                            run'[v].tail \in 1..Len(log') /\ log'[run'[v].tail].by = v
  BY DEF Handles, Active
<1>5. CASE Silent(w)
  <2>1. log' = log
    BY <1>5 DEF Silent
  <2>2. CASE v = w
    <3>1. CASE run[w].pc \in {"new", "loaded"} /\ run'[w].pc \in {"loaded", "opened"}
      BY <2>1, <2>2, <3>1 DEF Handles, Active
    <3>2. CASE run'[w].pc = "closed"
      BY <2>2, <3>2 DEF Active
    <3>3. CASE Active(run[w].pc) /\ Active(run'[w].pc) /\ run'[w].tail = run[w].tail
      BY <2>1, <2>2, <3>3 DEF Handles, Active
    <3> QED
      BY <1>5, <3>1, <3>2, <3>3 DEF Silent
  <2>3. CASE v # w
    BY <1>2, <2>1, <2>3 DEF Handles
  <2> QED
    BY <2>2, <2>3
<1>6. CASE Writes(w)
  <2>1. PICK rec \in Record(Worker) : rec.by = w /\ log' = Append(log, rec)
    BY <1>6 DEF Writes
  <2>2. /\ Len(log') = Len(log) + 1 /\ log'[Len(log) + 1] = rec
        /\ \A p \in 1..Len(log) : log'[p] = log[p]
    BY <2>1 DEF TypeInv
  <2>3. CASE v = w
    BY <1>3, <1>6, <2>1, <2>2, <2>3 DEF Writes, Active
  <2>4. CASE v # w
    <3>1. run'[v] = run[v]
      BY <1>2, <2>4
    <3>2. ASSUME run[v].pc \in {"new", "loaded", "opened"}, NEW p \in 1..Len(log')
          PROVE  log'[p].by # v
      BY <1>3, <2>1, <2>2, <2>4, <3>2 DEF Handles
    <3>3. ASSUME Active(run[v].pc)
          PROVE  run[v].tail \in 1..Len(log') /\ log'[run[v].tail].by = v
      BY <1>3, <2>2, <3>3 DEF Handles
    <3> QED
      BY <3>1, <3>2, <3>3
  <2> QED
    BY <2>3, <2>4
<1> QED
  BY <1>5, <1>6 DEF WorkerStep

\* No worker has loaded anything and no record is there.
LEMMA StartsRight == Init => TypeInv /\ Handles
<1> SUFFICES ASSUME Init
             PROVE  TypeInv /\ Handles
  OBVIOUS
<1>1. log = << >> /\ run = [w \in Worker |-> Gone("new", 0)]
  BY DEF Init
<1>2. log \in Seq(Record(Worker)) /\ Len(log) = 0
  BY <1>1
<1>3. ASSUME NEW w \in Worker
      PROVE  /\ WorkerOK(run[w])
             /\ run[w].tail = 0 /\ run[w].view = 0 /\ run[w].pc = "new"
  <2>1. run[w] = Gone("new", 0)
    BY <1>1
  <2> QED
    BY <2>1 DEF Gone, WorkerOK, Run
<1>4. run \in [Worker -> Run]
  BY <1>1, <1>3 DEF WorkerOK
<1>5. TypeInv
  BY <1>2, <1>3, <1>4 DEF TypeInv
<1>6. Handles
  BY <1>2, <1>3 DEF Handles, Active
<1> QED
  BY <1>5, <1>6

\* No step disturbs the types or the handles.
LEMMA InductiveStep == TypeInv /\ Handles /\ [Next]_vars => TypeInv' /\ Handles'
<1> SUFFICES ASSUME TypeInv, Handles, [Next]_vars
             PROVE  TypeInv' /\ Handles'
  OBVIOUS
<1>1. CASE Next
  BY <1>1, EveryStep, TypeInvStep, HandlesStep
<1>2. CASE UNCHANGED vars
  BY <1>2 DEF vars, TypeInv, Handles, WorkerOK, Active
<1> QED
  BY <1>1, <1>2

\* Handles holds wherever workers have got to.
LEMMA Inductive == Spec => [](TypeInv /\ Handles)
BY StartsRight, InductiveStep, PTL DEF Spec

\* The variables keep their types, and a runner numbers no record past its handle's
\* tail, a handle knows of none that is not there.
THEOREM TypeCorrect == Spec => []TypeOK
<1>1. TypeInv => TypeOK
  BY WorkerFacts DEF TypeInv, TypeOK
<1> QED
  BY <1>1, Inductive, PTL

-----------------------------------------------------------------------------
(* The contract. *)

\* The log as Journal sees it.
Kept == [p \in 1..Len(log) |-> [by |-> log[p].by, kind |-> log[p].kind, seq |-> p]]

\* The log that the contract is about is as long, and by the same writers.
LEMMA KeptFacts ==
    ASSUME TypeInv
    PROVE  /\ Len(Kept) = Len(log)
           /\ DOMAIN Kept = 1..Len(log)
           /\ \A p \in 1..Len(log) : Kept[p].by = log[p].by
<1>1. Len(log) \in Nat
  BY DEF TypeInv
<1> QED
  BY <1>1 DEF Kept

\* Who writes has not been superseded.
LEMMA WriterHolds ==
    ASSUME TypeInv, Handles, NEW w \in Worker, Writes(w)
    PROVE  ~Journal!Superseded(w)
<1>1. Len(Kept) = Len(log) /\ Len(log) \in Nat /\ \A p \in 1..Len(log) : Kept[p].by = log[p].by
  BY KeptFacts DEF TypeInv
<1>2. CASE log = << >>
  <2>1. Len(Kept) = 0
    BY <1>1, <1>2
  <2> QED
    BY <2>1 DEF Journal!Superseded, Journal!HasWritten, Kept
<1>3. CASE Held(w) /\ run[w].pc = "opened"
  BY <1>1, <1>3 DEF Handles, Journal!Superseded, Journal!HasWritten, Kept
<1>4. CASE Held(w) /\ Active(run[w].pc)
  <2>1. run[w].tail = Len(log) /\ run[w].tail \in 1..Len(log) /\ log[run[w].tail].by = w
    BY <1>4 DEF Held, Handles
  <2>2. Len(Kept) > 0 /\ Kept[Len(Kept)].by = w
    BY <1>1, <2>1
  <2> QED
    BY <2>2 DEF Journal!Superseded, Journal!Stored, Kept
<1> QED
  BY <1>2, <1>3, <1>4 DEF Writes, Active

\* A worker's step stores and acknowledges one record, or is none of the journal's.
LEMMA ContractStep ==
    ASSUME TypeInv, Handles, NEW w \in Worker, WorkerStep(w)
    PROVE  [Journal!Next]_(Journal!journalVars)
<1>1. Len(log) \in Nat
  BY DEF TypeInv
<1>2. CASE Silent(w)
  <2>1. log' = log
    BY <1>2 DEF Silent
  <2> QED
    BY <2>1 DEF Journal!journalVars
<1>3. CASE Writes(w)
  <2>1. PICK rec \in Record(Worker) : rec.by = w /\ log' = Append(log, rec)
    BY <1>3 DEF Writes
  <2> DEFINE entry == [by |-> w, kind |-> rec.kind, seq |-> Len(log) + 1]
  <2>2. /\ Len(log') = Len(log) + 1 /\ log'[Len(log) + 1] = rec
        /\ \A p \in 1..Len(log) : log'[p] = log[p]
    BY <2>1 DEF TypeInv
  <2>3. Kept' = Append(Kept, entry)
    <3>1. Len(Kept) = Len(log)
      BY KeptFacts
    <3>2. Kept' = [p \in 1..Len(log) + 1 |->
                     [by |-> log'[p].by, kind |-> log'[p].kind, seq |-> p]]
      BY <2>2 DEF Kept
    <3>3. Append(Kept, entry) = [p \in 1..Len(Kept) + 1 |->
                                   IF p = Len(Kept) + 1 THEN entry ELSE Kept[p]]
      BY <1>1, <3>1 DEF Kept
    <3>4. ASSUME NEW p \in 1..Len(log) + 1
          PROVE  [by |-> log'[p].by, kind |-> log'[p].kind, seq |-> p]
                   = IF p = Len(log) + 1 THEN entry ELSE Kept[p]
      <4>1. CASE p = Len(log) + 1
        BY <2>1, <2>2, <4>1
      <4>2. CASE p # Len(log) + 1
        <5>1. p \in 1..Len(log)
          BY <1>1, <4>2
        <5> QED
          BY <2>2, <4>2, <5>1 DEF Kept
      <4> QED
        BY <4>1, <4>2
    <3> HIDE DEF entry
    <3> QED
      BY <3>1, <3>2, <3>3, <3>4
  <2>4. Journal!NextSeq = Len(log) + 1
    BY <1>1, KeptFacts DEF Journal!NextSeq, Kept
  <2>5. rec.kind \in {"meta", "claim", "user", "assistant", "result", "deferred", "terminal"}
    BY RecordFacts
  <2>6. ~Journal!Superseded(w)
    BY <1>3, WriterHolds
  <2>7. 1..Len(log') = 1..Len(log) \union {Len(Kept) + 1}
    BY <1>1, <2>2, KeptFacts
  <2>8. Journal!StoreAndAcknowledge(w, rec.kind)
    BY <2>3, <2>4, <2>6, <2>7 DEF Journal!StoreAndAcknowledge, Kept
  <2> QED
    BY <2>5, <2>8 DEF Journal!Next
<1> QED
  BY <1>2, <1>3 DEF WorkerStep

\* Whatever workers there are and however they crash, resume and take over, the journal
\* is one stretch of records after another, each numbered as it lies and each written
\* by a worker nobody has superseded.
THEOREM ContractKept == Spec => KeepsContract
<1>1. Init => Journal!Init
  <2> SUFFICES ASSUME Init
               PROVE  Journal!Init
    OBVIOUS
  <2>1. log = << >> /\ Len(log) = 0
    BY DEF Init
  <2>2. Kept = << >>
    BY <2>1 DEF Kept
  <2> QED
    BY <2>1, <2>2 DEF Journal!Init, Kept
<1>2. TypeInv /\ Handles /\ [Next]_vars => [Journal!Next]_(Journal!journalVars)
  <2> SUFFICES ASSUME TypeInv, Handles, [Next]_vars
               PROVE  [Journal!Next]_(Journal!journalVars)
    OBVIOUS
  <2>1. CASE Next
    BY <2>1, EveryStep, ContractStep
  <2>2. CASE UNCHANGED vars
    BY <2>2 DEF vars, Journal!journalVars
  <2> QED
    BY <2>1, <2>2
<1> QED
  BY <1>1, <1>2, Inductive, PTL DEF Spec, KeepsContract, Journal!Spec

-----------------------------------------------------------------------------
(* What the fold makes of one record more. *)

\* The calls of the reply at t.
CallsOf(l, t) == {[turn |-> t, call |-> c] : c \in l[t].calls}

\* The last run's terminal record.
EndOf(l, n) == Latest({j \in 1..n : l[j].kind = "terminal"})

\* What a fold consists of: behind an open turn, behind none, and in any case.
LEMMA FoldOpen ==
    ASSUME NEW l, NEW n, NEW t, OpenTurn(l, n) = t, t > 0, t # 0
    PROVE  /\ Fold(l, n).unanswered = CallsOf(l, t) \ Said(l, t, n, "result")
           /\ Fold(l, n).waiting =
                 (CallsOf(l, t) \intersect Said(l, t, n, "deferred")) \ Said(l, t, n, "result")
           /\ Fold(l, n).boundary =
                 (CallsOf(l, t) = {} /\ Said(l, t, n, "result") = {} /\ l[t].stop # "pause")
  BY DEF Fold, CallsOf

\* Behind no open turn nothing is unanswered.
LEMMA FoldClosed ==
    ASSUME NEW l, NEW n, OpenTurn(l, n) = 0
    PROVE  Fold(l, n).unanswered = {} /\ Fold(l, n).waiting = {} /\ Fold(l, n).boundary = FALSE
  BY DEF Fold

\* The run is completed when its last terminal record says so.
LEMMA FoldCompleted ==
    ASSUME NEW l, NEW n
    PROVE  Fold(l, n).completed = (EndOf(l, n) > 0 /\ l[EndOf(l, n)].reason = "completed")
  BY DEF Fold, EndOf

\* A fold is what its four parts are.
LEMMA FoldShape ==
    ASSUME NEW l, NEW n
    PROVE  Fold(l, n) = [unanswered |-> Fold(l, n).unanswered, waiting |-> Fold(l, n).waiting,
                         completed |-> Fold(l, n).completed, boundary |-> Fold(l, n).boundary]
  BY DEF Fold

\* A fold of the first n records knows nothing of the others.
LEMMA FoldOfPrefix ==
    ASSUME NEW l, NEW m, NEW n \in Nat, \A j \in 1..n : m[j] = l[j]
    PROVE  OpenTurn(m, n) = OpenTurn(l, n) /\ Fold(m, n) = Fold(l, n)
<1>1. ASSUME NEW K
      PROVE  {j \in 1..n : m[j].kind \in K} = {j \in 1..n : l[j].kind \in K}
  OBVIOUS
<1> DEFINE i == Latest({j \in 1..n : l[j].kind \in {"assistant", "user"}})
<1>2. i # 0 => i \in 1..n
  BY LatestIsOne DEF Latest
<1>3. OpenTurn(m, n) = OpenTurn(l, n)
  <2>1. i = Latest({j \in 1..n : m[j].kind \in {"assistant", "user"}})
    BY <1>1
  <2>2. i > 0 => m[i] = l[i]
    BY <1>2
  <2> HIDE DEF i
  <2> QED BY <2>1, <2>2 DEF OpenTurn, i
<1> DEFINE t == OpenTurn(l, n)
<1>4. t # 0 => t \in 1..n
  <2> HIDE DEF i
  <2> QED BY <1>2 DEF OpenTurn, i
<1>5. ASSUME NEW k, t # 0
      PROVE  Said(m, t, n, k) = Said(l, t, n, k)
  <2>1. {j \in (t + 1)..n : m[j].kind = k} = {j \in (t + 1)..n : l[j].kind = k}
    BY <1>4, <1>5
  <2>2. \A j \in {j \in (t + 1)..n : l[j].kind = k} : m[j] = l[j]
    BY <1>4, <1>5
  <2> QED BY <2>1, <2>2 DEF Said
<1> DEFINE end == EndOf(l, n)
<1>6. EndOf(m, n) = end
  <2>1. {j \in 1..n : m[j].kind = "terminal"} = {j \in 1..n : l[j].kind = "terminal"}
    OBVIOUS
  <2> QED BY <2>1 DEF EndOf
<1>7. end > 0 => m[end] = l[end]
  <2>1. end # 0 => end \in 1..n
    BY LatestIsOne DEF Latest, EndOf
  <2> HIDE DEF end
  <2> QED BY <2>1
<1>8. t # 0 => m[t] = l[t]
  BY <1>4
<1>9. (end > 0 /\ m[end].reason = "completed") = (end > 0 /\ l[end].reason = "completed")
  BY <1>7
<1> HIDE DEF end, t
<1>10. Fold(m, n).completed = Fold(l, n).completed
  <2>1. Fold(m, n).completed = (EndOf(m, n) > 0 /\ m[EndOf(m, n)].reason = "completed")
    BY FoldCompleted
  <2>2. Fold(l, n).completed = (EndOf(l, n) > 0 /\ l[EndOf(l, n)].reason = "completed")
    BY FoldCompleted
  <2> QED BY <1>6, <1>9, <2>1, <2>2 DEF end
<1>11. CASE t = 0
  <2>1. OpenTurn(m, n) = 0 /\ OpenTurn(l, n) = 0
    BY <1>3, <1>11 DEF t
  <2>2. Fold(m, n).unanswered = {} /\ Fold(m, n).waiting = {} /\ Fold(m, n).boundary = FALSE
    BY <2>1, FoldClosed
  <2>3. Fold(l, n).unanswered = {} /\ Fold(l, n).waiting = {} /\ Fold(l, n).boundary = FALSE
    BY <2>1, FoldClosed
  <2> QED BY <1>3, <1>10, <2>2, <2>3, FoldShape
<1>12. CASE t # 0
  <2>1. /\ Said(m, t, n, "result") = Said(l, t, n, "result")
        /\ Said(m, t, n, "deferred") = Said(l, t, n, "deferred")
    BY <1>5, <1>12
  <2>2. CallsOf(m, t) = CallsOf(l, t)
    BY <1>8, <1>12 DEF CallsOf
  <2>3. m[t].stop = l[t].stop
    BY <1>8, <1>12
  <2>4. OpenTurn(m, n) = t /\ OpenTurn(l, n) = t /\ t > 0
    BY <1>3, <1>4, <1>12 DEF t
  <2>5. /\ Fold(m, n).unanswered = CallsOf(l, t) \ Said(l, t, n, "result")
        /\ Fold(m, n).waiting = (CallsOf(l, t) \intersect Said(l, t, n, "deferred")) \ Said(l, t, n, "result")
        /\ Fold(m, n).boundary = (CallsOf(l, t) = {} /\ Said(l, t, n, "result") = {} /\ l[t].stop # "pause")
    BY <1>12, <2>1, <2>2, <2>3, <2>4, FoldOpen
  <2>6. /\ Fold(l, n).unanswered = CallsOf(l, t) \ Said(l, t, n, "result")
        /\ Fold(l, n).waiting = (CallsOf(l, t) \intersect Said(l, t, n, "deferred")) \ Said(l, t, n, "result")
        /\ Fold(l, n).boundary = (CallsOf(l, t) = {} /\ Said(l, t, n, "result") = {} /\ l[t].stop # "pause")
    BY <1>12, <2>4, FoldOpen
  <2> QED BY <1>3, <1>10, <2>5, <2>6, FoldShape
<1> QED BY <1>3, <1>11, <1>12

\* The last of some positions is the one that no other is behind.
LEMMA LatestIs ==
    ASSUME NEW n \in Nat, NEW S, S \subseteq 1..n, NEW i \in S, \A j \in S : j <= i
    PROVE  Latest(S) = i
<1>1. \A j \in S : j \in Nat
  OBVIOUS
<1>2. Latest(S) = CHOOSE k \in S : \A j \in S : j <= k
  BY DEF Latest
<1>3. Latest(S) \in S /\ \A j \in S : j <= Latest(S)
  BY <1>2
<1> HIDE DEF Latest
<1>4. Latest(S) <= i /\ i <= Latest(S) /\ Latest(S) \in Nat /\ i \in Nat
  BY <1>1, <1>3
<1> QED BY <1>4

\* A reply opens a turn, a user message closes it, and what else there is leaves it open.
LEMMA OpenTurnBehind ==
    ASSUME NEW l, NEW n \in Nat
    PROVE  /\ l[n + 1].kind = "assistant" => OpenTurn(l, n + 1) = n + 1
           /\ l[n + 1].kind = "user" => OpenTurn(l, n + 1) = 0
           /\ l[n + 1].kind \notin {"assistant", "user"} => OpenTurn(l, n + 1) = OpenTurn(l, n)
<1> DEFINE S(k) == {j \in 1..k : l[j].kind \in {"assistant", "user"}}
<1>1. CASE l[n + 1].kind \in {"assistant", "user"}
  <2>1. n + 1 \in S(n + 1) /\ S(n + 1) \subseteq 1..(n + 1) /\ \A j \in S(n + 1) : j <= n + 1
    BY <1>1
  <2>2. Latest(S(n + 1)) = n + 1
    BY <2>1, LatestIs
  <2> QED BY <1>1, <2>2 DEF OpenTurn
<1>2. CASE l[n + 1].kind \notin {"assistant", "user"}
  <2>1. S(n + 1) = S(n)
    BY <1>2
  <2> QED BY <1>2, <2>1 DEF OpenTurn
<1> QED BY <1>1, <1>2

\* A turn that is open has a reply that opened it.
LEMMA OpenTurnIs ==
    ASSUME NEW l, NEW n \in Nat, OpenTurn(l, n) # 0
    PROVE  OpenTurn(l, n) \in 1..n /\ l[OpenTurn(l, n)].kind = "assistant"
<1> DEFINE i == Latest({j \in 1..n : l[j].kind \in {"assistant", "user"}})
<1>1. i # 0 => i \in 1..n
  BY LatestIsOne DEF Latest
<1>2. i > 0 /\ l[i].kind = "assistant" /\ OpenTurn(l, n) = i
  BY DEF OpenTurn
<1> HIDE DEF i
<1> QED BY <1>1, <1>2

\* What one record more makes of the turn in flight.
LEMMA FoldBehind ==
    ASSUME NEW l, NEW n \in Nat
    PROVE  /\ l[n + 1].kind \in {"meta", "claim", "terminal"} =>
                /\ Fold(l, n + 1).unanswered = Fold(l, n).unanswered
                /\ Fold(l, n + 1).boundary = Fold(l, n).boundary
           /\ l[n + 1].kind = "deferred" => Fold(l, n + 1).unanswered = Fold(l, n).unanswered
           /\ l[n + 1].kind = "result" =>
                Fold(l, n + 1).unanswered = Fold(l, n).unanswered \ {l[n + 1].id}
           /\ l[n + 1].kind = "assistant" =>
                /\ Fold(l, n + 1).unanswered = CallsOf(l, n + 1)
                /\ Fold(l, n + 1).boundary = (CallsOf(l, n + 1) = {} /\ l[n + 1].stop # "pause")
           /\ l[n + 1].kind = "user" => Fold(l, n + 1).unanswered = {}
<1>1. CASE l[n + 1].kind = "user"
  <2>1. OpenTurn(l, n + 1) = 0
    BY <1>1, OpenTurnBehind
  <2> QED BY <1>1, <2>1, FoldClosed
<1>2. CASE l[n + 1].kind = "assistant"
  <2>1. OpenTurn(l, n + 1) = n + 1 /\ n + 1 > 0 /\ n + 1 # 0
    BY <1>2, OpenTurnBehind
  <2>2. Said(l, n + 1, n + 1, "result") = {}
    BY DEF Said
  <2>3. /\ Fold(l, n + 1).unanswered = CallsOf(l, n + 1) \ Said(l, n + 1, n + 1, "result")
        /\ Fold(l, n + 1).boundary =
              (CallsOf(l, n + 1) = {} /\ Said(l, n + 1, n + 1, "result") = {} /\ l[n + 1].stop # "pause")
    BY <2>1, FoldOpen
  <2> QED BY <1>2, <2>2, <2>3
<1>3. CASE l[n + 1].kind \notin {"assistant", "user"}
  <2> DEFINE t == OpenTurn(l, n)
  <2>1. OpenTurn(l, n + 1) = t
    BY <1>3, OpenTurnBehind
  <2>2. CASE t = 0
    <3>1. Fold(l, n).unanswered = {} /\ Fold(l, n).boundary = FALSE
      BY <2>2, FoldClosed
    <3>2. Fold(l, n + 1).unanswered = {} /\ Fold(l, n + 1).boundary = FALSE
      BY <2>1, <2>2, FoldClosed
    <3> QED BY <1>3, <3>1, <3>2
  <2>3. CASE t # 0
    <3>1. t \in 1..n /\ t > 0
      BY <2>3, OpenTurnIs
    <3>2. Said(l, t, n + 1, "result") =
            Said(l, t, n, "result") \union (IF l[n + 1].kind = "result" THEN {l[n + 1].id} ELSE {})
      <4> DEFINE J(k) == {m \in (t + 1)..k : l[m].kind = "result"}
      <4> HIDE DEF t
      <4>1. J(n + 1) = J(n) \union (IF l[n + 1].kind = "result" THEN {n + 1} ELSE {})
        BY <3>1
      <4>2. \A k : Said(l, t, k, "result") = {l[j].id : j \in J(k)}
        BY DEF Said
      <4> HIDE DEF J
      <4> QED BY <4>1, <4>2
    <3>3. /\ Fold(l, n).unanswered = CallsOf(l, t) \ Said(l, t, n, "result")
          /\ Fold(l, n).boundary = (CallsOf(l, t) = {} /\ Said(l, t, n, "result") = {} /\ l[t].stop # "pause")
      BY <2>3, <3>1, FoldOpen
    <3>4. /\ Fold(l, n + 1).unanswered = CallsOf(l, t) \ Said(l, t, n + 1, "result")
          /\ Fold(l, n + 1).boundary =
                (CallsOf(l, t) = {} /\ Said(l, t, n + 1, "result") = {} /\ l[t].stop # "pause")
      BY <2>1, <2>3, <3>1, FoldOpen
    <3> HIDE DEF t
    <3> QED BY <1>3, <3>2, <3>3, <3>4
  <2> QED BY <2>2, <2>3
<1> QED BY <1>1, <1>2, <1>3

\* Nothing is in flight before the first record.
LEMMA FoldOfNothing ==
    ASSUME NEW l
    PROVE  OpenTurn(l, 0) = 0 /\ Fold(l, 0).unanswered = {} /\ Fold(l, 0).waiting = {}
<1>1. {j \in 1..0 : l[j].kind \in {"assistant", "user"}} = {}
  OBVIOUS
<1>2. OpenTurn(l, 0) = 0
  BY <1>1 DEF OpenTurn, Latest
<1> QED BY <1>2, FoldClosed


-----------------------------------------------------------------------------
(* What a worker's place says of the rest of it, and how it moves. *)

Place(w) ==
    /\ run[w].pc = "new" => run[w].view = 0
    /\ run[w].pc \in {"new", "loaded", "opened"} => run[w].given = NoCall /\ run[w].pending = FALSE
    /\ Active(run[w].pc) => run[w].seq = run[w].tail
    /\ run[w].pc \notin {"batch", "tool"} => run[w].todo = {}
    /\ run[w].pc = "model" => run[w].pending = FALSE
    /\ run[w].pc = "tool" => run[w].doing \in run[w].todo
    /\ run[w].pc = "answering" => run[w].mode = "answer"
    /\ run[w].pc = "prompt" => run[w].mode \in {"followUp", "chat"}
    /\ run[w].given # NoCall => run[w].mode = "answer"

\* What w still knows to be unanswered, and to be deferred.
Left(w) == Fold(log, run[w].view).unanswered \ {run[w].given}
Asked(w) == Fold(log, run[w].view).waiting \ {run[w].given}

\* What a worker knows of the run is what it loaded, less the answer it was given.
LEMMA StateParts ==
    ASSUME NEW w
    PROVE  /\ State(w).unanswered = Left(w) /\ State(w).waiting = Asked(w)
           /\ State(w).boundary = Fold(log, run[w].view).boundary
<1> DEFINE f == Fold(log, run[w].view)
           left == Left(w)
           asked == Asked(w)
<1>1. f = [unanswered |-> f.unanswered, waiting |-> f.waiting, completed |-> f.completed, boundary |-> f.boundary]
  BY FoldShape
<1>2. State(w) = [f EXCEPT !.unanswered = left, !.waiting = asked]
  BY DEF State, Left, Asked
<1> HIDE DEF f, left, asked
<1>3. State(w).unanswered = left /\ State(w).waiting = asked /\ State(w).boundary = f.boundary
  BY <1>1, <1>2
<1> QED BY <1>3 DEF f, left, asked

\* The log and the handle stay.
Keeps(w) ==
    /\ log' = log
    /\ run'[w].view = run[w].view /\ run'[w].tail = run[w].tail /\ run'[w].seq = run[w].seq

\* The worker goes on in the same turn.
GoesOn(w) == run'[w].mode = run[w].mode /\ run'[w].given = run[w].given

\* The log has a record of w's more, which w knows to be the last.
Adds(w, rec) ==
    /\ rec \in Record(Worker) /\ rec.by = w
    /\ Held(w) /\ log' = Append(log, rec)
    /\ run'[w].view = run[w].view

Knows(w) == run'[w].tail = Len(log) + 1 /\ run'[w].seq = Len(log) + 1

Loads(w) ==
    /\ run[w].pc = "new" /\ run'[w].pc = "loaded" /\ log' = log
    /\ run'[w].view = Len(log)
    /\ run'[w].given = NoCall /\ run'[w].pending = FALSE /\ run'[w].todo = {}

Opens(w) ==
    /\ run[w].pc = "loaded" /\ run'[w].pc = "opened" /\ log' = log
    /\ run'[w].view = run[w].view /\ run'[w].tail = Len(log)
    /\ run'[w].mode = run[w].mode
    /\ run'[w].given = NoCall /\ run'[w].pending = FALSE /\ run'[w].todo = {}

\* The process is no more.
IsGone(w) ==
    /\ run'[w].pc = "closed" /\ run'[w].view = run[w].view
    /\ run'[w].given = NoCall /\ run'[w].todo = {}

Goes(w) == log' = log /\ IsGone(w)

Creates(w) ==
    /\ run[w].pc = "new" /\ log = << >> /\ \E m : log' = <<Meta(w, m)>>
    /\ run'[w].pc = "turn" /\ run'[w].view = run[w].view /\ run'[w].tail = 1 /\ run'[w].seq = 1
    /\ run'[w].given = NoCall /\ run'[w].pending = FALSE /\ run'[w].todo = {}

Claims(w) ==
    /\ run[w].pc = "opened" /\ Adds(w, Claimed(w)) /\ Knows(w) /\ GoesOn(w)
    /\ run'[w].pending = (Left(w) # {}) /\ run'[w].todo = run[w].todo
    /\ \/ run'[w].pc = "answering" /\ run[w].mode = "answer"
       \/ run'[w].pc = "turn" /\ run[w].mode # "answer"
       \/ /\ Fold(log, run[w].view).boundary
          /\ \/ run'[w].pc = "prompt" /\ run[w].mode = "followUp"
             \/ run'[w].pc = "ended" /\ run'[w].reason = "completed"

GetsAnswer(w) ==
    \E id \in Asked(w) :
        /\ run[w].pc = "answering" /\ run'[w].pc = "turn"
        /\ Adds(w, Result(w, id)) /\ Knows(w)
        /\ run'[w].given = id /\ run'[w].mode = run[w].mode
        /\ run'[w].pending = run[w].pending /\ run'[w].todo = run[w].todo

Supplies(w) ==
    \E id \in Asked(w) :
        run[w].pc = "opened" /\ Adds(w, Result(w, id)) /\ IsGone(w)

Completes(w) ==
    /\ run[w].pc = "turn" /\ run[w].pending = TRUE /\ run'[w].pc = "batch"
    /\ Keeps(w) /\ GoesOn(w) /\ run'[w].pending = run[w].pending
    /\ run'[w].todo = Left(w) \ Asked(w) /\ run'[w].waiting = (Asked(w) # {})

AsksModel(w) ==
    /\ run'[w].pc = "model" /\ Keeps(w) /\ GoesOn(w) /\ run'[w].todo = {}
    /\ run'[w].pending = FALSE
    /\ \/ run[w].pc = "turn" /\ run[w].pending = FALSE
       \/ run[w].pc = "batch" /\ run[w].todo = {} /\ run[w].waiting = FALSE

Ends(w) ==
    /\ run'[w].pc = "ended" /\ Keeps(w) /\ GoesOn(w) /\ run'[w].todo = {}
    /\ run'[w].pending = run[w].pending
    /\ \/ /\ run[w].pc = "batch" /\ run[w].todo = {} /\ run[w].waiting = TRUE
          /\ run'[w].reason = "stopped"
       \/ /\ run[w].pc = "model" \/ (run[w].pc \in {"batch", "tool"} /\ run[w].todo # {})
          /\ run'[w].reason \in {"failed", "stopped"}

Dispatches(w) ==
    /\ run[w].pc = "batch" /\ run'[w].pc = "tool" /\ run'[w].doing \in run[w].todo
    /\ Keeps(w) /\ GoesOn(w) /\ run'[w].pending = run[w].pending
    /\ run'[w].todo = run[w].todo /\ run'[w].waiting = run[w].waiting

Settles(w) ==
    \E id \in run[w].todo :
        /\ run[w].pc \in {"batch", "tool"} /\ run'[w].pc = "batch"
        /\ Knows(w) /\ GoesOn(w) /\ run'[w].pending = run[w].pending
        /\ run'[w].todo = run[w].todo \ {id}
        /\ \/ Adds(w, Result(w, id)) /\ run'[w].waiting = run[w].waiting
           \/ Adds(w, Deferral(w, id)) /\ run'[w].waiting = TRUE

Hears(w) ==
    \E calls \in SUBSET Call, stop \in Stop :
        /\ run[w].pc = "model"
        /\ Adds(w, Assistant(w, calls, stop)) /\ Knows(w) /\ GoesOn(w)
        /\ run'[w].pending = run[w].pending
        /\ \/ /\ run'[w].pc = "ended" /\ run'[w].todo = {}
              /\ run'[w].reason # "completed" \/ (calls = {} /\ stop = "done")
           \/ /\ run'[w].pc = "batch"
              /\ run'[w].todo = {[turn |-> Len(log) + 1, call |-> c] : c \in calls}

TakesPrompt(w) ==
    /\ run[w].pc = "ended" /\ run[w].mode \in {"followUp", "chat"} /\ Continuable(run[w].reason)
    /\ run'[w].pc = "prompt" /\ Keeps(w) /\ GoesOn(w)
    /\ run'[w].pending = run[w].pending /\ run'[w].todo = {}

Prompts(w) ==
    /\ run[w].pc = "prompt" /\ run'[w].pc = "turn"
    /\ Adds(w, UserTurn(w)) /\ Knows(w) /\ run'[w].given = run[w].given
    /\ run'[w].mode \in {run[w].mode, "plain"}
    /\ run'[w].pending = run[w].pending /\ run'[w].todo = {}

Declines(w) ==
    /\ run[w].pc = "prompt" /\ run'[w].pc = "ended" /\ run'[w].reason \in {"failed", "stopped"}
    /\ Keeps(w) /\ run'[w].given = run[w].given
    /\ run'[w].pending = run[w].pending /\ run'[w].todo = {}

Finishes(w) ==
    \E why \in Reason :
        /\ run[w].pc = "ended" /\ (why = "completed" => run[w].reason = "completed")
        /\ Adds(w, Terminal(w, why)) /\ IsGone(w)

Silently(w) ==
    \/ Loads(w) \/ Opens(w) \/ Goes(w) \/ Completes(w) \/ AsksModel(w) \/ Ends(w) \/ Dispatches(w)
    \/ TakesPrompt(w) \/ Declines(w)

Writing(w) ==
    \/ Creates(w) \/ Claims(w) \/ GetsAnswer(w) \/ Supplies(w) \/ Settles(w) \/ Hears(w)
    \/ Prompts(w) \/ Finishes(w)

Moves(w) ==
    /\ run' = [run EXCEPT ![w] = run'[w]]
    /\ Silently(w) \/ Writing(w)


\* What becomes of a worker that writes nothing.
LEMMA BecomesIs ==
    ASSUME TypeInv, NEW w \in Worker, NEW r, Becomes(w, r)
    PROVE  log' = log /\ run'[w] = r /\ run' = [run EXCEPT ![w] = run'[w]]
BY DEF Becomes, TypeInv

\* What becomes of the rest of a worker that appends.
Same(w, r) ==
    /\ run'[w].pc = r.pc /\ run'[w].mode = r.mode /\ run'[w].view = r.view
    /\ run'[w].given = r.given /\ run'[w].pending = r.pending /\ run'[w].todo = r.todo
    /\ run'[w].waiting = r.waiting /\ run'[w].doing = r.doing /\ run'[w].reason = r.reason

\* A claim or an answer lands behind all there is.
LEMMA AppendsIs ==
    ASSUME TypeInv, NEW w \in Worker, NEW rec, NEW r \in Run, AppendNext(w, rec, r)
    PROVE  /\ Held(w) /\ log' = Append(log, rec) /\ run' = [run EXCEPT ![w] = run'[w]]
           /\ Same(w, r) /\ Knows(w)
<1> DEFINE new == [r EXCEPT !.tail = Len(log) + 1, !.seq = Len(log) + 1]
<1>1. Held(w) /\ log' = Append(log, rec) /\ run' = [run EXCEPT ![w] = new]
  BY DEF AppendNext, RestoredSeq
<1>2. run'[w] = new
  BY <1>1 DEF TypeInv
<1>3. new.tail = Len(log) + 1 /\ new.seq = Len(log) + 1
  BY DEF Run
<1>4. /\ new.pc = r.pc /\ new.mode = r.mode /\ new.view = r.view
      /\ new.given = r.given /\ new.pending = r.pending /\ new.todo = r.todo
      /\ new.waiting = r.waiting /\ new.doing = r.doing /\ new.reason = r.reason
  BY DEF Run
<1> HIDE DEF new
<1> QED BY <1>1, <1>2, <1>3, <1>4 DEF Same, Knows

\* A runner that numbers on from its handle's tail emits behind all there is.
LEMMA EmitsIs ==
    ASSUME TypeInv, NEW w \in Worker, NEW rec, NEW r \in Run, Emit(w, rec, r),
           run[w].seq = run[w].tail
    PROVE  /\ Held(w) /\ log' = Append(log, rec) /\ run' = [run EXCEPT ![w] = run'[w]]
           /\ Same(w, r) /\ Knows(w)
<1>1. run[w].seq \in Nat /\ run[w].tail \in Nat /\ ~(run[w].seq < run[w].tail)
  BY WorkerFacts
<1>2. Held(w) /\ run[w].seq = Len(log)
  BY <1>1 DEF Emit, Held
<1> DEFINE new == [r EXCEPT !.tail = Len(log) + 1, !.seq = run[w].seq + 1]
<1>3. log' = Append(log, rec) /\ run' = [run EXCEPT ![w] = new]
  BY <1>1 DEF Emit
<1>4. run'[w] = new
  BY <1>3 DEF TypeInv
<1>5. new.tail = Len(log) + 1 /\ new.seq = Len(log) + 1
  BY <1>2 DEF Run
<1>6. /\ new.pc = r.pc /\ new.mode = r.mode /\ new.view = r.view
      /\ new.given = r.given /\ new.pending = r.pending /\ new.todo = r.todo
      /\ new.waiting = r.waiting /\ new.doing = r.doing /\ new.reason = r.reason
  BY DEF Run
<1> HIDE DEF new
<1> QED BY <1>2, <1>3, <1>4, <1>5, <1>6 DEF Same, Knows

\* A process that is not there any more.
LEMMA GoneIs ==
    ASSUME NEW n \in Nat
    PROVE  /\ Gone("closed", n) \in Run /\ Gone("closed", n).pc = "closed"
           /\ Gone("closed", n).view = n /\ Gone("closed", n).given = NoCall
           /\ Gone("closed", n).todo = {}
BY DEF Gone, Run

\* Where a claim leads, by what it was made for.
LEMMA EntryIs ==
    ASSUME NEW w
    PROVE  \/ Entry(w) = "answering" /\ run[w].mode = "answer"
           \/ Entry(w) = "turn" /\ run[w].mode # "answer"
           \/ /\ State(w).boundary
              /\ \/ Entry(w) = "prompt" /\ run[w].mode = "followUp"
                 \/ Entry(w) = "ended"
<1>1. CASE run[w].mode = "answer"
  BY <1>1 DEF Entry
<1>2. CASE run[w].mode = "followUp"
  BY <1>2 DEF Entry
<1>3. CASE run[w].mode = "chat"
  BY <1>3 DEF Entry
<1>4. CASE run[w].mode \notin {"answer", "followUp", "chat"}
  BY <1>4 DEF Entry
<1> QED BY <1>1, <1>2, <1>3, <1>4

\* Up to the loop.
LEMMA OpeningMoves ==
    ASSUME TypeInv, NEW w \in Worker, Place(w),
           \/ \E m \in Mode : Create(w, m) \/ Load(w, m)
           \/ OpenJournal(w)
           \/ Claim(w)
           \/ Answer(w)
           \/ Supply(w)
    PROVE  Moves(w)
<1>1. run[w] \in Run /\ run[w].tail \in Nat /\ run[w].view \in Nat /\ Len(log) \in Nat /\ run \in [Worker -> Run]
  BY WorkerFacts DEF TypeInv
<1>2. State(w).unanswered = Left(w) /\ State(w).waiting = Asked(w)
        /\ State(w).boundary = Fold(log, run[w].view).boundary
  BY StateParts
<1>3. ASSUME NEW m \in Mode, Create(w, m)
      PROVE  Moves(w)
  <2> DEFINE r == [run[w] EXCEPT !.pc = "turn", !.mode = m, !.tail = 1, !.seq = 1]
  <2>1. run[w].pc = "new" /\ log = << >> /\ log' = <<Meta(w, m)>> /\ run' = [run EXCEPT ![w] = r]
    BY <1>3 DEF Create
  <2>2. run'[w] = r
    BY <1>1, <2>1
  <2>3. r.pc = "turn" /\ r.tail = 1 /\ r.seq = 1 /\ r.view = run[w].view /\ r.given = run[w].given
          /\ r.pending = run[w].pending /\ r.todo = run[w].todo
    BY <1>1 DEF Run
  <2> HIDE DEF r
  <2>4. run[w].given = NoCall /\ run[w].pending = FALSE /\ run[w].todo = {}
    BY <2>1 DEF Place
  <2>5. Creates(w)
    BY <2>1, <2>2, <2>3, <2>4 DEF Creates
  <2> QED BY <2>1, <2>2, <2>5 DEF Moves, Writing
<1>4. ASSUME NEW m \in Mode, Load(w, m)
      PROVE  Moves(w)
  <2> DEFINE r == [run[w] EXCEPT !.pc = "loaded", !.mode = m, !.view = Len(log)]
  <2>1. run[w].pc = "new" /\ log' = log /\ run'[w] = r /\ run' = [run EXCEPT ![w] = run'[w]]
    BY <1>4, BecomesIs DEF Load
  <2>2. r.pc = "loaded" /\ r.view = Len(log) /\ r.given = run[w].given
          /\ r.pending = run[w].pending /\ r.todo = run[w].todo
    BY <1>1 DEF Run
  <2> HIDE DEF r
  <2>3. run[w].given = NoCall /\ run[w].pending = FALSE /\ run[w].todo = {}
    BY <2>1 DEF Place
  <2>4. Loads(w)
    BY <2>1, <2>2, <2>3 DEF Loads
  <2> QED BY <2>1, <2>4 DEF Moves, Silently
<1>5. ASSUME OpenJournal(w)
      PROVE  Moves(w)
  <2> DEFINE r == [run[w] EXCEPT !.pc = "opened", !.tail = Len(log)]
  <2>1. run[w].pc = "loaded" /\ log' = log /\ run'[w] = r /\ run' = [run EXCEPT ![w] = run'[w]]
    BY <1>5, BecomesIs DEF OpenJournal
  <2>2. r.pc = "opened" /\ r.tail = Len(log) /\ r.view = run[w].view /\ r.given = run[w].given
          /\ r.mode = run[w].mode /\ r.pending = run[w].pending /\ r.todo = run[w].todo
    BY <1>1 DEF Run
  <2> HIDE DEF r
  <2>3. run[w].given = NoCall /\ run[w].pending = FALSE /\ run[w].todo = {}
    BY <2>1 DEF Place
  <2>4. Opens(w)
    BY <2>1, <2>2, <2>3 DEF Opens
  <2> QED BY <2>1, <2>4 DEF Moves, Silently
<1>6. ASSUME Claim(w)
      PROVE  Moves(w)
  <2> DEFINE why == IF Entry(w) = "ended" THEN "completed" ELSE run[w].reason
  <2> DEFINE e == Entry(w)
  <2> DEFINE p == Pending(State(w))
  <2> DEFINE r == [run[w] EXCEPT !.pc = e, !.pending = p, !.reason = why]
  <2>1. run[w].pc = "opened" /\ AppendNext(w, Claimed(w), r)
    BY <1>6 DEF Claim
  <2>2. p = (Left(w) # {})
    BY <1>2 DEF Pending
  <2>13. p \in BOOLEAN
    BY DEF Pending
  <2>3. e \in {"prompt", "ended", "answering", "turn"}
    BY EntryFacts
  <2>4. why \in Reason \union {NoReason} /\ (e = "ended" => why = "completed")
    BY <1>1 DEF Run, Reason
  <2>5. \/ e = "answering" /\ run[w].mode = "answer"
        \/ e = "turn" /\ run[w].mode # "answer"
        \/ /\ Fold(log, run[w].view).boundary
           /\ \/ e = "prompt" /\ run[w].mode = "followUp"
              \/ e = "ended"
    BY <1>2, EntryIs
  <2> HIDE DEF p, why, e
  <2>6. r \in Run
    BY <1>1, <2>13, <2>3, <2>4 DEF Run
  <2>7. r.pc = e /\ r.pending = p /\ r.reason = why /\ r.view = run[w].view
          /\ r.mode = run[w].mode /\ r.given = run[w].given /\ r.todo = run[w].todo
    BY <1>1 DEF Run
  <2> HIDE DEF r
  <2>8. Held(w) /\ log' = Append(log, Claimed(w)) /\ run' = [run EXCEPT ![w] = run'[w]]
          /\ Same(w, r) /\ Knows(w)
    BY <2>1, <2>6, AppendsIs
  <2>9. Claimed(w) \in Record(Worker) /\ Claimed(w).by = w
    BY NewRecords
  <2>10. Adds(w, Claimed(w)) /\ GoesOn(w)
    BY <2>7, <2>8, <2>9 DEF Adds, GoesOn, Same
  <2>11. run'[w].pc = e /\ run'[w].pending = p /\ run'[w].reason = why /\ run'[w].todo = run[w].todo
    BY <2>7, <2>8 DEF Same
  <2>12. Claims(w)
    BY <2>1, <2>2, <2>4, <2>5, <2>8, <2>10, <2>11 DEF Claims
  <2> QED BY <2>8, <2>12 DEF Moves, Writing
<1>7. ASSUME Answer(w)
      PROVE  Moves(w)
  <2>1. PICK id \in Asked(w) :
          AppendNext(w, Result(w, id), [run[w] EXCEPT !.pc = "turn", !.given = id])
    BY <1>2, <1>7 DEF Answer
  <2> DEFINE r == [run[w] EXCEPT !.pc = "turn", !.given = id]
  <2>2. id \in CallId
    BY <1>2, StateFacts
  <2>3. r \in Run
    BY <1>1, <2>2 DEF Run
  <2>4. r.pc = "turn" /\ r.given = id /\ r.view = run[w].view /\ r.mode = run[w].mode
          /\ r.pending = run[w].pending /\ r.todo = run[w].todo
    BY <1>1 DEF Run
  <2>5. AppendNext(w, Result(w, id), r) /\ run[w].pc = "answering"
    BY <1>7, <2>1 DEF Answer
  <2> HIDE DEF r
  <2>6. Held(w) /\ log' = Append(log, Result(w, id)) /\ run' = [run EXCEPT ![w] = run'[w]]
          /\ Same(w, r) /\ Knows(w)
    BY <2>3, <2>5, AppendsIs
  <2>7. Result(w, id) \in Record(Worker) /\ Result(w, id).by = w
    BY <2>2, NewRecords
  <2>8. Adds(w, Result(w, id)) /\ run'[w].pc = "turn" /\ run'[w].given = id /\ run'[w].mode = run[w].mode
          /\ run'[w].pending = run[w].pending /\ run'[w].todo = run[w].todo
    BY <2>4, <2>6, <2>7 DEF Adds, Same
  <2>9. GetsAnswer(w)
    BY <2>5, <2>6, <2>8 DEF GetsAnswer
  <2> QED BY <2>6, <2>9 DEF Moves, Writing
<1>8. ASSUME Supply(w)
      PROVE  Moves(w)
  <2> DEFINE r == Gone("closed", run[w].view)
  <2>1. PICK id \in Asked(w) :
          Held(w) /\ log' = Append(log, Result(w, id)) /\ run' = [run EXCEPT ![w] = r]
    BY <1>2, <1>8 DEF Supply
  <2>2. id \in CallId /\ run[w].pc = "opened"
    BY <1>2, <1>8, StateFacts DEF Supply
  <2>3. run'[w] = r
    BY <1>1, <2>1
  <2>4. r.pc = "closed" /\ r.view = run[w].view /\ r.given = NoCall /\ r.todo = {}
    BY <1>1, GoneIs
  <2> HIDE DEF r
  <2>5. Result(w, id) \in Record(Worker) /\ Result(w, id).by = w
    BY <2>2, NewRecords
  <2>6. Supplies(w)
    BY <2>1, <2>2, <2>3, <2>4, <2>5 DEF Supplies, Adds, IsGone
  <2> QED BY <2>1, <2>3, <2>6 DEF Moves, Writing
<1> QED BY <1>3, <1>4, <1>5, <1>6, <1>7, <1>8


\* The end of a turn.
LEMMA EndedIs ==
    ASSUME NEW r \in Run, NEW why \in Reason
    PROVE  /\ Ended(r, why) \in Run /\ Ended(r, why).pc = "ended" /\ Ended(r, why).reason = why
           /\ Ended(r, why).view = r.view /\ Ended(r, why).tail = r.tail /\ Ended(r, why).seq = r.seq
           /\ Ended(r, why).mode = r.mode /\ Ended(r, why).given = r.given
           /\ Ended(r, why).pending = r.pending /\ Ended(r, why).todo = {}
<1> DEFINE e == Ended(r, why)
<1>1. e \in Run
  BY DEF Ended, Run, Reason
<1>2. /\ e.pc = "ended" /\ e.reason = why /\ e.view = r.view /\ e.tail = r.tail /\ e.seq = r.seq
      /\ e.mode = r.mode /\ e.given = r.given /\ e.pending = r.pending /\ e.todo = {}
  BY DEF Ended, Run
<1> QED BY <1>1, <1>2

\* A settled call.
LEMMA SettledIs ==
    ASSUME TypeInv, NEW w \in Worker, NEW id,
           NEW r, r \in {Settled(w, id), [Settled(w, id) EXCEPT !.waiting = TRUE]}
    PROVE  /\ r \in Run /\ r.pc = "batch" /\ r.view = run[w].view /\ r.mode = run[w].mode
           /\ r.given = run[w].given /\ r.pending = run[w].pending /\ r.todo = run[w].todo \ {id}
           /\ r = Settled(w, id) => r.waiting = run[w].waiting
           /\ r # Settled(w, id) => r.waiting = TRUE
<1> DEFINE s == Settled(w, id)
           d == [s EXCEPT !.waiting = TRUE]
<1>1. run[w] \in Run
  BY WorkerFacts
<1>2. s \in Run
  BY <1>1 DEF Settled, Run
<1>3. s.pc = "batch" /\ s.view = run[w].view /\ s.mode = run[w].mode /\ s.given = run[w].given
        /\ s.pending = run[w].pending /\ s.todo = run[w].todo \ {id} /\ s.waiting = run[w].waiting
  BY <1>1 DEF Settled, Run
<1> HIDE DEF s
<1>4. d \in Run
  BY <1>2 DEF Run
<1>5. d.pc = s.pc /\ d.view = s.view /\ d.mode = s.mode /\ d.given = s.given
        /\ d.pending = s.pending /\ d.todo = s.todo /\ d.waiting = TRUE
  BY <1>2 DEF Run
<1>6. r = s \/ r = d
  BY DEF s
<1> HIDE DEF d
<1>7. CASE r = s
  BY <1>2, <1>3, <1>7 DEF s
<1>8. CASE r = d
  BY <1>3, <1>4, <1>5, <1>8 DEF s, d
<1> QED BY <1>6, <1>7, <1>8

\* The restored turn, and what ends a batch.
LEMMA TurningMoves ==
    ASSUME TypeInv, NEW w \in Worker, Place(w),
           \/ CompletePending(w)
           \/ SkipPending(w)
           \/ BatchDone(w)
           \/ BatchWaits(w)
    PROVE  Moves(w)
<1>1. run[w] \in Run /\ run[w].pending \in BOOLEAN /\ run[w].waiting \in BOOLEAN
  BY WorkerFacts DEF Run
<1>2. State(w).unanswered = Left(w) /\ State(w).waiting = Asked(w)
  BY StateParts
<1>3. ASSUME CompletePending(w)
      PROVE  Moves(w)
  <2> DEFINE todo == Unrun(w)
             waits == StillWaiting(w)
             r == [run[w] EXCEPT !.pc = "batch", !.todo = todo, !.waiting = waits]
  <2>1. run[w].pc = "turn" /\ run[w].pending = TRUE
          /\ log' = log /\ run'[w] = r /\ run' = [run EXCEPT ![w] = run'[w]]
    BY <1>1, <1>3, BecomesIs DEF CompletePending
  <2>2. todo = Left(w) \ Asked(w)
    BY <1>2 DEF Unrun
  <2>3. waits = (Asked(w) # {})
    BY <1>2 DEF StillWaiting
  <2> HIDE DEF todo, waits
  <2>4. /\ r.pc = "batch" /\ r.todo = todo /\ r.view = run[w].view /\ r.tail = run[w].tail
        /\ r.seq = run[w].seq /\ r.mode = run[w].mode /\ r.given = run[w].given
        /\ r.pending = run[w].pending
    BY <1>1 DEF Run
  <2>5. r.waiting = waits
    BY <1>1 DEF Run
  <2> HIDE DEF r
  <2>6. Keeps(w) /\ GoesOn(w)
    BY <2>1, <2>4 DEF Keeps, GoesOn
  <2>7. run'[w].waiting = (Asked(w) # {})
    BY <2>1, <2>3, <2>5
  <2>8. Completes(w)
    BY <2>1, <2>2, <2>4, <2>6, <2>7 DEF Completes
  <2> QED BY <2>1, <2>8 DEF Moves, Silently
<1>4. ASSUME SkipPending(w)
      PROVE  Moves(w)
  <2> DEFINE r == [run[w] EXCEPT !.pc = "model"]
  <2>1. run[w].pc = "turn" /\ run[w].pending = FALSE
          /\ log' = log /\ run'[w] = r /\ run' = [run EXCEPT ![w] = run'[w]]
    BY <1>1, <1>4, BecomesIs DEF SkipPending
  <2>2. /\ r.pc = "model" /\ r.todo = run[w].todo /\ r.view = run[w].view /\ r.tail = run[w].tail
        /\ r.seq = run[w].seq /\ r.mode = run[w].mode /\ r.given = run[w].given
        /\ r.pending = run[w].pending
    BY <1>1 DEF Run
  <2> HIDE DEF r
  <2>3. run[w].todo = {}
    BY <2>1 DEF Place
  <2>4. AsksModel(w)
    BY <2>1, <2>2, <2>3 DEF AsksModel, Keeps, GoesOn
  <2> QED BY <2>1, <2>4 DEF Moves, Silently
<1>5. ASSUME BatchDone(w)
      PROVE  Moves(w)
  <2> DEFINE r == [run[w] EXCEPT !.pc = "model", !.pending = FALSE]
  <2>1. run[w].pc = "batch" /\ run[w].waiting = FALSE /\ run[w].todo = {}
          /\ log' = log /\ run'[w] = r /\ run' = [run EXCEPT ![w] = run'[w]]
    BY <1>1, <1>5, BecomesIs DEF BatchDone
  <2>2. /\ r.pc = "model" /\ r.todo = run[w].todo /\ r.view = run[w].view /\ r.tail = run[w].tail
        /\ r.seq = run[w].seq /\ r.mode = run[w].mode /\ r.given = run[w].given
        /\ r.pending = FALSE
    BY <1>1 DEF Run
  <2> HIDE DEF r
  <2>3. AsksModel(w)
    BY <2>1, <2>2 DEF AsksModel, Keeps, GoesOn
  <2> QED BY <2>1, <2>3 DEF Moves, Silently
<1>6. ASSUME BatchWaits(w)
      PROVE  Moves(w)
  <2> DEFINE r == Ended(run[w], "stopped")
  <2>1. run[w].pc = "batch" /\ run[w].waiting = TRUE /\ run[w].todo = {}
          /\ log' = log /\ run'[w] = r /\ run' = [run EXCEPT ![w] = run'[w]]
    BY <1>1, <1>6, BecomesIs DEF BatchWaits
  <2>2. /\ r.pc = "ended" /\ r.reason = "stopped" /\ r.todo = {} /\ r.view = run[w].view
        /\ r.tail = run[w].tail /\ r.seq = run[w].seq /\ r.mode = run[w].mode
        /\ r.given = run[w].given /\ r.pending = run[w].pending
    BY <1>1, EndedIs DEF Reason
  <2> HIDE DEF r
  <2>3. Ends(w)
    BY <2>1, <2>2 DEF Ends, Keeps, GoesOn
  <2> QED BY <2>1, <2>3 DEF Moves, Silently
<1> QED BY <1>3, <1>4, <1>5, <1>6

\* The calls of a batch.
LEMMA CallingMoves ==
    ASSUME TypeInv, NEW w \in Worker, Place(w),
           \/ RefuseCall(w)
           \/ DeferCall(w)
           \/ Dispatch(w)
           \/ AbortCall(w)
           \/ ToolAnswers(w)
           \/ ToolDefers(w)
           \/ ToolFails(w)
    PROVE  Moves(w)
<1>1. run[w] \in Run /\ run[w].todo \subseteq CallId
  BY WorkerFacts DEF Run
<1>2. HasCall(w) => run[w].pc = "batch" /\ NextCall(w) \in run[w].todo /\ run[w].todo # {}
  BY NextCallFacts DEF HasCall
<1>3. run[w].pc = "tool" => run[w].doing \in run[w].todo /\ run[w].todo # {}
  BY DEF Place
<1>4. ASSUME NEW why \in {"failed", "stopped"}, Becomes(w, Ended(run[w], why)),
             run[w].pc \in {"batch", "tool"}, run[w].todo # {}
      PROVE  Moves(w)
  <2> DEFINE r == Ended(run[w], why)
  <2>1. log' = log /\ run'[w] = r /\ run' = [run EXCEPT ![w] = run'[w]]
    BY <1>4, BecomesIs
  <2>2. /\ r.pc = "ended" /\ r.reason = why /\ r.todo = {} /\ r.view = run[w].view
        /\ r.tail = run[w].tail /\ r.seq = run[w].seq /\ r.mode = run[w].mode
        /\ r.given = run[w].given /\ r.pending = run[w].pending
    BY <1>1, EndedIs DEF Reason
  <2> HIDE DEF r
  <2>3. Ends(w)
    BY <1>4, <2>1, <2>2 DEF Ends, Keeps, GoesOn
  <2> QED BY <2>1, <2>3 DEF Moves, Silently
<1>5. ASSUME NEW id \in run[w].todo, run[w].pc \in {"batch", "tool"},
             \/ Emit(w, Result(w, id), Settled(w, id))
             \/ Emit(w, Deferral(w, id), [Settled(w, id) EXCEPT !.waiting = TRUE])
      PROVE  Moves(w)
  <2>1. id \in CallId
    BY <1>1
  <2>2. run[w].seq = run[w].tail
    BY <1>5 DEF Place, Active
  <2>3. CASE Emit(w, Result(w, id), Settled(w, id))
    <3> DEFINE r == Settled(w, id)
    <3>1. r \in Run /\ r.pc = "batch" /\ r.view = run[w].view /\ r.mode = run[w].mode
            /\ r.given = run[w].given /\ r.pending = run[w].pending /\ r.todo = run[w].todo \ {id}
            /\ r.waiting = run[w].waiting
      <4>1. r = Settled(w, id) /\ r \in {Settled(w, id), [Settled(w, id) EXCEPT !.waiting = TRUE]}
        OBVIOUS
      <4> HIDE DEF r
      <4> QED BY <4>1, SettledIs
    <3>2. Emit(w, Result(w, id), r)
      BY <2>3
    <3> HIDE DEF r
    <3>3. /\ Held(w) /\ log' = Append(log, Result(w, id)) /\ run' = [run EXCEPT ![w] = run'[w]]
          /\ Same(w, r) /\ Knows(w)
      BY <2>2, <3>1, <3>2, EmitsIs
    <3>4. Result(w, id) \in Record(Worker) /\ Result(w, id).by = w
      BY <2>1, NewRecords
    <3>5. Adds(w, Result(w, id)) /\ GoesOn(w)
      BY <3>1, <3>3, <3>4 DEF Adds, GoesOn, Same
    <3>6. Settles(w)
      BY <1>5, <3>1, <3>3, <3>5 DEF Settles, Same
    <3> QED BY <3>3, <3>6 DEF Moves, Writing
  <2>4. CASE Emit(w, Deferral(w, id), [Settled(w, id) EXCEPT !.waiting = TRUE])
    <3> DEFINE r == [Settled(w, id) EXCEPT !.waiting = TRUE]
    <3>1. r \in Run /\ r.pc = "batch" /\ r.view = run[w].view /\ r.mode = run[w].mode
            /\ r.given = run[w].given /\ r.pending = run[w].pending /\ r.todo = run[w].todo \ {id}
      BY SettledIs
    <3>2. r.waiting = TRUE
      <4>1. Settled(w, id) \in Run
        BY SettledIs
      <4> QED BY <4>1 DEF Run
    <3>3. Emit(w, Deferral(w, id), r)
      BY <2>4
    <3> HIDE DEF r
    <3>4. /\ Held(w) /\ log' = Append(log, Deferral(w, id)) /\ run' = [run EXCEPT ![w] = run'[w]]
          /\ Same(w, r) /\ Knows(w)
      BY <2>2, <3>1, <3>3, EmitsIs
    <3>5. Deferral(w, id) \in Record(Worker) /\ Deferral(w, id).by = w
      BY <2>1, NewRecords
    <3>6. Adds(w, Deferral(w, id)) /\ GoesOn(w)
      BY <3>1, <3>4, <3>5 DEF Adds, GoesOn, Same
    <3>7. Settles(w)
      BY <1>5, <3>1, <3>2, <3>4, <3>6 DEF Settles, Same
    <3> QED BY <3>4, <3>7 DEF Moves, Writing
  <2> QED BY <1>5, <2>3, <2>4
<1>6. ASSUME Dispatch(w)
      PROVE  Moves(w)
  <2> DEFINE id == NextCall(w)
             r == [run[w] EXCEPT !.pc = "tool", !.doing = id]
  <2>1. log' = log /\ run'[w] = r /\ run' = [run EXCEPT ![w] = run'[w]]
          /\ run[w].pc = "batch" /\ id \in run[w].todo
    BY <1>2, <1>6, BecomesIs DEF Dispatch
  <2> HIDE DEF id
  <2>2. /\ r.pc = "tool" /\ r.doing = id /\ r.todo = run[w].todo /\ r.waiting = run[w].waiting
        /\ r.tail = run[w].tail /\ r.seq = run[w].seq /\ r.view = run[w].view
        /\ r.mode = run[w].mode /\ r.given = run[w].given /\ r.pending = run[w].pending
    BY <1>1 DEF Run
  <2> HIDE DEF r
  <2>3. Dispatches(w)
    BY <2>1, <2>2 DEF Dispatches, Keeps, GoesOn
  <2> QED BY <2>1, <2>3 DEF Moves, Silently
<1>7. RefuseCall(w) => Moves(w)
  BY <1>2, <1>5 DEF RefuseCall
<1>8. DeferCall(w) => Moves(w)
  BY <1>2, <1>5 DEF DeferCall
<1>9. AbortCall(w) => Moves(w)
  BY <1>2, <1>4 DEF AbortCall
<1>10. ToolAnswers(w) => Moves(w)
  BY <1>3, <1>5 DEF ToolAnswers
<1>11. ToolDefers(w) => Moves(w)
  BY <1>3, <1>5 DEF ToolDefers
<1>12. ToolFails(w) => Moves(w)
  BY <1>3, <1>4 DEF ToolFails
<1> QED BY <1>6, <1>7, <1>8, <1>9, <1>10, <1>11, <1>12

\* The model, and its reply.
LEMMA ModellingMoves ==
    ASSUME TypeInv, NEW w \in Worker, Place(w),
           \/ NoReply(w)
           \/ \E calls \in SUBSET Call, stop \in Stop : Reply(w, calls, stop)
    PROVE  Moves(w)
<1>1. run[w] \in Run /\ Len(log) \in Nat
  BY WorkerFacts
<1>2. ASSUME NEW why \in Reason
      PROVE  LET e == Ended(run[w], why) IN
             /\ e \in Run /\ e.pc = "ended" /\ e.reason = why
             /\ e.view = run[w].view /\ e.tail = run[w].tail /\ e.seq = run[w].seq
             /\ e.mode = run[w].mode /\ e.given = run[w].given
             /\ e.pending = run[w].pending /\ e.todo = {}
  BY <1>1, EndedIs
<1>3. ASSUME NoReply(w)
      PROVE  Moves(w)
  <2>1. PICK why \in {"failed", "stopped"} : Becomes(w, Ended(run[w], why))
    BY <1>3 DEF NoReply
  <2> DEFINE r == Ended(run[w], why)
  <2>2. log' = log /\ run'[w] = r /\ run' = [run EXCEPT ![w] = run'[w]] /\ run[w].pc = "model"
    BY <1>3, <2>1, BecomesIs DEF NoReply
  <2>3. /\ r.pc = "ended" /\ r.reason = why /\ r.todo = {} /\ r.view = run[w].view
        /\ r.tail = run[w].tail /\ r.seq = run[w].seq /\ r.mode = run[w].mode
        /\ r.given = run[w].given /\ r.pending = run[w].pending
    BY <1>2 DEF Reason
  <2> HIDE DEF r
  <2>4. Ends(w)
    BY <2>1, <2>2, <2>3 DEF Ends, Keeps, GoesOn
  <2> QED BY <2>2, <2>4 DEF Moves, Silently
<1>4. ASSUME NEW calls \in SUBSET Call, NEW stop \in Stop, Reply(w, calls, stop)
      PROVE  Moves(w)
  <2> DEFINE batch == {[turn |-> Len(log) + 1, call |-> c] : c \in calls}
             b == [run[w] EXCEPT !.pc = "batch", !.todo = batch]
             said == Assistant(w, calls, stop)
  <2>1. PICK r \in AfterReply(w, calls, stop) : Emit(w, said, r)
    BY <1>4 DEF Reply
  <2>2. run[w].pc = "model"
    BY <1>4 DEF Reply
  <2>3. \/ r \in {Ended(run[w], "failed"), Ended(run[w], "stopped")}
        \/ r = Ended(run[w], "completed") /\ calls = {} /\ stop = "done"
        \/ r = b
    BY <2>1 DEF AfterReply
  <2>4. batch \subseteq CallId
    <3>1. Len(log) + 1 \in Nat \ {0}
      BY <1>1
    <3> QED BY <3>1 DEF CallId
  <2>5. said \in Record(Worker) /\ said.by = w
    BY NewRecords
  <2> HIDE DEF batch, said
  <2>6. b \in Run /\ b.pc = "batch" /\ b.todo = batch /\ b.view = run[w].view
          /\ b.mode = run[w].mode /\ b.given = run[w].given /\ b.pending = run[w].pending
    BY <1>1, <2>4 DEF Run
  <2> HIDE DEF b
  <2>7. /\ r \in Run /\ r.view = run[w].view /\ r.mode = run[w].mode /\ r.given = run[w].given
        /\ r.pending = run[w].pending
        /\ \/ /\ r.pc = "ended" /\ r.todo = {}
              /\ r.reason # "completed" \/ (calls = {} /\ stop = "done")
           \/ r.pc = "batch" /\ r.todo = batch
    BY <1>2, <2>3, <2>6 DEF Reason
  <2>8. run[w].seq = run[w].tail
    BY <2>2 DEF Place, Active
  <2>9. /\ Held(w) /\ log' = Append(log, said) /\ run' = [run EXCEPT ![w] = run'[w]]
        /\ Same(w, r) /\ Knows(w)
    BY <2>1, <2>7, <2>8, EmitsIs
  <2>10. Adds(w, said) /\ GoesOn(w)
    BY <2>5, <2>7, <2>9 DEF Adds, GoesOn, Same
  <2>11. Hears(w)
    BY <2>2, <2>7, <2>9, <2>10 DEF Hears, Same, said, batch
  <2> QED BY <2>9, <2>11 DEF Moves, Writing
<1> QED BY <1>3, <1>4

\* What follows a turn.
LEMMA EndingMoves ==
    ASSUME TypeInv, NEW w \in Worker, Place(w),
           \/ TakePrompt(w)
           \/ Prompt(w)
           \/ NoPrompt(w)
           \/ Finish(w)
           \/ Vanish(w)
    PROVE  Moves(w)
<1>1. run[w] \in Run /\ run[w].view \in Nat /\ WorkerOK(run[w])
  BY WorkerFacts
<1>2. run[w].pc \in {"ended", "prompt"} => run[w].todo = {} /\ run[w].seq = run[w].tail
  BY DEF Place, Active
<1>3. ASSUME TakePrompt(w)
      PROVE  Moves(w)
  <2> DEFINE r == [run[w] EXCEPT !.pc = "prompt"]
  <2>1. log' = log /\ run'[w] = r /\ run' = [run EXCEPT ![w] = run'[w]]
          /\ run[w].pc = "ended" /\ run[w].mode \in {"followUp", "chat"} /\ Continuable(run[w].reason)
    BY <1>3, BecomesIs DEF TakePrompt
  <2>2. /\ r.pc = "prompt" /\ r.todo = run[w].todo /\ r.tail = run[w].tail /\ r.seq = run[w].seq
        /\ r.view = run[w].view /\ r.mode = run[w].mode /\ r.given = run[w].given
        /\ r.pending = run[w].pending
    BY <1>1 DEF Run
  <2> HIDE DEF r
  <2>3. TakesPrompt(w)
    BY <1>2, <2>1, <2>2 DEF TakesPrompt, Keeps, GoesOn
  <2> QED BY <2>1, <2>3 DEF Moves, Silently
<1>4. ASSUME Prompt(w)
      PROVE  Moves(w)
  <2> DEFINE mode == IF run[w].mode = "followUp" THEN "plain" ELSE run[w].mode
             r == [run[w] EXCEPT !.pc = "turn", !.reason = NoReason, !.mode = mode]
  <2>1. run[w].pc = "prompt" /\ Emit(w, UserTurn(w), r)
    BY <1>4 DEF Prompt
  <2>2. mode \in Mode \union {"plain", "none"} /\ mode \in {run[w].mode, "plain"}
    BY <1>1 DEF Run
  <2> HIDE DEF mode
  <2>3. r \in Run
    BY <1>1, <2>2 DEF Run
  <2>4. /\ r.pc = "turn" /\ r.mode = mode /\ r.todo = run[w].todo /\ r.view = run[w].view
        /\ r.given = run[w].given /\ r.pending = run[w].pending
    BY <1>1 DEF Run
  <2> HIDE DEF r
  <2>5. /\ Held(w) /\ log' = Append(log, UserTurn(w)) /\ run' = [run EXCEPT ![w] = run'[w]]
        /\ Same(w, r) /\ Knows(w)
    BY <1>2, <2>1, <2>3, EmitsIs
  <2>6. UserTurn(w) \in Record(Worker) /\ UserTurn(w).by = w
    BY NewRecords
  <2>7. Adds(w, UserTurn(w))
    BY <2>4, <2>5, <2>6 DEF Adds, Same
  <2>8. Prompts(w)
    BY <1>2, <2>1, <2>2, <2>4, <2>5, <2>7 DEF Prompts, Same
  <2> QED BY <2>5, <2>8 DEF Moves, Writing
<1>5. ASSUME NoPrompt(w)
      PROVE  Moves(w)
  <2>1. PICK why \in {"failed", "stopped"} :
          Becomes(w, [run[w] EXCEPT !.pc = "ended", !.reason = why, !.mode = "plain"])
    BY <1>5 DEF NoPrompt
  <2> DEFINE r == [run[w] EXCEPT !.pc = "ended", !.reason = why, !.mode = "plain"]
  <2>2. run[w].pc = "prompt" /\ log' = log /\ run'[w] = r /\ run' = [run EXCEPT ![w] = run'[w]]
    BY <1>5, <2>1, BecomesIs DEF NoPrompt
  <2>3. /\ r.pc = "ended" /\ r.reason = why /\ r.todo = run[w].todo /\ r.view = run[w].view
        /\ r.tail = run[w].tail /\ r.seq = run[w].seq
        /\ r.given = run[w].given /\ r.pending = run[w].pending
    BY <1>1 DEF Run
  <2> HIDE DEF r
  <2>4. Declines(w)
    BY <1>2, <2>1, <2>2, <2>3 DEF Declines, Keeps
  <2> QED BY <2>2, <2>4 DEF Moves, Silently
<1>6. ASSUME Finish(w)
      PROVE  Moves(w)
  <2>1. PICK why \in Outcomes(w) : Emit(w, Terminal(w, why), Gone("closed", run[w].view))
    BY <1>6 DEF Finish
  <2>2. run[w].pc = "ended" /\ run[w].reason \in Reason
    BY <1>1, <1>6 DEF Finish, WorkerOK
  <2>3. why \in Reason /\ (why = "completed" => run[w].reason = "completed")
    BY <2>2 DEF Outcomes, Reason
  <2> DEFINE r == Gone("closed", run[w].view)
  <2>4. r \in Run /\ r.pc = "closed" /\ r.view = run[w].view /\ r.given = NoCall /\ r.todo = {}
    BY <1>1, GoneIs
  <2> HIDE DEF r
  <2>5. /\ Held(w) /\ log' = Append(log, Terminal(w, why)) /\ run' = [run EXCEPT ![w] = run'[w]]
        /\ Same(w, r)
    BY <1>2, <2>1, <2>2, <2>4, EmitsIs DEF r
  <2>6. Terminal(w, why) \in Record(Worker) /\ Terminal(w, why).by = w
    BY <2>3, NewRecords
  <2>7. Adds(w, Terminal(w, why)) /\ IsGone(w)
    BY <2>4, <2>5, <2>6 DEF Adds, Same, IsGone
  <2>8. Finishes(w)
    BY <2>2, <2>3, <2>7 DEF Finishes
  <2> QED BY <2>5, <2>8 DEF Moves, Writing
<1>7. ASSUME Vanish(w)
      PROVE  Moves(w)
  <2> DEFINE r == Gone("closed", run[w].view)
  <2>1. log' = log /\ run'[w] = r /\ run' = [run EXCEPT ![w] = run'[w]]
    BY <1>7, BecomesIs DEF Vanish
  <2>2. r.pc = "closed" /\ r.view = run[w].view /\ r.given = NoCall /\ r.todo = {}
    BY <1>1, GoneIs
  <2> HIDE DEF r
  <2>3. Goes(w)
    BY <2>1, <2>2 DEF Goes, IsGone
  <2> QED BY <2>1, <2>3 DEF Moves, Silently
<1> QED BY <1>3, <1>4, <1>5, <1>6, <1>7

\* So every step moves some worker.
LEMMA EveryMove ==
    ASSUME TypeInv, \A w \in Worker : Place(w), Next
    PROVE  \E w \in Worker : Moves(w)
BY OpeningMoves, TurningMoves, CallingMoves, ModellingMoves, EndingMoves DEF Next


-----------------------------------------------------------------------------
(* What a move leaves as it was. *)

\* One record more leaves the others and every fold of them alone.
LEMMA Appended ==
    ASSUME TypeInv, NEW rec \in Record(Worker), log' = Append(log, rec)
    PROVE  /\ Len(log) \in Nat /\ Len(log') = Len(log) + 1 /\ log'[Len(log) + 1] = rec
           /\ \A p \in 1..Len(log) : log'[p] = log[p]
           /\ \A n \in 0..Len(log) :
                 OpenTurn(log', n) = OpenTurn(log, n) /\ Fold(log', n) = Fold(log, n)
<1>1. /\ Len(log) \in Nat /\ Len(log') = Len(log) + 1 /\ log'[Len(log) + 1] = rec
      /\ \A p \in 1..Len(log) : log'[p] = log[p]
  BY DEF TypeInv
<1>2. ASSUME NEW n \in 0..Len(log)
      PROVE  OpenTurn(log', n) = OpenTurn(log, n) /\ Fold(log', n) = Fold(log, n)
  <2>1. n \in Nat /\ \A p \in 1..n : log'[p] = log[p]
    BY <1>1
  <2> QED BY <2>1, FoldOfPrefix
<1> QED BY <1>1, <1>2

\* A move leaves the log alone or adds one record of the mover's.
LEMMA LogOfMove ==
    ASSUME TypeInv, NEW w \in Worker, Moves(w)
    PROVE  log' = log \/ \E rec \in Record(Worker) : rec.by = w /\ log' = Append(log, rec)
<1>1. CASE Silently(w)
  BY <1>1 DEF Silently, Loads, Opens, Goes, Completes, AsksModel, Ends, Dispatches,
              TakesPrompt, Declines, Keeps
<1>2. CASE Creates(w)
  <2>1. PICK m : log = << >> /\ log' = <<Meta(w, m)>>
    BY <1>2 DEF Creates
  <2>2. log' = Append(log, Meta(w, m))
    BY <2>1
  <2> QED BY <2>2, NewRecords
<1>3. CASE Writing(w) /\ ~Creates(w)
  BY <1>3 DEF Writing, Claims, GetsAnswer, Supplies, Settles, Hears, Prompts, Finishes, Adds
<1> QED BY <1>1, <1>2, <1>3 DEF Moves

\* The records, the folds of them and the other workers are as they were.
LEMMA Steady ==
    ASSUME TypeInv, NEW w \in Worker, Moves(w)
    PROVE  /\ Len(log) \in Nat /\ Len(log') \in Nat /\ Len(log) <= Len(log')
           /\ \A p \in 1..Len(log) : log'[p] = log[p]
           /\ \A p \in 1..Len(log') : p > Len(log) => log'[p].by = w
           /\ \A n \in 0..Len(log) :
                 OpenTurn(log', n) = OpenTurn(log, n) /\ Fold(log', n) = Fold(log, n)
           /\ \A v \in Worker \ {w} : run'[v] = run[v]
<1>1. \A v \in Worker \ {w} : run'[v] = run[v]
  BY DEF Moves, TypeInv
<1>2. Len(log) \in Nat
  BY DEF TypeInv
<1>3. CASE log' = log
  BY <1>1, <1>2, <1>3
<1>4. CASE \E rec \in Record(Worker) : rec.by = w /\ log' = Append(log, rec)
  <2>1. PICK rec \in Record(Worker) : rec.by = w /\ log' = Append(log, rec)
    BY <1>4
  <2>2. /\ Len(log') = Len(log) + 1 /\ log'[Len(log) + 1] = rec
        /\ \A p \in 1..Len(log) : log'[p] = log[p]
        /\ \A n \in 0..Len(log) :
              OpenTurn(log', n) = OpenTurn(log, n) /\ Fold(log', n) = Fold(log, n)
    BY <2>1, Appended
  <2>3. \A p \in 1..Len(log') : p > Len(log) => log'[p].by = w
    BY <1>2, <2>1, <2>2
  <2> QED BY <1>1, <1>2, <2>2, <2>3
<1> QED BY <1>3, <1>4, LogOfMove

\* What a process loaded stays what it loaded.
LEMMA ViewStays ==
    ASSUME TypeInv, NEW w \in Worker, Moves(w)
    PROVE  run[w].pc = "new" \/ run'[w].view = run[w].view
BY DEF Moves, Silently, Writing, Loads, Opens, Goes, Completes, AsksModel, Ends, Dispatches,
       TakesPrompt, Declines, Keeps, Creates, Claims, GetsAnswer, Supplies, Settles, Hears, Prompts,
       Finishes, Adds, IsGone

\* A place leads to a place.
LEMMA PlaceStep ==
    ASSUME TypeInv, \A v \in Worker : Place(v), NEW w \in Worker, Moves(w)
    PROVE  \A v \in Worker : Place(v)'
<1>1. \A v \in Worker \ {w} : Place(v)'
  BY Steady DEF Place
<1>2. Place(w)
  OBVIOUS
<1>3. Loads(w) => Place(w)'
  BY <1>2 DEF Loads, Place, Active
<1>4. Opens(w) => Place(w)'
  BY <1>2 DEF Opens, Place, Active
<1>5. Goes(w) \/ Supplies(w) \/ Finishes(w) => Place(w)'
  BY <1>2 DEF Goes, Supplies, Finishes, IsGone, Place, Active
<1>6. Creates(w) => Place(w)'
  BY <1>2 DEF Creates, Place, Active
<1>7. Claims(w) => Place(w)'
  BY <1>2 DEF Claims, GoesOn, Knows, Place, Active
<1>8. GetsAnswer(w) => Place(w)'
  BY <1>2 DEF GetsAnswer, Knows, Place, Active
<1>9. Completes(w) => Place(w)'
  BY <1>2 DEF Completes, Keeps, GoesOn, Place, Active
<1>10. AsksModel(w) => Place(w)'
  BY <1>2 DEF AsksModel, Keeps, GoesOn, Place, Active
<1>11. Ends(w) => Place(w)'
  BY <1>2 DEF Ends, Keeps, GoesOn, Place, Active
<1>12. Dispatches(w) => Place(w)'
  BY <1>2 DEF Dispatches, Keeps, GoesOn, Place, Active
<1>13. Settles(w) => Place(w)'
  BY <1>2 DEF Settles, Knows, GoesOn, Place, Active
<1>14. Hears(w) => Place(w)'
  BY <1>2 DEF Hears, Knows, GoesOn, Place, Active
<1>15. TakesPrompt(w) => Place(w)'
  BY <1>2 DEF TakesPrompt, Keeps, GoesOn, Place, Active
<1>16. Prompts(w) => Place(w)'
  BY <1>2 DEF Prompts, Knows, Place, Active
<1>17. Declines(w) => Place(w)'
  BY <1>2 DEF Declines, Keeps, Place, Active
<1>18. Place(w)'
  BY <1>3, <1>4, <1>5, <1>6, <1>7, <1>8, <1>9, <1>10, <1>11, <1>12, <1>13, <1>14, <1>15, <1>16, <1>17
     DEF Moves, Silently, Writing
<1> QED BY <1>1, <1>18

\* Every worker is somewhere, at the start.
LEMMA StartsPlaced == Init => \A w \in Worker : Place(w)
BY DEF Init, Gone, Place, Active

\* Types, handles and places: what every later proof starts from.
Base == TypeInv /\ Handles /\ \A w \in Worker : Place(w)

\* No step disturbs the types, the handles or the places.
LEMMA BaseStep == Base /\ [Next]_vars => Base'
<1> SUFFICES ASSUME Base, [Next]_vars
             PROVE  Base'
  OBVIOUS
<1>1. TypeInv' /\ Handles'
  BY InductiveStep DEF Base
<1>2. (\A w \in Worker : Place(w))'
  <2>1. CASE Next
    <3>1. PICK w \in Worker : Moves(w)
      BY <2>1, EveryMove DEF Base
    <3> QED BY <3>1, PlaceStep DEF Base
  <2>2. CASE UNCHANGED vars
    BY <2>2 DEF vars, Base, Place, Active
  <2> QED BY <2>1, <2>2
<1> QED BY <1>1, <1>2 DEF Base

\* They are right at the start.
LEMMA StartsBased == Init => Base
BY StartsRight, StartsPlaced DEF Base

\* And wherever workers have got to.
LEMMA Based == Spec => []Base
BY StartsBased, BaseStep, PTL DEF Spec


-----------------------------------------------------------------------------
(* The course of a worker that nobody interfered with. *)

\* What is left to answer of the turn w is in, and where that turn is.
Unfinished(w) == Fold(log, run[w].tail).unanswered
Open(w) == OpenTurn(log, run[w].tail)

\* Nobody else has written between w's load and the last record it knows of.
Alone(w) == \A p \in (run[w].view + 1)..run[w].tail : log[p].by = w

\* A prompt was taken behind an unfinished turn.
Dirty(n) == \E p \in 1..n : log[p].kind = "user" /\ Fold(log, p - 1).unanswered # {}

OnCourse(w) ==
    /\ run[w].pc = "model" => Unfinished(w) = {}
    /\ run[w].pc \in {"batch", "tool"} =>
          \/ /\ run[w].todo \subseteq Unfinished(w)
             /\ run[w].waiting = TRUE \/ run[w].todo = Unfinished(w)
          \/ run[w].pending = TRUE /\ Open(w) = 0
    /\ run[w].pc = "turn" /\ run[w].pending = TRUE => Unfinished(w) = Left(w) \/ Open(w) = 0
    /\ run[w].pc = "turn" /\ run[w].pending # TRUE => Unfinished(w) = {}
    /\ run[w].pc = "answering" =>
          /\ Unfinished(w) = Left(w) /\ run[w].given = NoCall
          /\ run[w].pending = TRUE <=> Unfinished(w) # {}
    /\ run[w].pc = "ended" /\ run[w].reason = "completed" => Fold(log, run[w].tail).boundary
    /\ run[w].pending = TRUE =>
          /\ run[w].pc = "prompt" \/ (run[w].pc = "ended" /\ Continuable(run[w].reason)) =>
                Unfinished(w) # {} \/ Open(w) = 0
          /\ Open(w) = 0 => Dirty(run[w].tail)

Course(w) == Active(run[w].pc) /\ Alone(w) => OnCourse(w)

\* A turn behind which a user message is taken, or a run closed, waits on nothing.
LEMMA FoldMore ==
    ASSUME NEW l, NEW n
    PROVE  /\ Fold(l, n).waiting \subseteq Fold(l, n).unanswered
           /\ Fold(l, n).boundary => Fold(l, n).unanswered = {}
           /\ Fold(l, n).unanswered # {} => OpenTurn(l, n) # 0
BY DEF Fold

\* What the record that is added makes of the turn in flight.
LEMMA FoldAdded ==
    ASSUME TypeInv, NEW rec \in Record(Worker), log' = Append(log, rec),
           NEW old, old = Fold(log, Len(log)), NEW new, new = Fold(log', Len(log) + 1)
    PROVE  /\ rec.kind \in {"meta", "claim", "terminal"} =>
                new.unanswered = old.unanswered /\ new.boundary = old.boundary
           /\ rec.kind = "deferred" => new.unanswered = old.unanswered
           /\ rec.kind = "result" => new.unanswered = old.unanswered \ {rec.id}
           /\ rec.kind = "assistant" =>
                /\ new.unanswered = {[turn |-> Len(log) + 1, call |-> c] : c \in rec.calls}
                /\ rec.calls = {} /\ rec.stop # "pause" => new.boundary
           /\ rec.kind = "user" => new.unanswered = {} /\ OpenTurn(log', Len(log) + 1) = 0
           /\ rec.kind \notin {"assistant", "user"} =>
                OpenTurn(log', Len(log) + 1) = OpenTurn(log, Len(log))
<1> DEFINE n == Len(log)
<1>1. n \in Nat /\ log'[n + 1] = rec /\ Fold(log', n) = old /\ OpenTurn(log', n) = OpenTurn(log, n)
  BY Appended
<1> HIDE DEF n
<1>2. /\ rec.kind \in {"meta", "claim", "terminal"} =>
            Fold(log', n + 1).unanswered = old.unanswered /\ Fold(log', n + 1).boundary = old.boundary
      /\ rec.kind = "deferred" => Fold(log', n + 1).unanswered = old.unanswered
      /\ rec.kind = "result" => Fold(log', n + 1).unanswered = old.unanswered \ {rec.id}
      /\ rec.kind = "assistant" =>
            /\ Fold(log', n + 1).unanswered = CallsOf(log', n + 1)
            /\ Fold(log', n + 1).boundary = (CallsOf(log', n + 1) = {} /\ log'[n + 1].stop # "pause")
      /\ rec.kind = "user" => Fold(log', n + 1).unanswered = {}
  <2> DEFINE m == log'
  <2>1. n \in Nat /\ m[n + 1] = rec /\ Fold(m, n) = old
    BY <1>1
  <2> HIDE DEF m
  <2>2. /\ rec.kind \in {"meta", "claim", "terminal"} =>
              /\ Fold(m, n + 1).unanswered = Fold(m, n).unanswered
              /\ Fold(m, n + 1).boundary = Fold(m, n).boundary
        /\ rec.kind = "deferred" => Fold(m, n + 1).unanswered = Fold(m, n).unanswered
        /\ rec.kind = "result" => Fold(m, n + 1).unanswered = Fold(m, n).unanswered \ {rec.id}
        /\ rec.kind = "assistant" =>
              /\ Fold(m, n + 1).unanswered = CallsOf(m, n + 1)
              /\ Fold(m, n + 1).boundary = (CallsOf(m, n + 1) = {} /\ m[n + 1].stop # "pause")
        /\ rec.kind = "user" => Fold(m, n + 1).unanswered = {}
    <3>1. n \in Nat
      BY <2>1
    <3>2. /\ m[n + 1].kind \in {"meta", "claim", "terminal"} =>
                /\ Fold(m, n + 1).unanswered = Fold(m, n).unanswered
                /\ Fold(m, n + 1).boundary = Fold(m, n).boundary
          /\ m[n + 1].kind = "deferred" => Fold(m, n + 1).unanswered = Fold(m, n).unanswered
          /\ m[n + 1].kind = "result" => Fold(m, n + 1).unanswered = Fold(m, n).unanswered \ {m[n + 1].id}
          /\ m[n + 1].kind = "assistant" =>
                /\ Fold(m, n + 1).unanswered = CallsOf(m, n + 1)
                /\ Fold(m, n + 1).boundary = (CallsOf(m, n + 1) = {} /\ m[n + 1].stop # "pause")
          /\ m[n + 1].kind = "user" => Fold(m, n + 1).unanswered = {}
      BY <3>1, FoldBehind
    <3>3. m[n + 1] = rec
      BY <2>1
    <3> QED BY <3>2, <3>3
  <2>3. /\ rec.kind \in {"meta", "claim", "terminal"} =>
              Fold(m, n + 1).unanswered = old.unanswered /\ Fold(m, n + 1).boundary = old.boundary
        /\ rec.kind = "deferred" => Fold(m, n + 1).unanswered = old.unanswered
        /\ rec.kind = "result" => Fold(m, n + 1).unanswered = old.unanswered \ {rec.id}
    <3>1. Fold(m, n) = old
      BY <2>1
    <3> QED BY <2>2, <3>1
  <2> QED BY <2>2, <2>3 DEF m
<1>3. CallsOf(log', n + 1) = {[turn |-> n + 1, call |-> c] : c \in rec.calls}
  BY <1>1 DEF CallsOf
<1>4. /\ rec.kind = "user" => OpenTurn(log', n + 1) = 0
      /\ rec.kind \notin {"assistant", "user"} => OpenTurn(log', n + 1) = OpenTurn(log, n)
  BY <1>1, OpenTurnBehind
<1>5. rec.calls = {} => CallsOf(log', n + 1) = {}
  BY <1>3
<1> QED BY <1>1, <1>2, <1>3, <1>4, <1>5 DEF n

\* A worker that writes nothing is as far as it was.
LEMMA KeepsCourse ==
    ASSUME NEW w, Keeps(w)
    PROVE  /\ Unfinished(w)' = Unfinished(w) /\ Open(w)' = Open(w) /\ (Alone(w)' <=> Alone(w))
           /\ Dirty(run[w].tail)' <=> Dirty(run[w].tail)
           /\ Fold(log, run[w].tail)' = Fold(log, run[w].tail)
           /\ run'[w].given = run[w].given => Left(w)' = Left(w)
<1>1. log' = log /\ run'[w].view = run[w].view /\ run'[w].tail = run[w].tail
  BY DEF Keeps
<1> QED BY <1>1 DEF Unfinished, Open, Alone, Dirty, Left

\* A worker that writes is one record further.
LEMMA AddsCourse ==
    ASSUME Base, NEW w \in Worker, NEW rec, Adds(w, rec), Knows(w)
    PROVE  /\ run[w].tail = Len(log) /\ run'[w].tail = Len(log) + 1 /\ Len(log) \in Nat
           /\ Unfinished(w) = Fold(log, Len(log)).unanswered
           /\ Open(w) = OpenTurn(log, Len(log))
           /\ Unfinished(w)' = Fold(log', Len(log) + 1).unanswered
           /\ Open(w)' = OpenTurn(log', Len(log) + 1)
           /\ Fold(log, run[w].tail)' = Fold(log', Len(log) + 1)
           /\ Alone(w)' => Alone(w)
           /\ Dirty(Len(log)) => Dirty(run[w].tail)'
           /\ rec.kind = "user" /\ Unfinished(w) # {} => Dirty(run[w].tail)'
           /\ Left(w)' = Fold(log, run[w].view).unanswered \ {run'[w].given}
<1>1. /\ rec \in Record(Worker) /\ log' = Append(log, rec) /\ rec.by = w
      /\ run'[w].view = run[w].view /\ run[w].tail = Len(log)
      /\ run'[w].tail = Len(log) + 1
      /\ run[w].view \in Nat /\ run[w].view <= Len(log)
  BY WorkerFacts DEF Adds, Knows, Held, Base
<1>2. /\ Len(log) \in Nat /\ Len(log') = Len(log) + 1 /\ log'[Len(log) + 1] = rec
      /\ \A p \in 1..Len(log) : log'[p] = log[p]
      /\ \A n \in 0..Len(log) :
            OpenTurn(log', n) = OpenTurn(log, n) /\ Fold(log', n) = Fold(log, n)
  BY <1>1, Appended DEF Base
<1>3. Unfinished(w) = Fold(log, Len(log)).unanswered /\ Open(w) = OpenTurn(log, Len(log))
  BY <1>1 DEF Unfinished, Open
<1>4. Unfinished(w)' = Fold(log', Len(log) + 1).unanswered /\ Open(w)' = OpenTurn(log', Len(log) + 1)
        /\ Fold(log, run[w].tail)' = Fold(log', Len(log) + 1)
  BY <1>1 DEF Unfinished, Open
<1>5. Alone(w)' => Alone(w)
  <2> SUFFICES ASSUME Alone(w)', NEW p \in (run[w].view + 1)..Len(log)
               PROVE  log[p].by = w
    BY <1>1 DEF Alone
  <2>1. p \in (run'[w].view + 1)..run'[w].tail /\ p \in 1..Len(log)
    BY <1>1, <1>2
  <2>2. log'[p].by = w
    BY <2>1 DEF Alone
  <2> QED BY <1>2, <2>1, <2>2
<1>6. Dirty(Len(log)) => Dirty(run[w].tail)'
  <2> SUFFICES ASSUME NEW p \in 1..Len(log), log[p].kind = "user", Fold(log, p - 1).unanswered # {}
               PROVE  Dirty(run[w].tail)'
    BY DEF Dirty
  <2>1. p - 1 \in 0..Len(log) /\ p \in 1..run'[w].tail
    BY <1>1, <1>2
  <2>2. log'[p].kind = "user" /\ Fold(log', p - 1).unanswered # {}
    BY <1>2, <2>1
  <2> QED BY <2>1, <2>2 DEF Dirty
<1>7. ASSUME rec.kind = "user", Unfinished(w) # {}
      PROVE  Dirty(run[w].tail)'
  <2> DEFINE p == Len(log) + 1
  <2>1. p - 1 = Len(log) /\ p \in 1..run'[w].tail /\ Len(log) \in 0..Len(log)
    BY <1>1, <1>2
  <2>2. log'[p].kind = "user" /\ Fold(log', p - 1).unanswered # {}
    BY <1>2, <1>3, <1>7, <2>1
  <2> HIDE DEF p
  <2> QED BY <2>1, <2>2 DEF Dirty
<1>8. Left(w)' = Fold(log, run[w].view).unanswered \ {run'[w].given}
  <2>1. Fold(log', run[w].view) = Fold(log, run[w].view)
    BY <1>1, <1>2
  <2> QED BY <1>1, <2>1 DEF Left
<1> QED BY <1>1, <1>2, <1>3, <1>4, <1>5, <1>6, <1>7, <1>8

\* No call is no call of anybody's.
LEMMA NoCallIsNone ==
    ASSUME TypeInv, NEW n \in 0..Len(log)
    PROVE  NoCall \notin Fold(log, n).unanswered /\ Fold(log, n).unanswered \subseteq CallId
<1>1. Fold(log, n).unanswered \subseteq CallId
  BY FoldFacts DEF TypeInv
<1>2. NoCall \notin CallId
  BY DEF NoCall, CallId
<1> QED BY <1>1, <1>2

\* A worker that creates or claims the run knows where it is in it.
LEMMA CourseBegins ==
    ASSUME Base, NEW w \in Worker, Creates(w) \/ Claims(w)
    PROVE  Course(w)'
<1>1. run[w].view \in Nat /\ run[w].view <= Len(log) /\ Len(log) \in Nat /\ TypeInv
  BY WorkerFacts DEF Base
<1>2. CASE Creates(w)
  <2>1. PICK m : log = << >> /\ log' = <<Meta(w, m)>>
    BY <1>2 DEF Creates
  <2>2. log' = Append(log, Meta(w, m)) /\ Meta(w, m) \in Record(Worker) /\ Meta(w, m).kind = "meta"
          /\ Len(log) = 0
    <3>1. Meta(w, m).kind = "meta"
      BY DEF Meta
    <3>2. Len(log) = 0 /\ log' = Append(log, Meta(w, m))
      BY <2>1
    <3> QED BY <3>1, <3>2, NewRecords
  <2>3. Fold(log', 1).unanswered = Fold(log, 0).unanswered
    BY <1>1, <2>2, FoldAdded
  <2>4. Fold(log, 0).unanswered = {}
    BY FoldOfNothing
  <2>5. Unfinished(w)' = {}
    BY <1>2, <2>3, <2>4 DEF Unfinished, Creates
  <2>6. run'[w].pc = "turn" /\ run'[w].pending = FALSE
    BY <1>2 DEF Creates
  <2> QED BY <2>5, <2>6 DEF Course, OnCourse
<1>3. CASE Claims(w)
  <2> DEFINE rec == Claimed(w)
  <2>1. run[w].pc = "opened" /\ Adds(w, rec) /\ Knows(w) /\ rec.kind = "claim"
    BY <1>3 DEF Claims, Claimed
  <2>2. run[w].given = NoCall /\ run'[w].given = NoCall
    BY <1>3, <2>1 DEF Base, Place, Claims, GoesOn
  <2> HIDE DEF rec
  <2>3. log' = Append(log, rec) /\ rec \in Record(Worker)
    BY <2>1 DEF Adds
  <2>4. /\ Unfinished(w)' = Fold(log', Len(log) + 1).unanswered
        /\ Open(w)' = OpenTurn(log', Len(log) + 1)
        /\ Fold(log, run[w].tail)' = Fold(log', Len(log) + 1)
        /\ Alone(w)' => Alone(w)
        /\ Left(w)' = Fold(log, run[w].view).unanswered \ {run'[w].given}
        /\ run[w].tail = Len(log)
    BY <2>1, AddsCourse
  <2>5. /\ Fold(log', Len(log) + 1).unanswered = Fold(log, Len(log)).unanswered
        /\ Fold(log', Len(log) + 1).boundary = Fold(log, Len(log)).boundary
        /\ OpenTurn(log', Len(log) + 1) = OpenTurn(log, Len(log))
    BY <1>1, <2>1, <2>3, FoldAdded
  <2>6. SUFFICES ASSUME Alone(w)'
                 PROVE  OnCourse(w)'
    BY DEF Course
  <2>7. run[w].view = Len(log)
    <3>1. SUFFICES ASSUME run[w].view < Len(log)
                   PROVE  FALSE
      BY <1>1
    <3>2. Len(log) \in (run[w].view + 1)..run[w].tail /\ Len(log) \in 1..Len(log)
      BY <1>1, <2>4, <3>1
    <3>3. log[Len(log)].by = w
      BY <2>4, <2>6, <3>2 DEF Alone
    <3> QED BY <2>1, <3>2, <3>3 DEF Base, Handles
  <2> DEFINE found == Fold(log, Len(log))
  <2>8. NoCall \notin found.unanswered
    BY <1>1, NoCallIsNone
  <2>9. Unfinished(w)' = found.unanswered /\ Left(w)' = found.unanswered /\ Left(w) = found.unanswered
    BY <2>2, <2>4, <2>5, <2>7, <2>8 DEF Left
  <2>10. run'[w].pending = TRUE <=> found.unanswered # {}
    <3>1. run'[w].pending = (Left(w) # {})
      BY <1>3 DEF Claims
    <3> QED BY <2>9, <3>1
  <2>11. found.unanswered # {} => Open(w)' # 0
    BY <2>4, <2>5, FoldMore
  <2>12. run'[w].pc \in {"prompt", "ended"} => found.boundary
    BY <1>3, <2>7 DEF Claims
  <2>13. found.boundary => found.unanswered = {}
    BY FoldMore
  <2>14. Fold(log, run[w].tail)'.boundary = found.boundary
    BY <2>4, <2>5
  <2>15. run'[w].pc \in {"answering", "turn", "prompt", "ended"}
    BY <1>3 DEF Claims
  <2> HIDE DEF found
  <2>16. CASE run'[w].pc = "answering"
    BY <2>2, <2>9, <2>10, <2>11, <2>16 DEF OnCourse
  <2>17. CASE run'[w].pc = "turn"
    BY <2>9, <2>10, <2>11, <2>17 DEF OnCourse
  <2>18. CASE run'[w].pc \in {"prompt", "ended"}
    BY <2>10, <2>12, <2>13, <2>14, <2>18 DEF OnCourse
  <2> QED BY <2>15, <2>16, <2>17, <2>18
<1> QED BY <1>2, <1>3


\* A worker that writes nothing stays on course.
LEMMA CourseSilently ==
    ASSUME Base, NEW w \in Worker, Course(w), Silently(w)
    PROVE  Course(w)'
<1>1. CASE Loads(w) \/ Opens(w) \/ Goes(w)
  BY <1>1 DEF Loads, Opens, Goes, IsGone, Course, Active
<1>2. SUFFICES ASSUME Completes(w) \/ AsksModel(w) \/ Ends(w) \/ Dispatches(w)
                        \/ TakesPrompt(w) \/ Declines(w),
                      Alone(w)'
               PROVE  OnCourse(w)'
  BY <1>1 DEF Silently, Course
<1>3. Keeps(w) /\ run'[w].given = run[w].given /\ Active(run[w].pc)
  BY <1>2 DEF Completes, AsksModel, Ends, Dispatches, TakesPrompt, Declines, GoesOn, Active
<1>4. /\ Unfinished(w)' = Unfinished(w) /\ Open(w)' = Open(w)
      /\ Alone(w)
      /\ Dirty(run[w].tail)' <=> Dirty(run[w].tail)
      /\ Fold(log, run[w].tail)' = Fold(log, run[w].tail)
      /\ Left(w)' = Left(w)
  BY <1>2, <1>3, KeepsCourse
<1>5. OnCourse(w)
  BY <1>3, <1>4 DEF Course
<1>6. Unfinished(w) # {} => Open(w) # 0
  BY FoldMore DEF Unfinished, Open
<1>7. CASE Completes(w)
  BY <1>4, <1>5, <1>7 DEF OnCourse, Completes
<1>8. CASE AsksModel(w)
  BY <1>4, <1>5, <1>6, <1>8 DEF OnCourse, AsksModel
<1>9. CASE Ends(w)
  <2>1. Place(w)
    BY DEF Base
  <2>2. run[w].pc = "model" => run[w].pending # TRUE
    BY <2>1 DEF Place
  <2>3. run'[w].pc = "ended" /\ run'[w].reason # "completed" /\ run'[w].pending = run[w].pending
    BY <1>9 DEF Ends
  <2>4. run[w].pending = TRUE /\ Continuable(run'[w].reason) => Unfinished(w) # {} \/ Open(w) = 0
    BY <1>5, <1>9, <2>2 DEF OnCourse, Ends, Continuable
  <2> QED BY <1>4, <1>5, <2>3, <2>4 DEF OnCourse
<1>10. CASE Dispatches(w)
  BY <1>4, <1>5, <1>10 DEF OnCourse, Dispatches
<1>11. CASE TakesPrompt(w)
  BY <1>4, <1>5, <1>11 DEF OnCourse, TakesPrompt
<1>12. CASE Declines(w)
  BY <1>4, <1>5, <1>12 DEF OnCourse, Declines
<1> QED BY <1>2, <1>7, <1>8, <1>9, <1>10, <1>11, <1>12

\* A worker that writes stays on course.
LEMMA CourseWriting ==
    ASSUME Base, NEW w \in Worker, Course(w), Writing(w)
    PROVE  Course(w)'
<1>1. CASE Creates(w) \/ Claims(w)
  BY <1>1, CourseBegins
<1>2. CASE Supplies(w) \/ Finishes(w)
  BY <1>2 DEF Supplies, Finishes, IsGone, Course, Active
<1>3. SUFFICES ASSUME GetsAnswer(w) \/ Settles(w) \/ Hears(w) \/ Prompts(w),
                      Alone(w)'
               PROVE  OnCourse(w)'
  BY <1>1, <1>2 DEF Writing, Course
<1>4. TypeInv /\ Active(run[w].pc)
  BY <1>3 DEF GetsAnswer, Settles, Hears, Prompts, Active, Base
<1>5. ASSUME NEW rec, Adds(w, rec), Knows(w)
      PROVE  /\ OnCourse(w)
             /\ Dirty(run[w].tail) => Dirty(run[w].tail)'
             /\ rec.kind = "user" /\ Unfinished(w) # {} => Dirty(run[w].tail)'
             /\ Left(w)' = Fold(log, run[w].view).unanswered \ {run'[w].given}
             /\ rec.kind = "deferred" => Unfinished(w)' = Unfinished(w)
             /\ rec.kind = "result" => Unfinished(w)' = Unfinished(w) \ {rec.id}
             /\ rec.kind = "assistant" =>
                  /\ Unfinished(w)' = {[turn |-> Len(log) + 1, call |-> c] : c \in rec.calls}
                  /\ rec.calls = {} /\ rec.stop # "pause" => (Fold(log, run[w].tail)').boundary
             /\ rec.kind = "user" => Unfinished(w)' = {} /\ Open(w)' = 0
             /\ rec.kind \notin {"assistant", "user"} => Open(w)' = Open(w)
  <2>1. rec \in Record(Worker) /\ log' = Append(log, rec)
    BY <1>5 DEF Adds
  <2>2. /\ run[w].tail = Len(log) /\ run'[w].tail = Len(log) + 1
        /\ Unfinished(w) = Fold(log, Len(log)).unanswered
        /\ Open(w) = OpenTurn(log, Len(log))
        /\ Unfinished(w)' = Fold(log', Len(log) + 1).unanswered
        /\ Open(w)' = OpenTurn(log', Len(log) + 1)
        /\ Fold(log, run[w].tail)' = Fold(log', Len(log) + 1)
        /\ Alone(w)' => Alone(w)
        /\ Dirty(Len(log)) => Dirty(run[w].tail)'
        /\ rec.kind = "user" /\ Unfinished(w) # {} => Dirty(run[w].tail)'
        /\ Left(w)' = Fold(log, run[w].view).unanswered \ {run'[w].given}
    BY <1>5, AddsCourse
  <2>3. /\ rec.kind = "deferred" =>
             Fold(log', Len(log) + 1).unanswered = Fold(log, Len(log)).unanswered
        /\ rec.kind = "result" =>
             Fold(log', Len(log) + 1).unanswered = Fold(log, Len(log)).unanswered \ {rec.id}
        /\ rec.kind = "assistant" =>
             /\ Fold(log', Len(log) + 1).unanswered =
                   {[turn |-> Len(log) + 1, call |-> c] : c \in rec.calls}
             /\ rec.calls = {} /\ rec.stop # "pause" => Fold(log', Len(log) + 1).boundary
        /\ rec.kind = "user" =>
             Fold(log', Len(log) + 1).unanswered = {} /\ OpenTurn(log', Len(log) + 1) = 0
        /\ rec.kind \notin {"assistant", "user"} =>
             OpenTurn(log', Len(log) + 1) = OpenTurn(log, Len(log))
    BY <1>4, <2>1, FoldAdded
  <2>4. OnCourse(w)
    BY <1>3, <1>4, <2>2 DEF Course
  <2> QED BY <2>2, <2>3, <2>4
<1>6. Unfinished(w) # {} => Open(w) # 0
  BY FoldMore DEF Unfinished, Open
<1>7. CASE GetsAnswer(w)
  <2>1. PICK id \in Asked(w) :
          /\ run[w].pc = "answering" /\ run'[w].pc = "turn"
          /\ Adds(w, Result(w, id)) /\ Knows(w)
          /\ run'[w].given = id
          /\ run'[w].pending = run[w].pending
    BY <1>7 DEF GetsAnswer
  <2>2. Result(w, id).kind = "result" /\ Result(w, id).id = id
    BY DEF Result
  <2>3. /\ OnCourse(w) /\ Left(w)' = Fold(log, run[w].view).unanswered \ {id}
        /\ Unfinished(w)' = Unfinished(w) \ {id} /\ Open(w)' = Open(w)
    BY <1>5, <2>1, <2>2
  <2>4. Unfinished(w) = Left(w) /\ run[w].given = NoCall /\ (run[w].pending = TRUE <=> Unfinished(w) # {})
    BY <2>1, <2>3 DEF OnCourse
  <2>5. id \in Left(w)
    BY FoldMore DEF Left, Asked
  <2>6. run[w].view \in 0..Len(log)
    BY <1>4, WorkerFacts
  <2>7. NoCall \notin Fold(log, run[w].view).unanswered
    BY <1>4, <2>6, NoCallIsNone
  <2>8. Left(w) = Fold(log, run[w].view).unanswered
    BY <2>4, <2>7 DEF Left
  <2> QED BY <1>6, <2>1, <2>3, <2>4, <2>5, <2>8 DEF OnCourse
<1>8. CASE Settles(w)
  <2>1. PICK id \in run[w].todo :
          /\ run[w].pc \in {"batch", "tool"} /\ run'[w].pc = "batch"
          /\ Knows(w) /\ run'[w].pending = run[w].pending
          /\ run'[w].todo = run[w].todo \ {id}
          /\ \/ Adds(w, Result(w, id)) /\ run'[w].waiting = run[w].waiting
             \/ Adds(w, Deferral(w, id)) /\ run'[w].waiting = TRUE
    BY <1>8 DEF Settles
  <2>2. /\ Result(w, id).kind = "result" /\ Result(w, id).id = id
        /\ Deferral(w, id).kind = "deferred"
    BY DEF Result, Deferral
  <2>3. CASE Adds(w, Result(w, id)) /\ run'[w].waiting = run[w].waiting
    <3>1. /\ OnCourse(w) /\ Unfinished(w)' = Unfinished(w) \ {id} /\ Open(w)' = Open(w)
          /\ Dirty(run[w].tail) => Dirty(run[w].tail)'
      BY <1>5, <2>1, <2>2, <2>3
    <3> QED BY <2>1, <2>3, <3>1 DEF OnCourse
  <2>4. CASE Adds(w, Deferral(w, id)) /\ run'[w].waiting = TRUE
    <3>1. /\ OnCourse(w) /\ Unfinished(w)' = Unfinished(w) /\ Open(w)' = Open(w)
          /\ Dirty(run[w].tail) => Dirty(run[w].tail)'
      BY <1>5, <2>1, <2>2, <2>4
    <3> QED BY <2>1, <2>4, <3>1 DEF OnCourse
  <2> QED BY <2>1, <2>3, <2>4
<1>9. CASE Hears(w)
  <2>1. PICK calls \in SUBSET Call, stop \in Stop :
          /\ run[w].pc = "model"
          /\ Adds(w, Assistant(w, calls, stop)) /\ Knows(w)
          /\ run'[w].pending = run[w].pending
          /\ \/ /\ run'[w].pc = "ended"
                /\ run'[w].reason # "completed" \/ (calls = {} /\ stop = "done")
             \/ /\ run'[w].pc = "batch"
                /\ run'[w].todo = {[turn |-> Len(log) + 1, call |-> c] : c \in calls}
    BY <1>9 DEF Hears
  <2>2. Assistant(w, calls, stop).kind = "assistant" /\ Assistant(w, calls, stop).calls = calls
          /\ Assistant(w, calls, stop).stop = stop
    BY DEF Assistant
  <2>3. /\ Unfinished(w)' = {[turn |-> Len(log) + 1, call |-> c] : c \in calls}
        /\ calls = {} /\ stop # "pause" => (Fold(log, run[w].tail)').boundary
    BY <1>5, <2>1, <2>2
  <2>4. run'[w].pending # TRUE
    BY <2>1 DEF Base, Place
  <2> QED BY <2>1, <2>3, <2>4 DEF OnCourse
<1>10. CASE Prompts(w)
  <2>1. /\ run[w].pc = "prompt" /\ run'[w].pc = "turn" /\ Adds(w, UserTurn(w)) /\ Knows(w)
        /\ run'[w].pending = run[w].pending /\ UserTurn(w).kind = "user"
    BY <1>10 DEF Prompts, UserTurn
  <2>2. /\ OnCourse(w) /\ Unfinished(w)' = {} /\ Open(w)' = 0
        /\ Unfinished(w) # {} => Dirty(run[w].tail)'
        /\ Dirty(run[w].tail) => Dirty(run[w].tail)'
    BY <1>5, <2>1
  <2> QED BY <2>1, <2>2 DEF OnCourse
<1> QED BY <1>3, <1>7, <1>8, <1>9, <1>10

\* What others write leaves a worker on its course.
LEMMA CourseOfOthers ==
    ASSUME Base, NEW w \in Worker, Moves(w), NEW v \in Worker \ {w}, Course(v)
    PROVE  Course(v)'
<1>1. /\ run[v].tail \in 0..Len(log) /\ run[v].view \in 0..Len(log) /\ Len(log) \in Nat
      /\ run[v].tail \in Nat /\ run[v].view \in Nat
  BY WorkerFacts DEF Base
<1>2. /\ run'[v] = run[v]
      /\ \A p \in 1..Len(log) : log'[p] = log[p]
      /\ \A n \in 0..Len(log) :
            OpenTurn(log', n) = OpenTurn(log, n) /\ Fold(log', n) = Fold(log, n)
  BY Steady DEF Base
<1>3. /\ Unfinished(v)' = Unfinished(v) /\ Open(v)' = Open(v) /\ Left(v)' = Left(v)
      /\ Fold(log, run[v].tail)' = Fold(log, run[v].tail)
  BY <1>1, <1>2 DEF Unfinished, Open, Left
<1>4. Alone(v)' => Alone(v)
  <2>1. \A p \in (run[v].view + 1)..run[v].tail : p \in 1..Len(log)
    BY <1>1
  <2> QED BY <1>2, <2>1 DEF Alone
<1>5. Dirty(run[v].tail) => Dirty(run[v].tail)'
  <2>1. \A p \in 1..run[v].tail : p \in 1..Len(log) /\ p - 1 \in 0..Len(log)
    BY <1>1
  <2> QED BY <1>2, <2>1 DEF Dirty
<1> QED BY <1>2, <1>3, <1>4, <1>5 DEF Course, OnCourse

\* No step takes a worker off its course.
LEMMA CourseStep ==
    ASSUME Base, \A w \in Worker : Course(w), [Next]_vars
    PROVE  (\A w \in Worker : Course(w))'
<1>1. CASE Next
  <2>1. PICK w \in Worker : Moves(w)
    BY <1>1, EveryMove DEF Base
  <2>2. Course(w)'
    BY <2>1, CourseSilently, CourseWriting DEF Moves
  <2>3. \A v \in Worker \ {w} : Course(v)'
    BY <2>1, CourseOfOthers
  <2> QED BY <2>2, <2>3
<1>2. CASE UNCHANGED vars
  <2>1. log' = log /\ run' = run
    BY <1>2 DEF vars
  <2>2. \A w \in Worker : /\ Unfinished(w)' = Unfinished(w) /\ Open(w)' = Open(w)
                          /\ Left(w)' = Left(w) /\ (Alone(w)' <=> Alone(w))
    BY <2>1 DEF Unfinished, Open, Left, Alone
  <2>3. \A n : Dirty(n)' <=> Dirty(n)
    BY <2>1 DEF Dirty
  <2>4. ASSUME NEW w \in Worker PROVE OnCourse(w) => OnCourse(w)'
    BY <2>1, <2>2, <2>3 DEF OnCourse
  <2> QED BY <2>1, <2>2, <2>4 DEF Course
<1> QED BY <1>1, <1>2

\* Every worker that nobody interfered with is on its course.
LEMMA OnItsCourse == Spec => [](Base /\ \A w \in Worker : Course(w))
<1>1. Init => \A w \in Worker : Course(w)
  BY DEF Init, Gone, Course, Active
<1> QED BY <1>1, StartsBased, BaseStep, CourseStep, PTL DEF Spec


-----------------------------------------------------------------------------
(* The journal a resume can read, and go by. *)

\* Who is stale stays so.
LEMMA StaleStays ==
    ASSUME Base, NEW w \in Worker, Moves(w), NEW v \in Worker, Stale(v)
    PROVE  Stale(v)'
<1>1. PICK p, q \in 1..Len(log) :
        run[v].view < p /\ p < q /\ log[p].by # v /\ log[q].by = v
  BY DEF Stale
<1>2. run[v].pc # "new"
  BY <1>1 DEF Base, Handles
<1>3. run'[v].view = run[v].view
  BY <1>2, Steady, ViewStays DEF Base
<1>4. p \in 1..Len(log') /\ q \in 1..Len(log') /\ log'[p] = log[p] /\ log'[q] = log[q]
  BY Steady DEF Base
<1> QED BY <1>1, <1>3, <1>4 DEF Stale

\* Who writes behind a record it did not load, and not in the same stretch, is stale.
LEMMA StaleWriter ==
    ASSUME Base, NEW w \in Worker, NEW rec, Adds(w, rec),
           \/ Active(run[w].pc) /\ ~Alone(w)
           \/ run[w].pc = "opened" /\ run[w].view # Len(log)
    PROVE  Stale(w)'
<1>1. /\ rec \in Record(Worker) /\ rec.by = w /\ log' = Append(log, rec)
      /\ run'[w].view = run[w].view /\ run[w].tail = Len(log)
      /\ run[w].view \in Nat /\ run[w].view <= Len(log)
  BY WorkerFacts DEF Adds, Held, Base
<1>2. /\ Len(log) \in Nat /\ Len(log') = Len(log) + 1 /\ log'[Len(log) + 1] = rec
      /\ \A p \in 1..Len(log) : log'[p] = log[p]
  BY <1>1, Appended DEF Base
<1>3. \E p \in 1..Len(log) : run[w].view < p /\ log[p].by # w
  <2>1. CASE Active(run[w].pc) /\ ~Alone(w)
    <3>1. PICK p \in (run[w].view + 1)..run[w].tail : log[p].by # w
      BY <2>1 DEF Alone
    <3>2. p \in 1..Len(log) /\ run[w].view < p
      BY <1>1, <1>2
    <3> QED BY <3>1, <3>2
  <2>2. CASE run[w].pc = "opened" /\ run[w].view # Len(log)
    <3>1. Len(log) \in 1..Len(log) /\ run[w].view < Len(log)
      BY <1>1, <1>2, <2>2
    <3>2. log[Len(log)].by # w
      BY <2>2, <3>1 DEF Base, Handles
    <3> QED BY <3>1, <3>2
  <2> QED BY <2>1, <2>2
<1>4. PICK p \in 1..Len(log) : run[w].view < p /\ log[p].by # w
  BY <1>3
<1> DEFINE q == Len(log) + 1
<1>5. p \in 1..Len(log') /\ q \in 1..Len(log') /\ p < q /\ log'[p] = log[p] /\ log'[q].by = w
  BY <1>1, <1>2
<1> HIDE DEF q
<1> QED BY <1>1, <1>4, <1>5 DEF Stale

\* A prompt behind an unfinished turn stays one.
LEMMA DirtyStays ==
    ASSUME Base, NEW w \in Worker, Moves(w), Dirty(Len(log))
    PROVE  Dirty(Len(log))'
<1>1. PICK p \in 1..Len(log) : log[p].kind = "user" /\ Fold(log, p - 1).unanswered # {}
  BY DEF Dirty
<1>2. p - 1 \in 0..Len(log) /\ p \in 1..Len(log') /\ log'[p] = log[p]
  BY Steady DEF Base
<1>3. Fold(log', p - 1) = Fold(log, p - 1)
  BY <1>2, Steady DEF Base
<1> QED BY <1>1, <1>2, <1>3 DEF Dirty

\* Who answers or defers a call does so in the turn that has it, unless it is stale or
\* a prompt closed the turn unfinished.
LEMMA AnswersInTurn ==
    ASSUME Base, NEW w \in Worker, Course(w),
           NEW rec, Adds(w, rec), rec.kind \in {"result", "deferred"},
           GetsAnswer(w) \/ Supplies(w) \/ Settles(w)
    PROVE  OpenTurn(log, Len(log)) # 0 \/ Stale(w)' \/ Dirty(Len(log))
<1>1. run[w].tail = Len(log)
  BY DEF Adds, Held
<1>2. Fold(log, Len(log)).unanswered # {} => OpenTurn(log, Len(log)) # 0
  BY FoldMore
<1>3. CASE Supplies(w)
  <2>1. CASE run[w].view # Len(log)
    BY <1>3, <2>1, StaleWriter DEF Supplies
  <2>2. CASE run[w].view = Len(log)
    <3>1. Asked(w) # {}
      BY <1>3 DEF Supplies
    <3>2. Fold(log, Len(log)).waiting # {}
      BY <2>2, <3>1 DEF Asked
    <3> QED BY <1>2, <3>2, FoldMore
  <2> QED BY <2>1, <2>2
<1>4. CASE GetsAnswer(w) \/ Settles(w)
  <2>1. Active(run[w].pc)
    BY <1>4 DEF GetsAnswer, Settles, Active
  <2>2. CASE ~Alone(w)
    BY <2>1, <2>2, StaleWriter
  <2>3. CASE Alone(w)
    <3>1. OnCourse(w)
      BY <2>1, <2>3 DEF Course
    <3>2. CASE GetsAnswer(w)
      <4>1. run[w].pc = "answering" /\ Asked(w) # {}
        BY <3>2 DEF GetsAnswer
      <4>2. Left(w) # {}
        BY <4>1, FoldMore DEF Left, Asked
      <4>3. Unfinished(w) # {}
        BY <3>1, <4>1, <4>2 DEF OnCourse
      <4> QED BY <1>1, <1>2, <4>3 DEF Unfinished
    <3>3. CASE Settles(w)
      <4>1. run[w].pc \in {"batch", "tool"} /\ run[w].todo # {}
        BY <3>3 DEF Settles
      <4>2. Unfinished(w) # {} \/ (Open(w) = 0 /\ Dirty(run[w].tail))
        BY <3>1, <4>1 DEF OnCourse
      <4> QED BY <1>1, <1>2, <4>2 DEF Unfinished
    <3> QED BY <1>4, <3>2, <3>3
  <2> QED BY <2>2, <2>3
<1> QED BY <1>3, <1>4

\* Every record that a move adds, by its kind.
LEMMA AddedKinds ==
    ASSUME Base, NEW w \in Worker, Moves(w), log' # log
    PROVE  \E rec \in Record(Worker) :
             /\ log' = Append(log, rec) /\ rec.by = w
             /\ rec.kind \in {"result", "deferred"} =>
                   Adds(w, rec) /\ (GetsAnswer(w) \/ Supplies(w) \/ Settles(w))
             /\ rec.kind = "terminal" =>
                   /\ Adds(w, rec) /\ run[w].pc = "ended"
                   /\ rec.reason = "completed" => run[w].reason = "completed"
<1>1. Writing(w)
  BY DEF Moves, Silently, Loads, Opens, Goes, Completes, AsksModel, Ends, Dispatches,
         TakesPrompt, Declines, Keeps
<1>2. CASE Creates(w)
  <2>1. PICK m : log = << >> /\ log' = <<Meta(w, m)>>
    BY <1>2 DEF Creates
  <2>2. log' = Append(log, Meta(w, m)) /\ Meta(w, m).kind = "meta"
    BY <2>1 DEF Meta
  <2> QED BY <2>2, NewRecords
<1>3. CASE Claims(w)
  <2>1. Adds(w, Claimed(w)) /\ Claimed(w).kind = "claim"
    BY <1>3 DEF Claims, Claimed
  <2> QED BY <2>1 DEF Adds
<1>4. CASE GetsAnswer(w)
  <2>1. PICK id \in Asked(w) : Adds(w, Result(w, id))
    BY <1>4 DEF GetsAnswer
  <2>2. Result(w, id).kind = "result"
    BY DEF Result
  <2> QED BY <1>4, <2>1, <2>2 DEF Adds
<1>5. CASE Supplies(w)
  <2>1. PICK id \in Asked(w) : Adds(w, Result(w, id))
    BY <1>5 DEF Supplies
  <2>2. Result(w, id).kind = "result"
    BY DEF Result
  <2> QED BY <1>5, <2>1, <2>2 DEF Adds
<1>6. CASE Settles(w)
  <2>1. PICK id \in run[w].todo : Adds(w, Result(w, id)) \/ Adds(w, Deferral(w, id))
    BY <1>6 DEF Settles
  <2>2. Result(w, id).kind = "result" /\ Deferral(w, id).kind = "deferred"
    BY DEF Result, Deferral
  <2>3. CASE Adds(w, Result(w, id))
    BY <1>6, <2>2, <2>3 DEF Adds
  <2>4. CASE Adds(w, Deferral(w, id))
    BY <1>6, <2>2, <2>4 DEF Adds
  <2> QED BY <2>1, <2>3, <2>4
<1>7. CASE Hears(w)
  <2>1. PICK calls \in SUBSET Call, stop \in Stop : Adds(w, Assistant(w, calls, stop))
    BY <1>7 DEF Hears
  <2>2. Assistant(w, calls, stop).kind = "assistant"
    BY DEF Assistant
  <2> QED BY <2>1, <2>2 DEF Adds
<1>8. CASE Prompts(w)
  <2>1. Adds(w, UserTurn(w)) /\ UserTurn(w).kind = "user"
    BY <1>8 DEF Prompts, UserTurn
  <2> QED BY <2>1 DEF Adds
<1>9. CASE Finishes(w)
  <2>1. PICK why \in Reason : /\ run[w].pc = "ended"
                              /\ why = "completed" => run[w].reason = "completed"
                              /\ Adds(w, Terminal(w, why))
    BY <1>9 DEF Finishes
  <2>2. Terminal(w, why).kind = "terminal" /\ Terminal(w, why).reason = why
    BY DEF Terminal
  <2> QED BY <2>1, <2>2 DEF Adds
<1> QED BY <1>1, <1>2, <1>3, <1>4, <1>5, <1>6, <1>7, <1>8, <1>9 DEF Writing

\* A step that makes the journal unreadable has one of the two causes.
LEMMA ReadableStep ==
    ASSUME Base, \A w \in Worker : Course(w), StaysReadable, [Next]_vars
    PROVE  StaysReadable'
<1>1. CASE UNCHANGED vars
  <2>1. log' = log /\ run' = run
    BY <1>1 DEF vars
  <2> QED BY <2>1 DEF StaysReadable, Corrupt, Stale
<1>2. CASE Next
  <2>1. PICK w \in Worker : Moves(w)
    BY <1>2, EveryMove DEF Base
  <2>2. SUFFICES ASSUME Corrupt(log')
                 PROVE  (\E v \in Worker : Stale(v)') \/ Dirty(Len(log))'
    BY DEF StaysReadable, Dirty
  <2>3. CASE Corrupt(log)
    <3>1. (\E v \in Worker : Stale(v)) \/ Dirty(Len(log))
      BY <2>3 DEF StaysReadable, Dirty
    <3> QED BY <2>1, <3>1, StaleStays, DirtyStays
  <2>4. CASE ~Corrupt(log)
    <3>1. PICK j \in 1..Len(log') :
            log'[j].kind \in {"result", "deferred"} /\ OpenTurn(log', j - 1) = 0
      BY <2>2 DEF Corrupt
    <3>2. log' # log
      BY <2>2, <2>4
    <3>3. PICK rec \in Record(Worker) :
            /\ log' = Append(log, rec) /\ rec.by = w
            /\ rec.kind \in {"result", "deferred"} =>
                  Adds(w, rec) /\ (GetsAnswer(w) \/ Supplies(w) \/ Settles(w))
      BY <2>1, <3>2, AddedKinds
    <3>4. /\ Len(log) \in Nat /\ Len(log') = Len(log) + 1 /\ log'[Len(log) + 1] = rec
          /\ \A p \in 1..Len(log) : log'[p] = log[p]
          /\ \A n \in 0..Len(log) : OpenTurn(log', n) = OpenTurn(log, n)
      BY <3>3, Appended DEF Base
    <3>5. j = Len(log) + 1
      <4>1. SUFFICES ASSUME j \in 1..Len(log)
                     PROVE  FALSE
        BY <3>4
      <4>2. j - 1 \in 0..Len(log)
        BY <3>4, <4>1
      <4>3. log[j].kind \in {"result", "deferred"} /\ OpenTurn(log, j - 1) = 0
        BY <3>1, <3>4, <4>1, <4>2
      <4> QED BY <2>4, <4>1, <4>3 DEF Corrupt
    <3>6. rec.kind \in {"result", "deferred"} /\ OpenTurn(log, Len(log)) = 0
      <4>1. j - 1 = Len(log) /\ Len(log) \in 0..Len(log)
        BY <3>4, <3>5
      <4> QED BY <3>1, <3>4, <3>5, <4>1
    <3>7. Stale(w)' \/ Dirty(Len(log))
      BY <3>3, <3>6, AnswersInTurn
    <3> QED BY <2>1, <3>7, DirtyStays
  <2> QED BY <2>3, <2>4
<1> QED BY <1>1, <1>2

\* A step that closes the run as completed has its answer.
LEMMA CompletedStep ==
    ASSUME Base, \A w \in Worker : Course(w), CompletedHasAnswer, [Next]_vars
    PROVE  CompletedHasAnswer'
<1>1. CASE UNCHANGED vars
  <2>1. log' = log /\ run' = run
    BY <1>1 DEF vars
  <2> QED BY <2>1 DEF CompletedHasAnswer, Stale
<1>2. CASE Next
  <2>1. PICK w \in Worker : Moves(w)
    BY <1>2, EveryMove DEF Base
  <2>2. SUFFICES ASSUME NEW p \in 1..Len(log'),
                        log'[p].kind = "terminal" /\ log'[p].reason = "completed"
                 PROVE  (\E v \in Worker : Stale(v)') \/ Fold(log', p).boundary
    BY DEF CompletedHasAnswer
  <2>3. CASE p \in 1..Len(log)
    <3>1. log'[p] = log[p] /\ Fold(log', p) = Fold(log, p)
      <4>1. p \in 0..Len(log)
        BY <2>3
      <4> QED BY <2>1, <2>3, <4>1, Steady DEF Base
    <3>2. (\E v \in Worker : Stale(v)) \/ Fold(log, p).boundary
      BY <2>2, <2>3, <3>1 DEF CompletedHasAnswer
    <3> QED BY <2>1, <3>1, <3>2, StaleStays
  <2>4. CASE p \notin 1..Len(log)
    <3>1. log' # log
      BY <2>4
    <3>2. PICK rec \in Record(Worker) :
            /\ log' = Append(log, rec) /\ rec.by = w
            /\ rec.kind = "terminal" =>
                  /\ Adds(w, rec) /\ run[w].pc = "ended"
                  /\ rec.reason = "completed" => run[w].reason = "completed"
      BY <2>1, <3>1, AddedKinds
    <3>3. /\ Len(log) \in Nat /\ Len(log') = Len(log) + 1 /\ log'[Len(log) + 1] = rec
      BY <3>2, Appended DEF Base
    <3>4. p = Len(log) + 1
      BY <2>4, <3>3
    <3>5. Adds(w, rec) /\ run[w].pc = "ended" /\ run[w].reason = "completed" /\ rec.kind = "terminal"
      BY <2>2, <3>2, <3>3, <3>4
    <3>6. Active(run[w].pc) /\ run[w].tail = Len(log)
      BY <3>5 DEF Active, Adds, Held
    <3>7. CASE ~Alone(w)
      BY <3>5, <3>6, <3>7, StaleWriter
    <3>8. CASE Alone(w)
      <4>1. Fold(log, Len(log)).boundary
        BY <3>5, <3>6, <3>8 DEF Course, OnCourse
      <4>2. Fold(log', Len(log) + 1).boundary = Fold(log, Len(log)).boundary
        BY <3>2, <3>5, FoldAdded DEF Base
      <4> QED BY <3>4, <4>1, <4>2
    <3> QED BY <3>7, <3>8
  <2> QED BY <2>3, <2>4
<1> QED BY <1>1, <1>2

\* A worker on its course calls the model with every answer there.
LEMMA SeesAnswers ==
    ASSUME Base, \A w \in Worker : Course(w)
    PROVE  ModelSeesAnswers
<1> SUFFICES ASSUME NEW w \in Worker, run[w].pc = "model", Held(w), ~Stale(w)
             PROVE  Fold(log, Len(log)).unanswered = {}
  BY DEF ModelSeesAnswers
<1>1. Active(run[w].pc) /\ run[w].tail = Len(log)
  BY DEF Active, Held
<1>2. run[w].tail \in 1..Len(log) /\ log[run[w].tail].by = w /\ run[w].view \in Nat /\ Len(log) \in Nat
  BY <1>1, WorkerFacts DEF Base, Handles
<1>3. Alone(w)
  <2> SUFFICES ASSUME NEW p \in (run[w].view + 1)..run[w].tail, log[p].by # w
               PROVE  FALSE
    BY DEF Alone
  <2>1. p \in 1..Len(log) /\ run[w].view < p /\ p < run[w].tail
    BY <1>1, <1>2
  <2> QED BY <1>2, <2>1 DEF Stale
<1>4. Unfinished(w) = {}
  BY <1>1, <1>3 DEF Course, OnCourse
<1> QED BY <1>1, <1>4 DEF Unfinished

\* Whatever crashes, resumes, answers and takeovers there are, the journal stays one that
\* Fold reads (state.go refuses a result with no turn to belong to), unless a worker wrote
\* on a stale view or a prompt was taken behind an unfinished turn.
THEOREM JournalReadable == Spec => []StaysReadable
<1>1. Init => StaysReadable
  <2> SUFFICES ASSUME Init
               PROVE  ~Corrupt(log)
    BY DEF StaysReadable
  <2>1. Len(log) = 0
    BY DEF Init
  <2> QED BY <2>1 DEF Corrupt
<1> QED BY <1>1, OnItsCourse, ReadableStep, PTL DEF Spec

\* A terminal record says "completed" only behind a reply that asked for nothing more, or
\* a worker wrote on a stale view: what refuses a resume of a completed run is true.
THEOREM CompletedAnswered == Spec => []CompletedHasAnswer
<1>1. Init => CompletedHasAnswer
  <2> SUFFICES ASSUME Init
               PROVE  Len(log) = 0
    BY DEF CompletedHasAnswer
  <2> QED BY DEF Init
<1> QED BY <1>1, OnItsCourse, CompletedStep, PTL DEF Spec

\* A worker that holds the run and is not stale calls the model only when every call of
\* the turn in flight has its answer (runner.go 1407-1409).
THEOREM ModelHasAnswers == Spec => []ModelSeesAnswers
BY OnItsCourse, SeesAnswers, PTL


-----------------------------------------------------------------------------
(* A turn that waits on deferred answers alone. *)

\* w found such a turn, and has none of the answers.
FoundWaiting(w) ==
    /\ run[w].pc \notin {"new", "loaded", "closed"}
    /\ run[w].mode \notin {"answer", "supply"}
    /\ Fold(log, run[w].view).waiting # {}
    /\ Fold(log, run[w].view).waiting = Fold(log, run[w].view).unanswered

\* It goes the way from its claim to the end of the turn.
Quiet(w) ==
    FoundWaiting(w) =>
        /\ run[w].pc \in {"opened", "turn", "batch", "ended"}
        /\ run[w].pc \in {"turn", "batch"} => run[w].pending = TRUE
        /\ run[w].pc = "batch" => run[w].todo = {} /\ run[w].waiting = TRUE
        /\ run[w].pc = "ended" => run[w].reason = "stopped"
        /\ \A p \in 1..Len(log) : log[p].by = w => log[p].kind = "claim"

\* Whatever a worker does that found nothing but deferrals, it stays quiet.
LEMMA QuietOfMover ==
    ASSUME Base, NEW w \in Worker, Moves(w), Quiet(w)
    PROVE  Quiet(w)'
<1>1. SUFFICES ASSUME FoundWaiting(w)'
               PROVE  /\ run'[w].pc \in {"opened", "turn", "batch", "ended"}
                      /\ run'[w].pc \in {"turn", "batch"} => run'[w].pending = TRUE
                      /\ run'[w].pc = "batch" => run'[w].todo = {} /\ run'[w].waiting = TRUE
                      /\ run'[w].pc = "ended" => run'[w].reason = "stopped"
                      /\ \A p \in 1..Len(log') : log'[p].by = w => log'[p].kind = "claim"
  BY DEF Quiet
<1>2. /\ run'[w].pc \notin {"new", "loaded", "closed"}
      /\ run'[w].mode \notin {"answer", "supply"}
      /\ Fold(log', run'[w].view).waiting # {}
      /\ Fold(log', run'[w].view).waiting = Fold(log', run'[w].view).unanswered
  BY <1>1 DEF FoundWaiting
<1>3. run[w].view \in 0..Len(log) /\ run[w].view \in Nat /\ TypeInv /\ Place(w)
  BY WorkerFacts DEF Base
<1>4. Fold(log', run[w].view) = Fold(log, run[w].view)
  BY <1>3, Steady
<1> DEFINE found == Fold(log, run[w].view)
<1>5. ASSUME run'[w].view = run[w].view
      PROVE  found.waiting # {} /\ found.waiting = found.unanswered
  BY <1>2, <1>4, <1>5
<1>6. found.waiting \subseteq found.unanswered /\ NoCall \notin found.unanswered
        /\ (found.boundary => found.unanswered = {})
  BY <1>3, FoldMore, NoCallIsNone
<1> HIDE DEF found
<1>7. ASSUME run'[w].view = run[w].view, run[w].pc \notin {"new", "loaded", "closed"},
             run[w].mode \notin {"answer", "supply"}
      PROVE  /\ run[w].pc \in {"opened", "turn", "batch", "ended"}
             /\ run[w].pc \in {"turn", "batch"} => run[w].pending = TRUE
             /\ run[w].pc = "batch" => run[w].todo = {} /\ run[w].waiting = TRUE
             /\ run[w].pc = "ended" => run[w].reason = "stopped"
             /\ \A p \in 1..Len(log) : log[p].by = w => log[p].kind = "claim"
  BY <1>5, <1>7 DEF Quiet, FoundWaiting, found
<1>8. CASE Creates(w)
  <2>1. run[w].view = 0 /\ run'[w].view = run[w].view
    BY <1>3, <1>8 DEF Place, Creates
  <2> QED BY <1>5, <2>1, FoldOfNothing DEF found
<1>9. CASE Opens(w)
  BY <1>9 DEF Opens, Base, Handles
<1>10. CASE Loads(w) \/ Goes(w) \/ Supplies(w) \/ Finishes(w)
  BY <1>2, <1>10 DEF Loads, Goes, Supplies, Finishes, IsGone
<1>11. CASE GetsAnswer(w)
  BY <1>2, <1>3, <1>11 DEF GetsAnswer, Place
<1>12. CASE Claims(w)
  <2>1. run[w].pc = "opened" /\ Adds(w, Claimed(w)) /\ GoesOn(w)
    BY <1>12 DEF Claims
  <2>2. run'[w].view = run[w].view /\ log' = Append(log, Claimed(w)) /\ Claimed(w) \in Record(Worker)
    BY <2>1 DEF Adds
  <2>3. found.unanswered # {} /\ ~found.boundary
    BY <1>5, <1>6, <2>2
  <2>4. run[w].given = NoCall
    BY <1>3, <2>1 DEF Place
  <2>5. Left(w) # {}
    BY <1>6, <2>3, <2>4 DEF Left, found
  <2>6. run'[w].pending = TRUE
    <3>1. run'[w].pending = (Left(w) # {})
      BY <1>12 DEF Claims
    <3> QED BY <2>5, <3>1
  <2>7. run'[w].pc = "turn"
    BY <1>2, <1>12, <2>1, <2>3 DEF Claims, GoesOn, found
  <2>8. /\ Len(log') = Len(log) + 1 /\ log'[Len(log) + 1] = Claimed(w) /\ Len(log) \in Nat
        /\ \A p \in 1..Len(log) : log'[p] = log[p]
    BY <1>3, <2>2, Appended
  <2>9. \A p \in 1..Len(log) : log[p].by # w
    BY <2>1 DEF Base, Handles
  <2>10. Claimed(w).kind = "claim"
    BY DEF Claimed
  <2> QED BY <2>6, <2>7, <2>8, <2>9, <2>10
<1>13. CASE Completes(w)
  <2>1. /\ run[w].pc = "turn" /\ run'[w].pc = "batch" /\ log' = log /\ run'[w].view = run[w].view
        /\ run'[w].mode = run[w].mode /\ run'[w].pending = run[w].pending
        /\ run'[w].todo = Left(w) \ Asked(w) /\ run'[w].waiting = (Asked(w) # {})
    BY <1>13 DEF Completes, Keeps, GoesOn
  <2>2. run[w].given = NoCall
    BY <1>2, <1>3, <2>1 DEF Place
  <2>3. Left(w) = found.unanswered /\ Asked(w) = found.waiting
    BY <1>6, <2>2 DEF Left, Asked, found
  <2>4. run'[w].todo = {} /\ run'[w].waiting = TRUE
    BY <1>5, <2>1, <2>3
  <2> QED BY <1>2, <1>7, <2>1, <2>4
<1>14. CASE AsksModel(w)
  BY <1>2, <1>7, <1>14 DEF AsksModel, Keeps, GoesOn
<1>15. CASE Ends(w)
  BY <1>2, <1>7, <1>15 DEF Ends, Keeps, GoesOn
<1>16. CASE Dispatches(w)
  BY <1>2, <1>7, <1>16 DEF Dispatches, Keeps, GoesOn
<1>17. CASE TakesPrompt(w)
  BY <1>2, <1>7, <1>17 DEF TakesPrompt, Keeps, GoesOn, Continuable
<1>18. CASE Declines(w)
  BY <1>3, <1>7, <1>18 DEF Declines, Keeps, Place
<1>19. CASE Settles(w)
  BY <1>2, <1>3, <1>7, <1>19 DEF Settles, GoesOn, Adds, Place
<1>20. CASE Hears(w)
  BY <1>2, <1>7, <1>20 DEF Hears, GoesOn, Adds
<1>21. CASE Prompts(w)
  BY <1>3, <1>7, <1>21 DEF Prompts, Adds, Place
<1> QED
  BY <1>8, <1>9, <1>10, <1>11, <1>12, <1>13, <1>14, <1>15, <1>16, <1>17, <1>18, <1>19, <1>20, <1>21
  DEF Moves, Silently, Writing

\* And what the others do does not wake it.
LEMMA QuietStep ==
    ASSUME Base, \A w \in Worker : Quiet(w), [Next]_vars
    PROVE  (\A w \in Worker : Quiet(w))'
<1>1. CASE UNCHANGED vars
  <2>1. log' = log /\ run' = run
    BY <1>1 DEF vars
  <2> QED BY <2>1 DEF Quiet, FoundWaiting
<1>2. CASE Next
  <2>1. PICK w \in Worker : Moves(w)
    BY <1>2, EveryMove DEF Base
  <2>2. Quiet(w)'
    BY <2>1, QuietOfMover
  <2>3. ASSUME NEW v \in Worker \ {w}
        PROVE  Quiet(v)'
    <3>1. run'[v] = run[v] /\ run[v].view \in 0..Len(log)
      BY <2>1, Steady, WorkerFacts DEF Base
    <3>2. Fold(log', run[v].view) = Fold(log, run[v].view)
      BY <2>1, <3>1, Steady DEF Base
    <3>3. FoundWaiting(v)' => FoundWaiting(v)
      BY <3>1, <3>2 DEF FoundWaiting
    <3>4. ASSUME \A p \in 1..Len(log) : log[p].by = v => log[p].kind = "claim"
          PROVE  \A p \in 1..Len(log') : log'[p].by = v => log'[p].kind = "claim"
      BY <2>1, <3>4, Steady DEF Base
    <3> QED BY <3>1, <3>3, <3>4 DEF Quiet
  <2> QED BY <2>2, <2>3
<1> QED BY <1>1, <1>2

\* A resume that finds a turn waiting on deferred answers alone writes its claim and its
\* terminal record, and starts nothing (runner.go 1125-1126).
THEOREM WaitsQuietly == Spec => []QuietResume
<1>1. Init => \A w \in Worker : Quiet(w)
  BY DEF Init, Gone, Quiet, FoundWaiting
<1>2. (\A w \in Worker : Quiet(w)) => QuietResume
  BY DEF Quiet, FoundWaiting, QuietResume
<1> QED BY <1>1, <1>2, Based, QuietStep, PTL DEF Spec


-----------------------------------------------------------------------------
(* No tool runs twice in one worker's hands. *)

\* The record at p answers or defers the call.
Answers(p, id) == log[p].kind \in {"result", "deferred"} /\ log[p].id = id

\* It landed between w's load and its claim, or w wrote it before a prompt of its own.
Excused(w, p) ==
    \/ run[w].view < p /\ p < ClaimAt(w)
    \/ log[p].by = w /\ \E q \in p..Len(log) : log[q] = UserTurn(w)

\* The calls w found neither answered nor deferred.
Fresh(w) == Fold(log, run[w].view).unanswered \ Fold(log, run[w].view).waiting

\* A call is answered behind the reply that carries it.
AnswersFollow ==
    \A p \in 1..Len(log) : log[p].kind \in {"result", "deferred"} => log[p].id.turn < p

Once(w) ==
    /\ \A id \in run[w].todo : id.turn <= Len(log)
    /\ Active(run[w].pc) =>
          \A p \in 1..run[w].tail : run[w].view < p /\ ClaimAt(w) <= p => log[p].by = w
    /\ run[w].pc \in {"batch", "tool"} =>
          \A id \in run[w].todo, p \in 1..run[w].tail : Answers(p, id) => Excused(w, p)
    /\ run[w].pc \in {"turn", "answering"} =>
          \A id \in Fresh(w), p \in 1..run[w].tail : Answers(p, id) => Excused(w, p)

\* A call the fold has open is one of the open turn's.
LEMMA FoldTurn ==
    ASSUME NEW l, NEW n \in Nat, NEW id \in Fold(l, n).unanswered
    PROVE  id.turn = OpenTurn(l, n) /\ OpenTurn(l, n) \in 1..n
<1>1. OpenTurn(l, n) # 0
  BY FoldMore
<1>2. OpenTurn(l, n) \in 1..n
  BY <1>1, OpenTurnIs
<1>3. id \in CallsOf(l, OpenTurn(l, n))
  BY <1>1, <1>2, FoldOpen
<1> QED BY <1>2, <1>3 DEF CallsOf

\* One that is open and not deferred has neither an answer nor a deferral.
LEMMA FreshIsNew ==
    ASSUME AnswersFollow, NEW n \in 0..Len(log), Len(log) \in Nat,
           NEW id \in Fold(log, n).unanswered \ Fold(log, n).waiting,
           NEW p \in 1..n
    PROVE  ~Answers(p, id)
<1> SUFFICES ASSUME log[p].kind \in {"result", "deferred"}, log[p].id = id
             PROVE  FALSE
  BY DEF Answers
<1> DEFINE t == OpenTurn(log, n)
<1>1. id.turn = t /\ t \in 1..n /\ t # 0 /\ t > 0
  BY FoldTurn
<1>2. id.turn < p
  BY DEF AnswersFollow
<1> HIDE DEF t
<1>3. p \in (t + 1)..n
  BY <1>1, <1>2
<1>4. id \in Said(log, t, n, log[p].kind)
  BY <1>3 DEF Said
<1>5. /\ Fold(log, n).unanswered = CallsOf(log, t) \ Said(log, t, n, "result")
      /\ Fold(log, n).waiting =
            (CallsOf(log, t) \intersect Said(log, t, n, "deferred")) \ Said(log, t, n, "result")
  BY <1>1, FoldOpen DEF t
<1> QED BY <1>4, <1>5

\* A record of another's, or of another kind, moves nobody's claim.
LEMMA ClaimStays ==
    ASSUME TypeInv, NEW rec \in Record(Worker), log' = Append(log, rec), NEW v,
           rec.by # v \/ rec.kind # "claim"
    PROVE  ClaimAt(v)' = ClaimAt(v)
<1>1. /\ Len(log) \in Nat /\ Len(log') = Len(log) + 1 /\ log'[Len(log) + 1] = rec
      /\ \A p \in 1..Len(log) : log'[p] = log[p]
  BY Appended
<1>2. rec # Claimed(v)
  BY DEF Claimed
<1>3. {p \in 1..Len(log') : log'[p] = Claimed(v)} = {p \in 1..Len(log) : log[p] = Claimed(v)}
  BY <1>1, <1>2
<1> QED BY <1>3 DEF ClaimAt

\* A worker's claim is where it wrote it.
LEMMA ClaimIsLast ==
    ASSUME Base, NEW w \in Worker, run[w].pc = "opened", log' = Append(log, Claimed(w))
    PROVE  ClaimAt(w)' = Len(log) + 1
<1>1. Claimed(w) \in Record(Worker) /\ Claimed(w).by = w
  BY NewRecords
<1>2. /\ Len(log) \in Nat /\ Len(log') = Len(log) + 1 /\ log'[Len(log) + 1] = Claimed(w)
      /\ \A p \in 1..Len(log) : log'[p] = log[p]
  BY <1>1, Appended DEF Base
<1>3. \A p \in 1..Len(log) : log[p] # Claimed(w)
  BY <1>1 DEF Base, Handles
<1> DEFINE S == {p \in 1..Len(log') : log'[p] = Claimed(w)}
<1>4. S \subseteq 1..Len(log') /\ Len(log) + 1 \in S /\ \A p \in S : p <= Len(log) + 1 /\ Len(log') \in Nat
  BY <1>2, <1>3
<1> HIDE DEF S
<1>5. Latest(S) = Len(log) + 1
  BY <1>2, <1>4, LatestIs
<1> QED BY <1>5 DEF ClaimAt, S

\* An answer that was excused stays so.
LEMMA ExcusedStays ==
    ASSUME TypeInv, NEW rec \in Record(Worker), log' = Append(log, rec) \/ log' = log,
           NEW v, run'[v].view = run[v].view,
           NEW p \in 1..Len(log), Excused(v, p), ClaimAt(v)' = ClaimAt(v)
    PROVE  Excused(v, p)'
<1>1. /\ Len(log) \in Nat /\ Len(log') \in Nat /\ Len(log) <= Len(log')
      /\ \A q \in 1..Len(log) : log'[q] = log[q]
  BY Appended DEF TypeInv
<1>2. CASE run[v].view < p /\ p < ClaimAt(v)
  BY <1>2 DEF Excused
<1>3. CASE log[p].by = v /\ \E q \in p..Len(log) : log[q] = UserTurn(v)
  <2>1. PICK q \in p..Len(log) : log[q] = UserTurn(v)
    BY <1>3
  <2>2. q \in p..Len(log') /\ log'[q] = UserTurn(v) /\ log'[p].by = v
    BY <1>1, <1>3, <2>1
  <2> QED BY <2>2 DEF Excused
<1> QED BY <1>2, <1>3 DEF Excused

\* What others write excuses no less, and answers nothing a worker knows of.
LEMMA OnceOfOthers ==
    ASSUME Base, NEW w \in Worker, Moves(w), NEW v \in Worker \ {w}, Once(v)
    PROVE  Once(v)'
<1>1. /\ run[v].tail \in Nat /\ run[v].tail <= Len(log) /\ run[v].view \in 0..Len(log)
      /\ Len(log) \in Nat /\ TypeInv /\ run[v].todo \subseteq CallId
  BY WorkerFacts DEF Base, Run
<1>2. /\ run'[v] = run[v] /\ Len(log) <= Len(log') /\ Len(log') \in Nat
      /\ \A p \in 1..Len(log) : log'[p] = log[p]
      /\ Fold(log', run[v].view) = Fold(log, run[v].view)
  BY <1>1, Steady
<1>3. ClaimAt(v)' = ClaimAt(v)
  <2>1. CASE log' = log
    BY <2>1 DEF ClaimAt
  <2>2. CASE \E rec \in Record(Worker) : rec.by = w /\ log' = Append(log, rec)
    BY <1>1, <2>2, ClaimStays
  <2> QED BY <1>1, <2>1, <2>2, LogOfMove
<1>4. ASSUME NEW p \in 1..run[v].tail, NEW id
      PROVE  /\ p \in 1..Len(log)
             /\ Answers(p, id)' <=> Answers(p, id)
             /\ Excused(v, p) => Excused(v, p)'
  <2>1. p \in 1..Len(log)
    BY <1>1
  <2>2. \E rec \in Record(Worker) : log' = log \/ log' = Append(log, rec)
    <3>1. Claimed(w) \in Record(Worker)
      BY NewRecords
    <3> QED BY <1>1, <3>1, LogOfMove
  <2>3. Excused(v, p) => Excused(v, p)'
    BY <1>1, <1>2, <1>3, <2>1, <2>2, ExcusedStays
  <2> QED BY <1>2, <2>1, <2>3 DEF Answers
<1>5. Fresh(v)' = Fresh(v)
  BY <1>2 DEF Fresh
<1>6. \A id \in run[v].todo : id.turn \in Nat /\ id.turn <= Len(log)
  BY <1>1 DEF Once, CallId
<1>7. \A id \in run'[v].todo : id.turn <= Len(log')
  BY <1>1, <1>2, <1>6
<1> QED BY <1>2, <1>3, <1>4, <1>5, <1>7 DEF Once


\* What is so when a worker writes behind its claim.
LEMMA OnceAdds ==
    ASSUME Base, NEW w \in Worker, Once(w), Active(run[w].pc),
           NEW rec, Adds(w, rec), Knows(w), rec.kind # "claim"
    PROVE  /\ Len(log) \in Nat /\ Len(log') = Len(log) + 1 /\ log'[Len(log) + 1] = rec
           /\ run[w].tail = Len(log) /\ run'[w].tail = Len(log) + 1
           /\ \A p \in 1..run'[w].tail :
                 run'[w].view < p /\ ClaimAt(w)' <= p => log'[p].by = w
           /\ \A p \in 1..Len(log) : \A id :
                 (Answers(p, id)' <=> Answers(p, id)) /\ (Excused(w, p) => Excused(w, p)')
           /\ \A p \in 1..run'[w].tail : \A id :
                 p \notin 1..Len(log) /\ Answers(p, id)' => rec.kind \in {"result", "deferred"} /\ rec.id = id
           /\ Fresh(w)' = Fresh(w)
           /\ run'[w].view = run[w].view /\ ClaimAt(w)' = ClaimAt(w)
<1>1. /\ rec \in Record(Worker) /\ rec.by = w /\ log' = Append(log, rec)
      /\ run'[w].view = run[w].view /\ run[w].tail = Len(log) /\ run'[w].tail = Len(log) + 1
      /\ run[w].view \in 0..Len(log) /\ TypeInv
  BY WorkerFacts DEF Adds, Held, Knows, Base
<1>2. /\ Len(log) \in Nat /\ Len(log') = Len(log) + 1 /\ log'[Len(log) + 1] = rec
      /\ \A p \in 1..Len(log) : log'[p] = log[p]
      /\ Fold(log', run[w].view) = Fold(log, run[w].view)
  BY <1>1, Appended
<1>3. ClaimAt(w)' = ClaimAt(w)
  BY <1>1, ClaimStays
<1>4. ASSUME NEW p \in 1..run'[w].tail, run'[w].view < p, ClaimAt(w)' <= p
      PROVE  log'[p].by = w
  <2>1. CASE p = Len(log) + 1
    BY <1>1, <1>2, <2>1
  <2>2. CASE p \in 1..Len(log)
    BY <1>1, <1>2, <1>3, <1>4, <2>2 DEF Once
  <2> QED BY <1>1, <1>2, <2>1, <2>2
<1>5. ASSUME NEW p \in 1..Len(log), NEW id
      PROVE  (Answers(p, id)' <=> Answers(p, id)) /\ (Excused(w, p) => Excused(w, p)')
  <2>1. Answers(p, id)' <=> Answers(p, id)
    BY <1>2 DEF Answers
  <2>2. Excused(w, p) => Excused(w, p)'
    BY <1>1, <1>3, ExcusedStays
  <2> QED BY <2>1, <2>2
<1>6. \A p \in 1..run'[w].tail : \A id :
        p \notin 1..Len(log) /\ Answers(p, id)' => rec.kind \in {"result", "deferred"} /\ rec.id = id
  BY <1>1, <1>2 DEF Answers
<1>7. Fresh(w)' = Fresh(w)
  BY <1>1, <1>2 DEF Fresh
<1> QED BY <1>1, <1>2, <1>3, <1>4, <1>5, <1>6, <1>7

\* Where a call that was found open is from.
LEMMA FreshTurn ==
    ASSUME TypeInv, NEW w \in Worker
    PROVE  \A id \in Fold(log, run[w].view).unanswered : id.turn \in Nat /\ id.turn <= Len(log)
<1> TAKE id \in Fold(log, run[w].view).unanswered
<1>1. run[w].view \in Nat /\ run[w].view <= Len(log) /\ Len(log) \in Nat
  BY WorkerFacts
<1>2. id.turn = OpenTurn(log, run[w].view) /\ OpenTurn(log, run[w].view) \in 1..run[w].view
  BY <1>1, FoldTurn
<1> QED BY <1>1, <1>2

\* A worker that writes nothing has no more calls to run than it found or asked for.
LEMMA OnceSilently ==
    ASSUME Base, NEW w \in Worker, Silently(w), Once(w)
    PROVE  Once(w)'
<1>1. CASE Loads(w) \/ Opens(w) \/ Goes(w)
  BY <1>1 DEF Loads, Opens, Goes, IsGone, Once, Active
<1>2. CASE Completes(w) \/ AsksModel(w) \/ Ends(w) \/ Dispatches(w) \/ TakesPrompt(w) \/ Declines(w)
  <2>1. log' = log /\ run'[w].view = run[w].view /\ run'[w].tail = run[w].tail /\ Active(run[w].pc)
    BY <1>2 DEF Completes, AsksModel, Ends, Dispatches, TakesPrompt, Declines, Keeps, Active
  <2>2. /\ ClaimAt(w)' = ClaimAt(w) /\ Fresh(w)' = Fresh(w)
        /\ \A p, id : (Answers(p, id)' <=> Answers(p, id)) /\ (Excused(w, p)' <=> Excused(w, p))
    BY <2>1 DEF ClaimAt, Fresh, Answers, Excused
  <2>3. \A p \in 1..run'[w].tail : run'[w].view < p /\ ClaimAt(w)' <= p => log'[p].by = w
    BY <2>1, <2>2 DEF Once
  <2>4. CASE Completes(w)
    <3>1. run[w].pc = "turn" /\ run'[w].pc = "batch" /\ run'[w].todo = Left(w) \ Asked(w)
      BY <2>4 DEF Completes
    <3>2. run'[w].todo \subseteq Fresh(w)
      BY <3>1 DEF Left, Asked, Fresh
    <3>3. \A id \in Fresh(w) : id.turn <= Len(log)
      BY FreshTurn DEF Fresh, Base
    <3> QED BY <2>1, <2>2, <2>3, <3>1, <3>2, <3>3 DEF Once
  <2>5. CASE AsksModel(w) \/ Ends(w) \/ TakesPrompt(w) \/ Declines(w)
    <3>1. run'[w].todo = {} /\ run'[w].pc \in {"model", "ended", "prompt"}
      BY <2>5 DEF AsksModel, Ends, TakesPrompt, Declines
    <3> QED BY <2>3, <3>1 DEF Once
  <2>6. CASE Dispatches(w)
    <3>1. run[w].pc = "batch" /\ run'[w].pc = "tool" /\ run'[w].todo = run[w].todo
      BY <2>6 DEF Dispatches
    <3> QED BY <2>1, <2>2, <2>3, <3>1 DEF Once
  <2> QED BY <1>2, <2>4, <2>5, <2>6
<1> QED BY <1>1, <1>2 DEF Silently

\* One that writes has an answer for what it takes from its batch.
LEMMA OnceWriting ==
    ASSUME Base, AnswersFollow, NEW w \in Worker, Writing(w), Once(w)
    PROVE  Once(w)'
<1>1. /\ run[w].tail \in Nat /\ run[w].tail <= Len(log) /\ run[w].view \in 0..Len(log)
      /\ Len(log) \in Nat /\ TypeInv /\ run[w].todo \subseteq CallId /\ Place(w)
  BY WorkerFacts DEF Base, Run
<1>2. CASE Supplies(w) \/ Finishes(w)
  BY <1>2 DEF Supplies, Finishes, IsGone, Once, Active
<1>3. CASE Creates(w)
  <2>1. /\ run[w].view = 0 /\ run'[w].view = 0 /\ run'[w].pc = "turn" /\ run'[w].todo = {}
        /\ run'[w].tail = 1
    BY <1>1, <1>3 DEF Creates, Place
  <2>2. PICK m : log' = <<Meta(w, m)>>
    BY <1>3 DEF Creates
  <2>3. log'[1].by = w
    BY <2>2, NewRecords
  <2>4. Fresh(w)' = {}
    BY <2>1, FoldOfNothing DEF Fresh
  <2>5. \A p \in 1..run'[w].tail : log'[p].by = w
    BY <2>1, <2>3
  <2> QED BY <2>1, <2>4, <2>5 DEF Once
<1>4. CASE Claims(w)
  <2>1. /\ run[w].pc = "opened" /\ Adds(w, Claimed(w)) /\ Knows(w)
        /\ run'[w].pc \in {"answering", "turn", "prompt", "ended"} /\ run'[w].todo = run[w].todo
    BY <1>4 DEF Claims
  <2>2. run'[w].todo = {}
    BY <1>1, <2>1 DEF Place
  <2>3. /\ log' = Append(log, Claimed(w)) /\ run'[w].view = run[w].view
        /\ run'[w].tail = Len(log) + 1 /\ Claimed(w) \in Record(Worker) /\ Claimed(w).by = w
    BY <2>1 DEF Adds, Knows
  <2>4. /\ Len(log') = Len(log) + 1 /\ log'[Len(log) + 1] = Claimed(w)
        /\ \A p \in 1..Len(log) : log'[p] = log[p]
        /\ Fold(log', run[w].view) = Fold(log, run[w].view)
    BY <1>1, <2>3, Appended
  <2>5. ClaimAt(w)' = Len(log) + 1
    BY <2>1, <2>3, ClaimIsLast
  <2>6. \A p \in 1..run'[w].tail : ClaimAt(w)' <= p => log'[p].by = w
    BY <1>1, <2>3, <2>4, <2>5
  <2>7. ASSUME NEW id \in Fresh(w)', NEW p \in 1..run'[w].tail, Answers(p, id)'
        PROVE  Excused(w, p)'
    <3>1. Claimed(w).kind = "claim"
      BY DEF Claimed
    <3>2. p # Len(log) + 1
      BY <2>4, <2>7, <3>1 DEF Answers
    <3>3. p \in 1..Len(log)
      BY <1>1, <2>3, <3>2
    <3>4. Answers(p, id)
      BY <2>4, <2>7, <3>3 DEF Answers
    <3>5. id \in Fold(log, run[w].view).unanswered \ Fold(log, run[w].view).waiting
      BY <2>3, <2>4, <2>7 DEF Fresh
    <3>6. p \notin 1..run[w].view
      BY <1>1, <3>4, <3>5, FreshIsNew
    <3> QED BY <1>1, <2>3, <2>5, <3>3, <3>6 DEF Excused
  <2> QED BY <2>1, <2>2, <2>6, <2>7 DEF Once
<1>5. CASE GetsAnswer(w)
  <2>1. PICK id \in Asked(w) :
          /\ run[w].pc = "answering" /\ run'[w].pc = "turn"
          /\ Adds(w, Result(w, id)) /\ Knows(w) /\ run'[w].todo = run[w].todo
    BY <1>5 DEF GetsAnswer
  <2>2. Result(w, id).kind = "result" /\ Result(w, id).id = id
    BY DEF Result
  <2>3. Active(run[w].pc)
    BY <2>1 DEF Active
  <2>4. /\ Len(log') = Len(log) + 1
        /\ run[w].tail = Len(log) /\ run'[w].tail = Len(log) + 1
        /\ \A p \in 1..run'[w].tail :
              run'[w].view < p /\ ClaimAt(w)' <= p => log'[p].by = w
        /\ \A p \in 1..Len(log) : \A c :
              (Answers(p, c)' <=> Answers(p, c)) /\ (Excused(w, p) => Excused(w, p)')
        /\ \A p \in 1..run'[w].tail : \A c :
              p \notin 1..Len(log) /\ Answers(p, c)' => id = c
        /\ Fresh(w)' = Fresh(w)
    BY <2>1, <2>2, <2>3, OnceAdds
  <2>5. run'[w].todo = {}
    BY <1>1, <2>1 DEF Place
  <2>6. id \notin Fresh(w)
    BY DEF Asked, Fresh
  <2>7. ASSUME NEW c \in Fresh(w), NEW p \in 1..run'[w].tail, Answers(p, c)'
        PROVE  Excused(w, p)'
    <3>1. p \in 1..Len(log)
      BY <1>1, <2>4, <2>6, <2>7
    <3> QED BY <2>1, <2>4, <2>7, <3>1 DEF Once
  <2> QED BY <2>1, <2>4, <2>5, <2>7 DEF Once
<1>6. CASE Settles(w)
  <2>1. PICK id \in run[w].todo :
          /\ run[w].pc \in {"batch", "tool"} /\ run'[w].pc = "batch" /\ Knows(w)
          /\ run'[w].todo = run[w].todo \ {id}
          /\ Adds(w, Result(w, id)) \/ Adds(w, Deferral(w, id))
    BY <1>6 DEF Settles
  <2>2. PICK rec \in {Result(w, id), Deferral(w, id)} : Adds(w, rec)
    BY <2>1
  <2>3. rec.kind \in {"result", "deferred"} /\ rec.id = id
    BY <2>2 DEF Result, Deferral
  <2>4. Active(run[w].pc)
    BY <2>1 DEF Active
  <2>5. /\ Len(log') = Len(log) + 1
        /\ run[w].tail = Len(log) /\ run'[w].tail = Len(log) + 1
        /\ \A p \in 1..run'[w].tail :
              run'[w].view < p /\ ClaimAt(w)' <= p => log'[p].by = w
        /\ \A p \in 1..Len(log) : \A c :
              (Answers(p, c)' <=> Answers(p, c)) /\ (Excused(w, p) => Excused(w, p)')
        /\ \A p \in 1..run'[w].tail : \A c :
              p \notin 1..Len(log) /\ Answers(p, c)' => id = c
    BY <2>1, <2>2, <2>3, <2>4, OnceAdds
  <2>6. ASSUME NEW c \in run'[w].todo, NEW p \in 1..run'[w].tail, Answers(p, c)'
        PROVE  Excused(w, p)'
    <3>1. c \in run[w].todo /\ c # id
      BY <2>1, <2>6
    <3>2. p \in 1..Len(log)
      BY <1>1, <2>5, <2>6, <3>1
    <3> QED BY <2>1, <2>5, <2>6, <3>1, <3>2 DEF Once
  <2>7. \A c \in run'[w].todo : c.turn <= Len(log')
    <3>1. \A c \in run[w].todo : c.turn \in Nat /\ c.turn <= Len(log)
      BY <1>1 DEF Once, CallId
    <3> QED BY <1>1, <2>1, <2>5, <3>1
  <2> QED BY <2>1, <2>5, <2>6, <2>7 DEF Once
<1>7. CASE Hears(w)
  <2>1. PICK calls \in SUBSET Call, stop \in Stop :
          /\ run[w].pc = "model"
          /\ Adds(w, Assistant(w, calls, stop)) /\ Knows(w)
          /\ \/ run'[w].pc = "ended" /\ run'[w].todo = {}
             \/ /\ run'[w].pc = "batch"
                /\ run'[w].todo = {[turn |-> Len(log) + 1, call |-> c] : c \in calls}
    BY <1>7 DEF Hears
  <2>2. Assistant(w, calls, stop).kind = "assistant"
    BY DEF Assistant
  <2>3. Active(run[w].pc)
    BY <2>1 DEF Active
  <2>4. /\ Len(log') = Len(log) + 1
        /\ run[w].tail = Len(log) /\ run'[w].tail = Len(log) + 1
        /\ \A p \in 1..run'[w].tail :
              run'[w].view < p /\ ClaimAt(w)' <= p => log'[p].by = w
        /\ \A p \in 1..Len(log) : \A c : Answers(p, c)' <=> Answers(p, c)
        /\ \A p \in 1..run'[w].tail : \A c : Answers(p, c)' => p \in 1..Len(log)
    BY <2>1, <2>2, <2>3, OnceAdds
  <2>5. ASSUME NEW c \in run'[w].todo
        PROVE  c.turn = Len(log) + 1
    BY <2>1, <2>5
  <2>6. ASSUME NEW c \in run'[w].todo, NEW p \in 1..run'[w].tail, Answers(p, c)'
        PROVE  FALSE
    <3>1. p \in 1..Len(log) /\ p < Len(log) + 1
      BY <1>1, <2>4, <2>6
    <3>2. Answers(p, c)
      BY <2>4, <2>6, <3>1
    <3>3. c.turn < p
      BY <3>1, <3>2 DEF AnswersFollow, Answers
    <3> QED BY <1>1, <2>5, <3>1, <3>3
  <2>7. \A c \in run'[w].todo : c.turn <= Len(log')
    BY <1>1, <2>4, <2>5
  <2> QED BY <2>1, <2>4, <2>6, <2>7 DEF Once
<1>8. CASE Prompts(w)
  <2>1. /\ run[w].pc = "prompt" /\ run'[w].pc = "turn" /\ Adds(w, UserTurn(w)) /\ Knows(w)
        /\ run'[w].todo = {}
    BY <1>8 DEF Prompts
  <2>2. UserTurn(w).kind = "user"
    BY DEF UserTurn
  <2>3. Active(run[w].pc)
    BY <2>1 DEF Active
  <2>4. /\ Len(log') = Len(log) + 1 /\ log'[Len(log) + 1] = UserTurn(w)
        /\ run[w].tail = Len(log) /\ run'[w].tail = Len(log) + 1
        /\ \A p \in 1..run'[w].tail :
              run'[w].view < p /\ ClaimAt(w)' <= p => log'[p].by = w
        /\ \A p \in 1..Len(log) : \A c : Answers(p, c)' <=> Answers(p, c)
        /\ \A p \in 1..run'[w].tail : \A c : Answers(p, c)' => p \in 1..Len(log)
        /\ Fresh(w)' = Fresh(w) /\ run'[w].view = run[w].view /\ ClaimAt(w)' = ClaimAt(w)
    BY <2>1, <2>2, <2>3, OnceAdds
  <2>5. ASSUME NEW c \in Fresh(w), NEW p \in 1..run'[w].tail, Answers(p, c)'
        PROVE  Excused(w, p)'
    <3>1. p \in 1..Len(log) /\ Answers(p, c)
      BY <1>1, <2>4, <2>5
    <3>2. run[w].view < p
      <4>1. p \notin 1..run[w].view
        BY <1>1, <3>1, FreshIsNew DEF Fresh
      <4> QED BY <1>1, <3>1, <4>1
    <3>3. CASE p < ClaimAt(w)
      BY <2>4, <3>2, <3>3 DEF Excused
    <3>4. CASE ~(p < ClaimAt(w))
      <4>1. ClaimAt(w) \in Int
        <5> DEFINE S == {i \in 1..Len(log) : log[i] = Claimed(w)}
        <5>1. S = {} => Latest(S) = 0
          BY DEF Latest
        <5>2. S # {} => Latest(S) \in S
          BY <1>1, LatestIsOne
        <5> QED BY <5>1, <5>2 DEF ClaimAt
      <4>2. ClaimAt(w)' <= p /\ run'[w].view < p
        BY <2>4, <3>1, <3>2, <3>4, <4>1
      <4>3. log'[p].by = w
        BY <2>4, <2>5, <4>2
      <4>4. Len(log) + 1 \in p..Len(log')
        BY <1>1, <2>4, <3>1
      <4> QED BY <2>4, <4>3, <4>4 DEF Excused
    <3> QED BY <3>3, <3>4
  <2> QED BY <2>1, <2>4, <2>5 DEF Once
<1> QED BY <1>2, <1>3, <1>4, <1>5, <1>6, <1>7, <1>8 DEF Writing

\* A call is answered behind its reply.
LEMMA FollowStep ==
    ASSUME Base, AnswersFollow, \A w \in Worker : Once(w), NEW w \in Worker, Moves(w)
    PROVE  AnswersFollow'
<1>1. SUFFICES ASSUME NEW p \in 1..Len(log'), log'[p].kind \in {"result", "deferred"}
               PROVE  log'[p].id.turn < p
  BY DEF AnswersFollow
<1>2. CASE p \in 1..Len(log)
  BY <1>1, <1>2, Steady DEF Base, AnswersFollow
<1>3. CASE p \notin 1..Len(log)
  <2>1. log' # log
    BY <1>3
  <2>2. PICK rec \in Record(Worker) :
          /\ log' = Append(log, rec)
          /\ rec.kind \in {"result", "deferred"} =>
                Adds(w, rec) /\ (GetsAnswer(w) \/ Supplies(w) \/ Settles(w))
    BY <2>1, AddedKinds
  <2>3. Len(log) \in Nat /\ Len(log') = Len(log) + 1 /\ log'[Len(log) + 1] = rec
    BY <2>2, Appended DEF Base
  <2>4. p = Len(log) + 1 /\ rec.kind \in {"result", "deferred"} /\ log'[p] = rec
    BY <1>1, <1>3, <2>3
  <2>5. \A r : log' = Append(log, r) => r = rec
    <3> TAKE r
    <3> HAVE log' = Append(log, r)
    <3>1. log'[Len(log) + 1] = r
      BY <2>3 DEF Base, TypeInv
    <3> QED BY <2>3, <3>1
  <2>6. \E id : rec.id = id /\ id.turn \in Nat /\ id.turn <= Len(log)
    <3>1. CASE GetsAnswer(w) \/ Supplies(w)
      <4>1. PICK id \in Asked(w) : log' = Append(log, Result(w, id))
        BY <3>1 DEF GetsAnswer, Supplies, Adds
      <4>2. rec.id = id
        BY <2>5, <4>1 DEF Result
      <4>3. id \in Fold(log, run[w].view).unanswered
        BY FoldMore DEF Asked
      <4> QED BY <4>2, <4>3, FreshTurn DEF Base
    <3>2. CASE Settles(w)
      <4>1. PICK id \in run[w].todo :
              log' = Append(log, Result(w, id)) \/ log' = Append(log, Deferral(w, id))
        BY <3>2 DEF Settles, Adds
      <4>2. rec.id = id
        BY <2>5, <4>1 DEF Result, Deferral
      <4>3. id \in CallId
        BY WorkerFacts DEF Base, Run
      <4> QED BY <4>2, <4>3 DEF Once, CallId
    <3> QED BY <2>2, <2>4, <3>1, <3>2
  <2> QED BY <2>3, <2>4, <2>6
<1> QED BY <1>2, <1>3

\* No step makes an answer that a worker could have seen a call of its batch.
LEMMA OnceStep ==
    ASSUME Base, AnswersFollow, \A w \in Worker : Once(w), [Next]_vars
    PROVE  AnswersFollow' /\ (\A w \in Worker : Once(w))'
<1>1. CASE UNCHANGED vars
  <2>1. log' = log /\ run' = run
    BY <1>1 DEF vars
  <2> QED BY <2>1 DEF AnswersFollow, Once, Answers, Excused, Fresh, ClaimAt, Active
<1>2. CASE Next
  <2>1. PICK w \in Worker : Moves(w)
    BY <1>2, EveryMove DEF Base
  <2>2. Once(w)'
    BY <2>1, OnceSilently, OnceWriting DEF Moves
  <2>3. \A v \in Worker \ {w} : Once(v)'
    BY <2>1, OnceOfOthers
  <2>4. AnswersFollow'
    BY <2>1, FollowStep
  <2> QED BY <2>2, <2>3, <2>4
<1> QED BY <1>1, <1>2

\* A worker that still holds the run starts no tool for a call that the journal already
\* answers or defers, but for an answer that landed between its load and its claim and one
\* of its own from before a prompt (completePending, runner.go 1397-1408).
THEOREM RunsOnce == Spec => []NoRepeat
<1>1. Init => AnswersFollow /\ \A w \in Worker : Once(w)
  <2> SUFFICES ASSUME Init
               PROVE  AnswersFollow /\ \A w \in Worker : Once(w)
    OBVIOUS
  <2>1. Len(log) = 0 /\ \A w \in Worker : run[w].pc = "new" /\ run[w].todo = {}
    BY DEF Init, Gone
  <2> QED BY <2>1 DEF AnswersFollow, Once, Active
<1>2. Base /\ (\A w \in Worker : Once(w)) => NoRepeat
  <2> SUFFICES ASSUME Base, NEW w \in Worker, Once(w), run[w].pc = "tool",
                      NEW p \in 1..run[w].tail, log[p].kind \in {"result", "deferred"},
                      log[p].id = run[w].doing
               PROVE  \/ run[w].view < p /\ p < ClaimAt(w)
                      \/ log[p].by = w /\ \E q \in p..Len(log) : log[q] = UserTurn(w)
    BY DEF NoRepeat
  <2>1. run[w].doing \in run[w].todo
    BY DEF Base, Place
  <2>2. Answers(p, run[w].doing)
    BY DEF Answers
  <2>3. Excused(w, p)
    BY <2>1, <2>2 DEF Once
  <2> QED BY <2>3 DEF Excused
<1> QED BY <1>1, <1>2, Based, OnceStep, PTL DEF Spec
=============================================================================
