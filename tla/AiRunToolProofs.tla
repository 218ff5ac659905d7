-------------------------- MODULE AiRunToolProofs --------------------------
(***************************************************************************)
(* Proofs about the tool calls and the provider calls of AiRun: a gated    *)
(* tool is started only after its approval; the count that a loop keeps in *)
(* memory bounds the provider calls of a run all the same; and a single    *)
(* drain loop, however often it dies, applies every tool call once.        *)
(***************************************************************************)
EXTENDS AiRunProofs, FiniteSetTheorems

-----------------------------------------------------------------------------
(* Tools.  An invocation that was never approved and is gated has not been *)
(* started, and a hand that is about to start one holds one that may be.   *)

Started == {"APPROVED", "EXECUTING", "SUCCEEDED", "FAILED"}
Using == {"approved", "executing", "toolOk", "toolFail"}

Fit(i) ==
  /\ i.status \in Started => i.approval \in {"NONE", "APPROVED"}
  /\ i.status \notin Started => i.execs = 0

Grip(w) ==
  worker[w].pc \in Using =>
    /\ worker[w].run \in Runs /\ worker[w].inv \in Slots
    /\ inv[worker[w].run][worker[w].inv].status \in Started

ToolInv ==
  /\ \A r \in Runs, n \in Slots : Fit(inv[r][n])
  /\ \A w \in Workers : Grip(w)

\* What a step may do to an invocation, and to a hand.
KeptRow(i, j) == (Fit(i) => Fit(j)) /\ (i.status \in Started => j.status \in Started)
RowsKept == \A r \in Runs, n \in Slots : KeptRow(inv[r][n], inv'[r][n])

HandKept(w) ==
  \/ worker'[w].pc \notin Using
  \/ /\ worker[w].pc \in Using
     /\ worker'[w].run = worker[w].run /\ worker'[w].inv = worker[w].inv
  \/ Grip(w)'

ToolsKept == RowsKept /\ \A w \in Workers : HandKept(w)

LEMMA KeptKeepsTools ==
  ASSUME ToolInv, ToolsKept
  PROVE  ToolInv'
  <1>1. \A r \in Runs, n \in Slots : Fit(inv'[r][n])
    BY DEF ToolInv, ToolsKept, RowsKept, KeptRow
  <1>2. ASSUME NEW w \in Workers PROVE Grip(w)'
    BY <1>2 DEF ToolInv, ToolsKept, RowsKept, KeptRow, HandKept, Grip
  <1> QED
    BY <1>1, <1>2 DEF ToolInv, Fit

LEMMA SameRowsKept == ASSUME inv' = inv PROVE RowsKept
  BY DEF RowsKept, KeptRow

LEMMA OneRowKept ==
  ASSUME TypeOK, NEW r \in Runs, NEW n \in Slots, NEW i, inv' = [inv EXCEPT ![r][n] = i],
         KeptRow(inv[r][n], i)
  PROVE  RowsKept
  BY DEF RowsKept, KeptRow, TypeOK

LEMMA DoneKept ==
  ASSUME TypeOK, NEW w \in Workers, Done(w)
  PROVE  \A v \in Workers : HandKept(v)
  BY DEF Done, Idle, HandKept, Using, TypeOK

LEMMA GotoKept ==
  ASSUME TypeOK, NEW w \in Workers, NEW pc, Goto(w, pc),
         pc \notin Using \/ worker[w].pc \in Using
  PROVE  \A v \in Workers : HandKept(v)
  <1>1. worker[w] \in Worker /\ \A v \in Workers \ {w} : worker'[v] = worker[v]
    BY DEF Goto, TypeOK
  <1>2. worker'[w].pc = pc /\ worker'[w].run = worker[w].run /\ worker'[w].inv = worker[w].inv
    BY <1>1 DEF Goto, TypeOK, Worker
  <1> QED
    BY <1>1, <1>2 DEF HandKept, Grip

LEMMA QuietHands ==
  ASSUME worker' = worker
  PROVE  \A v \in Workers : HandKept(v)
  BY DEF HandKept

\* The steps that leave the invocations alone and put none in a hand.
LEMMA PlainAttemptKept ==
  ASSUME TypeOK, NEW w \in Workers,
         \/ PreflightRun(w) \/ PreflightFence(w) \/ PreflightInputs(w) \/ LoopTop(w)
         \/ GatewayError(w) \/ OutputBlocked(w) \/ FinalizeRefusal(w) \/ Success(w)
         \/ AfterProviderFailure(w) \/ FailRun(w) \/ Abandon(w)
  PROVE  ToolsKept
  <1>1. inv' = inv
    BY DEF PreflightRun, PreflightFence, PreflightInputs, LoopTop, GatewayError, OutputBlocked,
           FinalizeRefusal, Success, AfterProviderFailure, FailRun, Abandon
  <1>2. Done(w) \/ \E pc \in Pc \ Using : Goto(w, pc)
    BY DEF PreflightRun, PreflightFence, PreflightInputs, LoopTop, GatewayError, OutputBlocked,
           FinalizeRefusal, Success, AfterProviderFailure, FailRun, Abandon, FinalizeSuperseded,
           Pc, Using
  <1> QED
    BY <1>1, <1>2, SameRowsKept, DoneKept, GotoKept DEF ToolsKept

LEMMA OtherHandsKept ==
  ASSUME TypeOK, NEW w \in Workers, NEW new, worker' = [worker EXCEPT ![w] = new],
         new.pc \notin Using
  PROVE  \A v \in Workers : HandKept(v)
  BY DEF HandKept, TypeOK

LEMMA MoveOnKept ==
  ASSUME TypeOK, NEW w \in Workers, StartAttempt(w) \/ RecordProviderCall(w) \/ Crash(w)
  PROVE  ToolsKept
  <1>1. inv' = inv
    BY DEF StartAttempt, RecordProviderCall, Crash
  <1>2. worker[w] \in Worker
    BY DEF TypeOK
  <1>3. CASE StartAttempt(w)
    <2>1. PICK r \in worker[w].todo :
            worker' = [worker EXCEPT ![w] = [worker[w] EXCEPT !.pc = "preflight", !.run = r,
                                                              !.todo = worker[w].todo \ {r}]]
      BY <1>3 DEF StartAttempt
    <2> DEFINE new == [worker[w] EXCEPT !.pc = "preflight", !.run = r, !.todo = worker[w].todo \ {r}]
    <2>2. new.pc = "preflight"
      BY <1>2 DEF Worker
    <2> HIDE DEF new
    <2> QED
      BY <1>1, <2>1, <2>2, SameRowsKept, OtherHandsKept DEF ToolsKept, new, Using
  <1>4. CASE RecordProviderCall(w)
    <2>1. CASE Done(w)
      BY <1>1, <2>1, SameRowsKept, DoneKept DEF ToolsKept
    <2>2. CASE worker' = [worker EXCEPT ![w].pc = "dispatch", ![w].known = @ + 1]
      <3> DEFINE new == [worker[w] EXCEPT !.pc = "dispatch", !.known = worker[w].known + 1]
      <3>1. new.pc = "dispatch" /\ worker' = [worker EXCEPT ![w] = new]
        BY <1>2, <2>2 DEF Worker
      <3> HIDE DEF new
      <3> QED
        BY <1>1, <3>1, SameRowsKept, OtherHandsKept DEF ToolsKept, Using
    <2> QED
      BY <1>4, <2>1, <2>2 DEF RecordProviderCall, FinalizeSuperseded
  <1>5. CASE Crash(w)
    BY <1>1, <1>5, SameRowsKept, OtherHandsKept DEF Crash, Idle, Using, ToolsKept
  <1> QED
    BY <1>3, <1>4, <1>5

\* Resume takes a decided invocation in hand; only an approved or a stranded one is executed.
LEMMA ResumeKept ==
  ASSUME TypeOK, NEW w \in Workers, Resume(w)
  PROVE  ToolsKept
  <1> DEFINE r == worker[w].run
  <1>1. inv' = inv /\ r \in Runs /\ worker[w] \in Worker
    BY DEF Resume, At, TypeOK
  <1>2. CASE \E pc \in {"loop", "rejecting", "failing"} : worker'[w].pc = pc
    <2>1. HandKept(w)
      BY <1>2 DEF HandKept, Using
    <2>2. \A v \in Workers \ {w} : HandKept(v)
      BY DEF Resume, HandKept, TypeOK
    <2> QED
      BY <1>1, <2>1, <2>2, SameRowsKept DEF ToolsKept
  <1>3. CASE \E n \in Pending(r) :
               /\ inv[r][n].status # "REJECTED"
               /\ worker' = [worker EXCEPT ![w] = [worker[w] EXCEPT !.pc = "approved",
                                                      !.known = run[r].calls, !.inv = n]]
    <2>1. PICK n \in Pending(r) :
               /\ inv[r][n].status # "REJECTED"
               /\ worker' = [worker EXCEPT ![w] = [worker[w] EXCEPT !.pc = "approved",
                                                      !.known = run[r].calls, !.inv = n]]
      BY <1>3
    <2>2. n \in Slots /\ inv[r][n].status \in Started
      BY <2>1 DEF Pending, Newest, Undone, Started
    <2>3. worker'[w].run = r /\ worker'[w].inv = n
      BY <1>1, <2>1 DEF TypeOK, Worker
    <2>4. Grip(w)'
      BY <1>1, <2>2, <2>3 DEF Grip
    <2>5. \A v \in Workers \ {w} : HandKept(v)
      BY <2>1 DEF HandKept, TypeOK
    <2> QED
      BY <1>1, <2>4, <2>5, SameRowsKept DEF ToolsKept, HandKept
  <1>4. CASE Pending(r) = {}
    <2>1. worker'[w].pc = "loop"
      BY <1>1, <1>4 DEF Resume, TypeOK, Worker
    <2> QED
      BY <2>1, <1>2
  <1>5. CASE Pending(r) # {}
    <2>1. PICK n \in Pending(r) : \E pc \in IF inv[r][n].status = "REJECTED" THEN {"rejecting"}
                                            ELSE {"approved", "failing"} :
            worker' = [worker EXCEPT ![w] = [worker[w] EXCEPT !.pc = pc, !.known = run[r].calls,
                                                              !.inv = n]]
      BY <1>5 DEF Resume
    <2>2. PICK pc \in IF inv[r][n].status = "REJECTED" THEN {"rejecting"} ELSE {"approved", "failing"} :
            worker' = [worker EXCEPT ![w] = [worker[w] EXCEPT !.pc = pc, !.known = run[r].calls,
                                                              !.inv = n]]
      BY <2>1
    <2>3. worker'[w].pc = pc
      BY <1>1, <2>2 DEF TypeOK, Worker
    <2>4. CASE pc = "approved"
      <3>1. inv[r][n].status # "REJECTED"
        BY <2>4
      <3> QED
        BY <2>2, <2>4, <3>1, <1>3
    <2> QED
      BY <2>3, <2>4, <1>2
  <1> QED
    BY <1>4, <1>5

\* A worker that rewrites the invocation in its hand, keeping it started.
LEMMA HandRowKept ==
  ASSUME TypeOK, ToolInv, NEW w \in Workers, worker[w].pc \in Using, NEW i,
         inv' = [inv EXCEPT ![worker[w].run][worker[w].inv] = i],
         i.status \in Started, i.approval = inv[worker[w].run][worker[w].inv].approval,
         NEW pc, Goto(w, pc)
  PROVE  ToolsKept
  <1>1. Grip(w) /\ Fit(inv[worker[w].run][worker[w].inv])
    BY DEF ToolInv, Grip
  <1>2. KeptRow(inv[worker[w].run][worker[w].inv], i)
    BY <1>1 DEF KeptRow, Fit, Grip
  <1> QED
    BY <1>1, <1>2, OneRowKept, GotoKept DEF Grip, ToolsKept

LEMMA ApplyRejectedKept ==
  ASSUME IInv, NEW w \in Workers, ApplyRejected(w)
  PROVE  ToolsKept
  <1> DEFINE r == worker[w].run
             n == worker[w].inv
  <1>1. TypeOK /\ worker[w].pc \in Held
    BY DEF ApplyRejected, At, Held, IInv
  <1>2. CASE FinalizeSuperseded(w) /\ UNCHANGED inv
    BY <1>1, <1>2, SameRowsKept, DoneKept DEF FinalizeSuperseded, ToolsKept
  <1>3. CASE inv' = [inv EXCEPT ![r][n].steps = More(@)] /\ Goto(w, "loop")
    <2> DEFINE i == [inv[r][n] EXCEPT !.steps = More(inv[r][n].steps)]
    <2>1. inv[r][n] \in Inv /\ r \in Runs /\ n \in Slots
      BY <1>1, InHandFacts
    <2>2. i.status = inv[r][n].status /\ i.approval = inv[r][n].approval
          /\ i.execs = inv[r][n].execs
      BY <2>1 DEF Inv
    <2>3. inv' = [inv EXCEPT ![r][n] = i]
      BY <1>3
    <2> HIDE DEF i
    <2>4. KeptRow(inv[r][n], i)
      BY <2>2 DEF KeptRow, Fit
    <2> QED
      BY <1>1, <1>3, <2>1, <2>3, <2>4, OneRowKept, GotoKept DEF ToolsKept, Using
  <1> QED
    BY <1>2, <1>3 DEF ApplyRejected

LEMMA ExecuteApprovedKept ==
  ASSUME IInv, ToolInv, NEW w \in Workers, ExecuteApproved(w)
  PROVE  ToolsKept
  <1> DEFINE r == worker[w].run
             n == worker[w].inv
  <1>1. TypeOK /\ worker[w].pc \in Held /\ worker[w].pc \in Using
    BY DEF ExecuteApproved, At, Held, Using, IInv
  <1>2. CASE FinalizeSuperseded(w) /\ UNCHANGED inv
    BY <1>1, <1>2, SameRowsKept, DoneKept DEF FinalizeSuperseded, ToolsKept
  <1>3. CASE inv' = [inv EXCEPT ![r][n].status = "EXECUTING"] /\ Goto(w, "executing")
    <2> DEFINE i == [inv[r][n] EXCEPT !.status = "EXECUTING"]
    <2>1. inv[r][n] \in Inv
      BY <1>1, InHandFacts
    <2>2. i.status = "EXECUTING" /\ i.approval = inv[r][n].approval
      BY <2>1 DEF Inv
    <2>3. inv' = [inv EXCEPT ![r][n] = i]
      BY <1>3
    <2> HIDE DEF i
    <2> QED
      BY <1>1, <1>3, <2>2, <2>3, HandRowKept DEF Started
  <1>4. CASE Goto(w, "failing") /\ UNCHANGED inv
    BY <1>1, <1>4, SameRowsKept, GotoKept DEF ToolsKept, Using
  <1> QED
    BY <1>2, <1>3, <1>4 DEF ExecuteApproved

LEMMA RunToolKept ==
  ASSUME IInv, ToolInv, NEW w \in Workers, RunTool(w)
  PROVE  ToolsKept
  <1> DEFINE r == worker[w].run
             n == worker[w].inv
             i == [inv[r][n] EXCEPT !.execs = More(inv[r][n].execs)]
  <1>1. TypeOK /\ worker[w].pc \in Held /\ worker[w].pc \in Using
    BY DEF RunTool, At, Held, Using, IInv
  <1>2. PICK pc \in {"toolOk", "toolFail"} : Goto(w, pc)
    BY DEF RunTool
  <1>3. inv[r][n] \in Inv /\ inv[r][n].status \in Started
    BY <1>1, InHandFacts DEF ToolInv, Grip
  <1>4. i.status = inv[r][n].status /\ i.approval = inv[r][n].approval
    BY <1>3 DEF Inv
  <1>5. inv' = [inv EXCEPT ![r][n] = i]
    BY DEF RunTool
  <1> HIDE DEF i
  <1> QED
    BY <1>1, <1>2, <1>3, <1>4, <1>5, HandRowKept

LEMMA CommitToolKept ==
  ASSUME IInv, ToolInv, NEW w \in Workers, CommitTool(w)
  PROVE  ToolsKept
  <1> DEFINE r == worker[w].run
             n == worker[w].inv
  <1>1. TypeOK /\ worker[w].pc \in Held /\ worker[w].pc \in Using
    BY DEF CommitTool, At, Held, Using, IInv
  <1>2. CASE FinalizeSuperseded(w) /\ UNCHANGED inv
    BY <1>1, <1>2, SameRowsKept, DoneKept DEF FinalizeSuperseded, ToolsKept
  <1>3. CASE /\ inv' = [inv EXCEPT ![r][n].status = "SUCCEEDED", ![r][n].steps = More(@)]
             /\ Goto(w, "loop")
    <2> DEFINE i == [inv[r][n] EXCEPT !.status = "SUCCEEDED", !.steps = More(inv[r][n].steps)]
    <2>1. inv[r][n] \in Inv
      BY <1>1, InHandFacts
    <2>2. i.status = "SUCCEEDED" /\ i.approval = inv[r][n].approval
      BY <2>1 DEF Inv
    <2>3. inv' = [inv EXCEPT ![r][n] = i]
      BY <1>3
    <2> HIDE DEF i
    <2> QED
      BY <1>1, <1>3, <2>2, <2>3, HandRowKept DEF Started
  <1> QED
    BY <1>2, <1>3 DEF CommitTool

LEMMA FailToolKept ==
  ASSUME IInv, ToolInv, NEW w \in Workers, FailTool(w)
  PROVE  ToolsKept
  <1> DEFINE r == worker[w].run
             n == worker[w].inv
             i == [inv[r][n] EXCEPT !.status = "FAILED"]
  <1>1. TypeOK /\ worker[w].pc \in Held /\ worker[w].pc \in Using /\ Goto(w, "failing")
    BY DEF FailTool, At, Held, Using, IInv
  <1>2. inv[r][n] \in Inv
    BY <1>1, InHandFacts
  <1>3. i.status = "FAILED" /\ i.approval = inv[r][n].approval
    BY <1>2 DEF Inv
  <1>4. inv' = [inv EXCEPT ![r][n] = i]
    BY DEF FailTool
  <1> HIDE DEF i
  <1> QED
    BY <1>1, <1>3, <1>4, HandRowKept DEF Started

\* A free slot may take a gated call, or a safe one: neither has been started.
LEMMA FreshRowKept ==
  ASSUME NEW i, i.status = "NONE", NEW s, NEW a, a \in {"NONE", "APPROVED"} \/ s \notin Started
  PROVE  KeptRow(i, NewInv(s, a)) /\ NewInv(s, a).status = s
  BY DEF KeptRow, Fit, NewInv, Started

LEMMA ParkKept ==
  ASSUME IInv, NEW w \in Workers, Park(w)
  PROVE  ToolsKept
  <1>1. TypeOK /\ Done(w) /\ worker[w].run \in Runs
    BY DEF Park, At, IInv
  <1>2. CASE inv' = inv
    BY <1>1, <1>2, SameRowsKept, DoneKept DEF ToolsKept
  <1>3. CASE \E n \in NextSlot(worker[w].run) :
               inv' = [inv EXCEPT ![worker[w].run][n] = NewInv("AWAITING_APPROVAL", "PENDING")]
    <2>1. PICK n \in NextSlot(worker[w].run) :
               inv' = [inv EXCEPT ![worker[w].run][n] = NewInv("AWAITING_APPROVAL", "PENDING")]
      BY <1>3
    <2>2. n \in Slots /\ inv[worker[w].run][n].status = "NONE"
      BY DEF NextSlot
    <2>3. KeptRow(inv[worker[w].run][n], NewInv("AWAITING_APPROVAL", "PENDING"))
      BY <2>2, FreshRowKept DEF Started
    <2> QED
      BY <1>1, <2>1, <2>2, <2>3, OneRowKept, DoneKept DEF ToolsKept
  <1> QED
    BY <1>2, <1>3 DEF Park

LEMMA DispatchKept ==
  ASSUME IInv, NEW w \in Workers, Dispatch(w)
  PROVE  ToolsKept
  <1> DEFINE r == worker[w].run
  <1>1. TypeOK /\ r \in Runs /\ worker[w] \in Worker
    BY DEF Dispatch, At, IInv, TypeOK
  <1>2. CASE FinalizeSuperseded(w) /\ UNCHANGED inv
    BY <1>1, <1>2, SameRowsKept, DoneKept DEF FinalizeSuperseded, ToolsKept
  <1>3. CASE \E n \in NextSlot(r), s \in {"EXECUTING", "FAILED"} :
             /\ inv' = [inv EXCEPT ![r][n] = NewInv(s, "NONE")]
             /\ worker' = [worker EXCEPT
                  ![w] = [@ EXCEPT !.inv = n,
                                   !.pc = IF s = "FAILED" THEN "failing" ELSE "executing"]]
    <2>1. PICK n \in NextSlot(r), s \in {"EXECUTING", "FAILED"} :
             /\ inv' = [inv EXCEPT ![r][n] = NewInv(s, "NONE")]
             /\ worker' = [worker EXCEPT
                  ![w] = [worker[w] EXCEPT !.inv = n,
                                   !.pc = IF s = "FAILED" THEN "failing" ELSE "executing"]]
      BY <1>3
    <2>2. n \in Slots /\ inv[r][n].status = "NONE"
      BY DEF NextSlot
    <2>3. KeptRow(inv[r][n], NewInv(s, "NONE")) /\ NewInv(s, "NONE").status = s
      BY <2>2, FreshRowKept
    <2>4. RowsKept
      BY <1>1, <2>1, <2>2, <2>3, OneRowKept
    <2>5. inv'[r][n].status \in Started
      BY <1>1, <2>1, <2>2, <2>3 DEF TypeOK, Started
    <2>6. worker'[w].run = r /\ worker'[w].inv = n /\ \A v \in Workers \ {w} : worker'[v] = worker[v]
      BY <1>1, <2>1 DEF TypeOK, Worker
    <2>7. Grip(w)'
      BY <1>1, <2>2, <2>5, <2>6 DEF Grip
    <2> QED
      BY <2>4, <2>6, <2>7 DEF ToolsKept, HandKept
  <1> QED
    BY <1>2, <1>3 DEF Dispatch

LEMMA WorkerKept ==
  ASSUME IInv, ToolInv, NEW w \in Workers, Attempt(w) \/ Fault(w)
  PROVE  ToolsKept
  BY PlainAttemptKept, MoveOnKept, ResumeKept, ApplyRejectedKept, ExecuteApprovedKept, RunToolKept,
     CommitToolKept, FailToolKept, ParkKept, DispatchKept DEF Attempt, Fault, IInv

LEMMA ClaimKept ==
  ASSUME TypeOK, NEW w \in Workers, ClaimDueBatch(w)
  PROVE  ToolsKept
  <1>1. inv' = inv
    BY DEF ClaimDueBatch
  <1>2. PICK S : worker' = [worker EXCEPT ![w].todo = S]
    BY DEF ClaimDueBatch
  <1>3. ASSUME NEW v \in Workers
        PROVE  worker'[v].pc = worker[v].pc /\ worker'[v].run = worker[v].run
               /\ worker'[v].inv = worker[v].inv
    <2>1. worker[v] \in Worker
      BY DEF TypeOK
    <2> QED
      BY <1>2, <2>1 DEF TypeOK, Worker
  <1> QED
    BY <1>1, <1>3, SameRowsKept DEF ToolsKept, HandKept

\* An open gate is closed by a decision or is voided; its call has not been started.
LEMMA GateRowKept ==
  ASSUME TypeOK, NEW r \in Runs, NEW n \in Slots, inv[r][n].status = "AWAITING_APPROVAL",
         NEW s \in {"APPROVED", "REJECTED", "SKIPPED"}, NEW a \in {s, "EXPIRED"},
         s = "APPROVED" => a = s
  PROVE  KeptRow(inv[r][n], [inv[r][n] EXCEPT !.status = s, !.approval = a])
  <1>1. inv[r][n] \in Inv
    BY DEF TypeOK
  <1> DEFINE i == [inv[r][n] EXCEPT !.status = s, !.approval = a]
  <1>2. i.status = s /\ i.approval = a /\ i.execs = inv[r][n].execs
    BY <1>1 DEF Inv
  <1> HIDE DEF i
  <1>3. KeptRow(inv[r][n], i)
    BY <1>2 DEF KeptRow, Fit, Started
  <1> QED
    BY <1>3 DEF i

LEMMA GateKept ==
  ASSUME TypeOK, NEW r \in Runs, NEW n \in Gated(r),
         \/ \E d \in {"APPROVED", "REJECTED"} : Decided(r, n, d)
         \/ \E s \in {"REJECTED", "SKIPPED"} : Voided(r, n, s),
         worker' = worker
  PROVE  ToolsKept
  <1>1. n \in Slots /\ inv[r][n].status = "AWAITING_APPROVAL"
    BY DEF Gated, IsPending
  <1>2. PICK s \in {"APPROVED", "REJECTED", "SKIPPED"}, a \in {"APPROVED", "REJECTED", "EXPIRED"} :
          /\ a \in {s, "EXPIRED"} /\ (s = "APPROVED" => a = s)
          /\ inv' = [inv EXCEPT ![r][n] = [inv[r][n] EXCEPT !.status = s, !.approval = a]]
    <2>1. CASE \E d \in {"APPROVED", "REJECTED"} : Decided(r, n, d)
      BY <2>1 DEF Decided
    <2>2. CASE \E s \in {"REJECTED", "SKIPPED"} : Voided(r, n, s)
      BY <2>2 DEF Voided
    <2> QED
      BY <2>1, <2>2
  <1>3. KeptRow(inv[r][n], [inv[r][n] EXCEPT !.status = s, !.approval = a])
    BY <1>1, <1>2, GateRowKept
  <1> DEFINE i == [inv[r][n] EXCEPT !.status = s, !.approval = a]
  <1>4. KeptRow(inv[r][n], i) /\ inv' = [inv EXCEPT ![r][n] = i]
    BY <1>2, <1>3
  <1> HIDE DEF i
  <1>5. RowsKept
    BY <1>1, <1>4, OneRowKept
  <1> QED
    BY <1>5, QuietHands DEF ToolsKept

LEMMA RowActionKept ==
  ASSUME IInv, NEW r \in Runs, Time(r) \/ Sweep(r) \/ User(r)
  PROVE  ToolsKept
  <1>1. worker' = worker
    BY DEF Time, LeaseExpires, DeadlinePasses, ApprovalTtlElapses, Sweep, ReapExpiredLease,
           ExpireDeadlinedRun, ExpireApproval, User, Create, Cancel, CancelQueued,
           CancelWaitingApproval, CancelRunning, Decide
  <1>2. CASE inv' = inv
    BY <1>1, <1>2, SameRowsKept, QuietHands DEF ToolsKept
  <1>3. CASE \E n \in Slots, d \in {"APPROVED", "REJECTED"} : Decide(r, n, d)
    BY <1>1, <1>3, GateKept DEF Decide, IInv
  <1>4. CASE \E n \in Slots : ExpireApproval(r, n)
    <2>1. PICK n \in Slots : ExpireApproval(r, n)
      BY <1>4
    <2>2. (IF run[r].late THEN "SKIPPED" ELSE "REJECTED") \in {"REJECTED", "SKIPPED"}
      OBVIOUS
    <2> QED
      BY <1>1, <2>1, <2>2, GateKept DEF ExpireApproval, IInv
  <1>5. CASE CancelWaitingApproval(r)
    <2>1. CASE \E n \in Gated(r) : Voided(r, n, "SKIPPED")
      BY <1>1, <2>1, GateKept DEF IInv
    <2> QED
      BY <1>2, <1>5, <2>1 DEF CancelWaitingApproval
  <1> QED
    BY <1>2, <1>3, <1>4, <1>5
    DEF Time, LeaseExpires, DeadlinePasses, ApprovalTtlElapses, Sweep, ReapExpiredLease,
        ExpireDeadlinedRun, User, Create, Cancel, CancelQueued, CancelRunning

LEMMA TakeoverKept ==
  ASSUME TypeOK, NEW h \in Humans, TakeControl(h) \/ ReleaseControl(h)
  PROVE  ToolsKept
  <1>1. worker' = worker
    BY DEF TakeControl, ReleaseControl
  <1>2. CASE ReleaseControl(h)
    BY <1>1, <1>2, SameRowsKept, QuietHands DEF ReleaseControl, ToolsKept
  <1>3. CASE TakeControl(h)
    <2>1. ASSUME NEW r \in Runs, NEW n \in Slots
          PROVE  KeptRow(inv[r][n], inv'[r][n])
      <3>1. CASE n \in Gated(r)
        <4>1. inv'[r][n] = [inv[r][n] EXCEPT !.status = "SKIPPED", !.approval = "EXPIRED"]
          BY <1>3, <3>1 DEF TakeControl
        <4>2. inv[r][n].status = "AWAITING_APPROVAL"
          BY <3>1 DEF Gated, IsPending
        <4> QED
          BY <4>1, <4>2, GateRowKept
      <3>2. CASE n \notin Gated(r)
        <4>1. inv'[r][n] = inv[r][n]
          BY <1>3, <3>2 DEF TakeControl
        <4> QED
          BY <4>1 DEF KeptRow
      <3> QED
        BY <3>1, <3>2
    <2> QED
      BY <1>1, <2>1, QuietHands DEF ToolsKept, RowsKept
  <1> QED
    BY <1>2, <1>3

LEMMA NextKept ==
  ASSUME IInv, ToolInv, [Next]_vars
  PROVE  ToolsKept
  <1>1. CASE UNCHANGED vars
    BY <1>1, SameRowsKept, QuietHands DEF vars, ToolsKept
  <1> QED
    BY <1>1, ClaimKept, WorkerKept, RowActionKept, TakeoverKept DEF Next, IInv

LEMMA InitTools == Init => ToolInv
  BY DEF Init, ToolInv, Fit, Grip, NoInv, NewInv, Idle, Started, Using

\* No gated tool is started unless its owner approved it, whatever crashes, reclaims, stale
\* workers and late decisions do.
THEOREM ApprovedOnlyHolds == Spec => []ApprovedOnly
<1>1. ToolInv => ApprovedOnly
  BY DEF ToolInv, Fit, ApprovedOnly, Started
<1>2. IInv /\ ToolInv /\ [Next]_vars => ToolInv'
  BY NextKept, KeptKeepsTools
<1> QED
  BY <1>1, <1>2, InitTools, InductiveInvariant, PTL DEF Spec

-----------------------------------------------------------------------------
(* Provider calls.  Every worker that is inside a call of a run may still  *)
(* count one.  What the loop of the lease's holder has not seen of the     *)
(* committed calls is no more than what the other workers can have added.  *)

Callers(r) == {w \in Workers : worker[w].pc = "provider" /\ worker[w].run = r}

\* Past Resume, the loop has read the count of the run.
Mid == {"rejecting", "approved", "loop", "provider", "dispatch", "executing", "toolOk",
        "toolFail", "failing"}
Hot(w, r) == Owns(w, r) /\ worker[w].run = r /\ worker[w].pc \in Mid

CallsPaid == \A r \in Runs : run[r].calls + Cardinality(Callers(r)) <= MaxSteps + Cardinality(Workers) - 1
CallsKnown ==
  \A w \in Workers, r \in Runs : Hot(w, r) =>
    run[r].calls + Cardinality(Callers(r) \ {w}) <= worker[w].known + Cardinality(Workers) - 1
CallInv == CallsPaid /\ CallsKnown

\* The four kinds of steps: what does not enter or leave a call with a count, ...
SameKnown(w, r) == Hot(w, r)' => Hot(w, r) /\ worker'[w].known = worker[w].known
SameCalls(r) == run'[r].calls = run[r].calls
Quiet(r) ==
  /\ SameCalls(r) /\ Callers(r)' \subseteq Callers(r)
  /\ \A w \in Workers : SameKnown(w, r)

\* ... the loop that reads the count, ...
Reads(w, r) ==
  /\ SameCalls(r) /\ Callers(r)' = Callers(r) /\ w \notin Callers(r)
  /\ Hot(w, r)' => worker'[w].known = run[r].calls
  /\ \A v \in Workers \ {w} : SameKnown(v, r)

\* ... the holder that calls the provider, ...
Asks(w, r) ==
  /\ SameCalls(r) /\ Callers(r)' = Callers(r) \cup {w}
  /\ Hot(w, r) /\ worker[w].known < MaxSteps
  /\ \A v \in Workers : SameKnown(v, r)

\* ... and the worker that counts its call.
Counts(w, r) ==
  /\ run'[r].calls = run[r].calls + 1
  /\ w \in Callers(r) /\ Callers(r)' = Callers(r) \ {w}
  /\ Hot(w, r)' => Hot(w, r) /\ worker'[w].known = worker[w].known + 1
  /\ \A v \in Workers \ {w} : SameKnown(v, r)

CallMove(r) == Quiet(r) \/ \E w \in Workers : Reads(w, r) \/ Asks(w, r) \/ Counts(w, r)

LEMMA CallersFinite ==
  ASSUME NEW S \in SUBSET Workers
  PROVE  /\ IsFiniteSet(S) /\ Cardinality(S) \in Nat /\ Cardinality(S) <= Cardinality(Workers)
         /\ Cardinality(Workers) \in Nat
  BY ConstantsAssumption, FS_Subset, FS_CardinalityType

\* Leaving one worker out of a set of callers.
LEMMA LessOne ==
  ASSUME NEW S \in SUBSET Workers, NEW w \in Workers
  PROVE  /\ Cardinality(S \ {w}) = IF w \in S THEN Cardinality(S) - 1 ELSE Cardinality(S)
         /\ Cardinality(S \cup {w}) = IF w \in S THEN Cardinality(S) ELSE Cardinality(S) + 1
         /\ Cardinality(S \ {w}) <= Cardinality(Workers) - 1
         /\ Cardinality(S) \in Nat /\ Cardinality(Workers) \in Nat /\ Cardinality(S \ {w}) \in Nat
  <1>1. IsFiniteSet(S) /\ IsFiniteSet(Workers) /\ IsFiniteSet(Workers \ {w})
    BY CallersFinite
  <1>2. Cardinality(S \ {w}) <= Cardinality(Workers \ {w})
    BY <1>1, FS_Subset
  <1>3. Cardinality(Workers \ {w}) = Cardinality(Workers) - 1
    BY <1>1, FS_RemoveElement
  <1>4. S \ {w} \in SUBSET Workers
    OBVIOUS
  <1> QED
    BY <1>1, <1>2, <1>3, <1>4, FS_RemoveElement, FS_AddElement, CallersFinite

LEMMA MoveKeepsPaid ==
  ASSUME TypeOK, TypeOK', CallInv, NEW r \in Runs, CallMove(r)
  PROVE  run'[r].calls + Cardinality(Callers(r)') <= MaxSteps + Cardinality(Workers) - 1
  <1>1. /\ run[r].calls \in Nat /\ run'[r].calls \in Nat /\ MaxSteps \in Nat
        /\ \A w \in Workers : worker[w].known \in Nat
    BY ConstantsAssumption DEF TypeOK, Run, Worker
  <1>2. Callers(r) \in SUBSET Workers /\ Callers(r)' \in SUBSET Workers
    BY DEF Callers
  <1>3. run[r].calls + Cardinality(Callers(r)) <= MaxSteps + Cardinality(Workers) - 1
    BY DEF CallInv, CallsPaid
  <1>4. CASE Quiet(r)
    <2>1. Cardinality(Callers(r)') <= Cardinality(Callers(r)) /\ Cardinality(Callers(r)') \in Nat
          /\ Cardinality(Callers(r)) \in Nat /\ Cardinality(Workers) \in Nat
      BY <1>2, <1>4, CallersFinite, FS_Subset DEF Quiet
    <2> QED
      BY <1>1, <1>3, <1>4, <2>1 DEF Quiet, SameCalls
  <1>5. ASSUME NEW w \in Workers, Reads(w, r)
        PROVE  run'[r].calls + Cardinality(Callers(r)') <= MaxSteps + Cardinality(Workers) - 1
    BY <1>3, <1>5 DEF Reads, SameCalls
  <1>6. ASSUME NEW w \in Workers, Asks(w, r)
        PROVE  run'[r].calls + Cardinality(Callers(r)') <= MaxSteps + Cardinality(Workers) - 1
    <2>1. run[r].calls + Cardinality(Callers(r) \ {w}) <= worker[w].known + Cardinality(Workers) - 1
      BY <1>6 DEF Asks, CallInv, CallsKnown
    <2>2. /\ Cardinality(Callers(r)') <= Cardinality(Callers(r) \ {w}) + 1
          /\ Cardinality(Callers(r)') \in Nat /\ Cardinality(Callers(r) \ {w}) \in Nat
          /\ Cardinality(Workers) \in Nat
      <3>1. Callers(r)' = Callers(r) \cup {w}
        BY <1>6 DEF Asks
      <3>2. /\ Cardinality(Callers(r) \ {w}) = IF w \in Callers(r) THEN Cardinality(Callers(r)) - 1
                                              ELSE Cardinality(Callers(r))
            /\ Cardinality(Callers(r) \cup {w}) = IF w \in Callers(r) THEN Cardinality(Callers(r))
                                                 ELSE Cardinality(Callers(r)) + 1
            /\ Cardinality(Callers(r)) \in Nat /\ Cardinality(Callers(r) \ {w}) \in Nat
            /\ Cardinality(Workers) \in Nat
        BY <1>2, LessOne
      <3> QED
        BY <3>1, <3>2
    <2> QED
      BY <1>1, <1>6, <2>1, <2>2 DEF Asks, SameCalls
  <1>7. ASSUME NEW w \in Workers, Counts(w, r)
        PROVE  run'[r].calls + Cardinality(Callers(r)') <= MaxSteps + Cardinality(Workers) - 1
    <2>1. Cardinality(Callers(r)') = Cardinality(Callers(r)) - 1 /\ Cardinality(Callers(r)) \in Nat
          /\ Cardinality(Workers) \in Nat
      BY <1>2, <1>7, LessOne DEF Counts
    <2> QED
      BY <1>1, <1>3, <1>7, <2>1 DEF Counts
  <1> QED
    BY <1>4, <1>5, <1>6, <1>7 DEF CallMove

LEMMA MoveKeepsKnown ==
  ASSUME TypeOK, TypeOK', CallInv, NEW r \in Runs, CallMove(r), NEW w \in Workers, Hot(w, r)'
  PROVE  run'[r].calls + Cardinality(Callers(r)' \ {w})
           <= worker'[w].known + Cardinality(Workers) - 1
  <1>1. /\ run[r].calls \in Nat /\ run'[r].calls \in Nat
        /\ worker[w].known \in Nat /\ worker'[w].known \in Nat
    BY DEF TypeOK, Run, Worker
  <1>2. /\ Callers(r) \in SUBSET Workers /\ Callers(r)' \in SUBSET Workers
        /\ Callers(r) \ {w} \in SUBSET Workers /\ Callers(r)' \ {w} \in SUBSET Workers
    BY DEF Callers
  <1>3. /\ Cardinality(Callers(r) \ {w}) \in Nat /\ Cardinality(Callers(r)' \ {w}) \in Nat
        /\ Cardinality(Workers) \in Nat
    BY <1>2, CallersFinite
  <1>4. Hot(w, r) => run[r].calls + Cardinality(Callers(r) \ {w})
                       <= worker[w].known + Cardinality(Workers) - 1
    BY DEF CallInv, CallsKnown
  <1>5. CASE Quiet(r)
    <2>1. Callers(r)' \ {w} \in SUBSET (Callers(r) \ {w})
      BY <1>5 DEF Quiet
    <2>2. Cardinality(Callers(r)' \ {w}) <= Cardinality(Callers(r) \ {w})
      BY <1>2, <2>1, CallersFinite, FS_Subset
    <2>3. Hot(w, r) /\ worker'[w].known = worker[w].known /\ run'[r].calls = run[r].calls
      BY <1>5 DEF Quiet, SameKnown, SameCalls
    <2> QED
      BY <1>1, <1>3, <1>4, <2>2, <2>3
  <1>6. ASSUME NEW v \in Workers, Reads(v, r)
        PROVE  run'[r].calls + Cardinality(Callers(r)' \ {w})
                 <= worker'[w].known + Cardinality(Workers) - 1
    <2>1. Callers(r)' = Callers(r) /\ run'[r].calls = run[r].calls
      BY <1>6 DEF Reads, SameCalls
    <2>2. CASE v = w
      <3>1. worker'[w].known = run[r].calls
        BY <1>6, <2>2 DEF Reads
      <3>2. Cardinality(Callers(r)' \ {w}) <= Cardinality(Workers) - 1
        BY <1>2, LessOne
      <3> QED
        BY <1>1, <1>3, <2>1, <3>1, <3>2
    <2>3. CASE v # w
      BY <1>4, <1>6, <2>1, <2>3 DEF Reads, SameKnown
    <2> QED
      BY <2>2, <2>3
  <1>7. ASSUME NEW v \in Workers, Asks(v, r)
        PROVE  run'[r].calls + Cardinality(Callers(r)' \ {w})
                 <= worker'[w].known + Cardinality(Workers) - 1
    <2>1. Hot(w, r) /\ Hot(v, r) /\ worker'[w].known = worker[w].known /\ run'[r].calls = run[r].calls
      BY <1>7 DEF Asks, SameKnown, SameCalls
    <2>2. v = w
      BY <2>1 DEF Hot, Owns
    <2>3. Callers(r)' \ {w} = Callers(r) \ {w}
      BY <1>7, <2>2 DEF Asks
    <2> QED
      BY <1>4, <2>1, <2>3
  <1>8. ASSUME NEW v \in Workers, Counts(v, r)
        PROVE  run'[r].calls + Cardinality(Callers(r)' \ {w})
                 <= worker'[w].known + Cardinality(Workers) - 1
    <2>1. run'[r].calls = run[r].calls + 1 /\ v \in Callers(r) /\ Callers(r)' = Callers(r) \ {v}
      BY <1>8 DEF Counts
    <2>2. CASE v = w
      <3>1. Callers(r)' \ {w} = Callers(r) \ {w}
        BY <2>1, <2>2
      <3>2. Hot(w, r) /\ worker'[w].known = worker[w].known + 1
        BY <1>8, <2>2 DEF Counts
      <3>3. Cardinality(Callers(r)' \ {w}) = Cardinality(Callers(r) \ {w})
        BY <3>1
      <3>4. run[r].calls + Cardinality(Callers(r) \ {w}) <= worker[w].known + Cardinality(Workers) - 1
        BY <1>4, <3>2
      <3> QED
        BY <1>1, <1>3, <2>1, <3>2, <3>3, <3>4
    <2>3. CASE v # w
      <3>1. Hot(w, r) /\ worker'[w].known = worker[w].known
        BY <1>8, <2>3 DEF Counts, SameKnown
      <3>2. Callers(r)' \ {w} = (Callers(r) \ {w}) \ {v} /\ v \in Callers(r) \ {w}
        BY <2>1, <2>3
      <3>3. Cardinality(Callers(r)' \ {w}) = Cardinality(Callers(r) \ {w}) - 1
        BY <1>2, <3>2, LessOne
      <3> QED
        BY <1>1, <1>3, <1>4, <2>1, <3>1, <3>3
    <2> QED
      BY <2>2, <2>3
  <1> QED
    BY <1>5, <1>6, <1>7, <1>8 DEF CallMove

LEMMA MovesKeepCalls ==
  ASSUME TypeOK, TypeOK', CallInv, \A r \in Runs : CallMove(r)
  PROVE  CallInv'
  BY MoveKeepsPaid, MoveKeepsKnown DEF CallInv, CallsPaid, CallsKnown

\* What each action does to a hand, and to the counts and leases of the runs.
HandStill(w) ==
  \/ worker'[w].pc \notin Mid
  \/ /\ worker[w].pc \in Mid /\ worker'[w].run = worker[w].run /\ worker'[w].known = worker[w].known
     /\ worker'[w].pc = "provider" => worker[w].pc = "provider"
RunStill(r) ==
  SameCalls(r) /\ \A w \in Workers : worker[w].pc # "idle" /\ Owns(w, r)' => Owns(w, r)

\* A new row that keeps its holder, if it has one.
KeepsHolder(i, j) == j.status = "RUNNING" => i.status = "RUNNING" /\ j.lease = i.lease

LEMMA StillIsQuiet ==
  ASSUME NEW r \in Runs, RunStill(r), \A w \in Workers : HandStill(w)
  PROVE  CallMove(r)
  <1>1. Callers(r)' \subseteq Callers(r)
    BY DEF Callers, HandStill, Mid
  <1>2. ASSUME NEW w \in Workers PROVE SameKnown(w, r)
    BY DEF SameKnown, Hot, HandStill, RunStill, Mid
  <1> QED
    BY <1>1, <1>2 DEF CallMove, Quiet, RunStill

LEMMA SameRunStill == ASSUME run' = run PROVE \A r \in Runs : RunStill(r)
  BY DEF RunStill, SameCalls, Owns

LEMMA SameHandStill == ASSUME NEW w \in Workers, worker'[w] = worker[w] PROVE HandStill(w)
  BY DEF HandStill

LEMMA OneRunStill ==
  ASSUME TypeOK, NEW r \in Runs, NEW j, run' = [run EXCEPT ![r] = j],
         j.calls = run[r].calls, KeepsHolder(run[r], j)
  PROVE  \A q \in Runs : RunStill(q)
  BY DEF RunStill, SameCalls, Owns, KeepsHolder, TypeOK

LEMMA CasStill ==
  ASSUME TypeOK, NEW w \in Workers, NEW r \in Runs, NEW s, s # "RUNNING", Cas(w, r, s)
  PROVE  \A q \in Runs : RunStill(q)
  <1>1. CASE ~Owns(w, r)
    BY <1>1, SameRunStill DEF Cas
  <1>2. CASE Owns(w, r)
    <2> DEFINE j == Released(run[r], s)
    <2>1. run' = [run EXCEPT ![r] = j]
      BY <1>2 DEF Cas
    <2>2. run[r] \in Run
      BY DEF TypeOK
    <2>3. j.calls = run[r].calls /\ j.status = s
      BY <2>2 DEF Released, Run
    <2> HIDE DEF j
    <2> QED
      BY <2>1, <2>3, OneRunStill DEF KeepsHolder
  <1> QED
    BY <1>1, <1>2

LEMMA DoneStill ==
  ASSUME TypeOK, NEW w \in Workers, Done(w)
  PROVE  \A v \in Workers : HandStill(v)
  BY DEF Done, Idle, HandStill, Mid, TypeOK

LEMMA GotoStill ==
  ASSUME TypeOK, NEW w \in Workers, NEW pc, Goto(w, pc), pc # "provider",
         pc \in Mid => worker[w].pc \in Mid
  PROVE  \A v \in Workers : HandStill(v)
  <1>1. worker[w] \in Worker /\ \A v \in Workers \ {w} : worker'[v] = worker[v]
    BY DEF Goto, TypeOK
  <1>2. worker'[w].pc = pc /\ worker'[w].run = worker[w].run /\ worker'[w].known = worker[w].known
    BY <1>1 DEF Goto, TypeOK, Worker
  <1> QED
    BY <1>1, <1>2 DEF HandStill

\* A call that is counted.
LEMMA CountMoves ==
  ASSUME TypeOK, NEW w \in Workers, NEW r \in Runs, worker[w].run = r, worker[w].pc = "provider",
         NEW j, run' = [run EXCEPT ![r] = j], j.calls = run[r].calls + 1, KeepsHolder(run[r], j),
         \A v \in Workers \ {w} : worker'[v] = worker[v],
         worker'[w].pc # "provider",
         worker'[w].pc \in Mid => /\ worker'[w].run = r
                                  /\ worker'[w].known = worker[w].known + 1
  PROVE  \A q \in Runs : CallMove(q)
  <1>1. run'[r] = j /\ \A q \in Runs \ {r} : run'[q] = run[q]
    BY DEF TypeOK
  <1>2. \A v \in Workers, q \in Runs : Owns(v, q)' => Owns(v, q)
    BY <1>1 DEF Owns, KeepsHolder
  <1>3. Counts(w, r)
    <2>1. w \in Callers(r) /\ Callers(r)' = Callers(r) \ {w}
      BY DEF Callers
    <2>2. Hot(w, r)' => Hot(w, r) /\ worker'[w].known = worker[w].known + 1
      BY <1>2 DEF Hot, Mid
    <2>3. \A v \in Workers \ {w} : SameKnown(v, r)
      BY <1>2 DEF SameKnown, Hot
    <2> QED
      BY <1>1, <2>1, <2>2, <2>3 DEF Counts
  <1>4. ASSUME NEW q \in Runs \ {r} PROVE Quiet(q)
    <2>1. Callers(q)' \subseteq Callers(q)
      BY DEF Callers
    <2>2. \A v \in Workers : SameKnown(v, q)
      BY <1>2 DEF SameKnown, Hot
    <2> QED
      BY <1>1, <2>1, <2>2 DEF Quiet, SameCalls
  <1> QED
    BY <1>3, <1>4 DEF CallMove

LEMMA AskMoves ==
  ASSUME TypeOK, NEW w \in Workers, NEW r \in Runs, worker[w].run = r, worker[w].pc = "loop",
         Owns(w, r), worker[w].known < MaxSteps, Goto(w, "provider"),
         NEW j, run' = [run EXCEPT ![r] = j], j.calls = run[r].calls, KeepsHolder(run[r], j)
  PROVE  \A q \in Runs : CallMove(q)
  <1>1. run'[r] = j /\ \A q \in Runs \ {r} : run'[q] = run[q]
    BY DEF TypeOK
  <1>2. \A v \in Workers, q \in Runs : Owns(v, q)' => Owns(v, q)
    BY <1>1 DEF Owns, KeepsHolder
  <1>3. worker[w] \in Worker /\ \A v \in Workers \ {w} : worker'[v] = worker[v]
    BY DEF Goto, TypeOK
  <1>4. /\ worker'[w].pc = "provider" /\ worker'[w].run = worker[w].run
        /\ worker'[w].known = worker[w].known
    BY <1>3 DEF Goto, TypeOK, Worker
  <1>5. \A v \in Workers, q \in Runs : SameKnown(v, q)
    BY <1>2, <1>3, <1>4 DEF SameKnown, Hot, Mid
  <1>6. Asks(w, r)
    <2>1. Callers(r)' = Callers(r) \cup {w}
      BY <1>3, <1>4 DEF Callers
    <2> QED
      BY <1>1, <1>5, <2>1 DEF Asks, SameCalls, Hot, Mid
  <1>7. ASSUME NEW q \in Runs \ {r} PROVE Quiet(q)
    <2>1. Callers(q)' \subseteq Callers(q)
      BY <1>3, <1>4 DEF Callers
    <2> QED
      BY <1>1, <1>5, <2>1 DEF Quiet, SameCalls
  <1> QED
    BY <1>6, <1>7 DEF CallMove

LEMMA ReadMoves ==
  ASSUME TypeOK, NEW w \in Workers, Resume(w)
  PROVE  \A q \in Runs : CallMove(q)
  <1>0. PICK r \in Runs : r = worker[w].run
    BY DEF Resume, At
  <1>1. /\ run' = run /\ worker[w].pc = "resume" /\ worker[w] \in Worker
        /\ \A v \in Workers \ {w} : worker'[v] = worker[v]
    BY DEF Resume, At, TypeOK
  <1>2. /\ worker'[w].pc \in {"loop", "rejecting", "approved", "failing"}
        /\ worker'[w].run = r /\ worker'[w].known = run[r].calls
    <2>1. CASE worker' = [worker EXCEPT ![w] = [worker[w] EXCEPT !.pc = "loop", !.known = run[r].calls]]
      BY <1>0, <1>1, <2>1 DEF TypeOK, Worker
    <2>2. ASSUME NEW n, NEW pc \in {"rejecting", "approved", "failing"},
                 worker' = [worker EXCEPT ![w] = [worker[w] EXCEPT !.pc = pc, !.known = run[r].calls,
                                                                   !.inv = n]]
          PROVE  /\ worker'[w].pc = pc /\ worker'[w].run = r /\ worker'[w].known = run[r].calls
      BY <1>0, <1>1, <2>2 DEF TypeOK, Worker
    <2>3. \/ worker' = [worker EXCEPT ![w] = [worker[w] EXCEPT !.pc = "loop", !.known = run[r].calls]]
          \/ \E n \in Pending(r), pc \in {"rejecting", "approved", "failing"} :
               worker' = [worker EXCEPT ![w] = [worker[w] EXCEPT !.pc = pc, !.known = run[r].calls,
                                                                 !.inv = n]]
      BY <1>0 DEF Resume
    <2> QED
      BY <2>1, <2>2, <2>3
  <1>3. \A v \in Workers, q \in Runs : Owns(v, q)' => Owns(v, q)
    BY <1>1 DEF Owns
  <1>4. Reads(w, r)
    <2>1. Callers(r)' = Callers(r) /\ w \notin Callers(r)
      BY <1>0, <1>1, <1>2 DEF Callers
    <2>2. \A v \in Workers \ {w} : SameKnown(v, r)
      BY <1>1, <1>3 DEF SameKnown, Hot
    <2> QED
      BY <1>1, <1>2, <2>1, <2>2 DEF Reads, SameCalls
  <1>5. ASSUME NEW q \in Runs \ {r} PROVE Quiet(q)
    <2>1. Callers(q)' \subseteq Callers(q)
      BY <1>0, <1>1, <1>2 DEF Callers
    <2>2. \A v \in Workers : SameKnown(v, q)
      BY <1>0, <1>1, <1>2, <1>3 DEF SameKnown, Hot
    <2> QED
      BY <1>1, <2>1, <2>2 DEF Quiet, SameCalls
  <1> QED
    BY <1>1, <1>4, <1>5 DEF CallMove

AllMove == \A r \in Runs : CallMove(r)

LEMMA QuietStep ==
  ASSUME \A r \in Runs : RunStill(r), \A w \in Workers : HandStill(w)
  PROVE  AllMove
  BY StillIsQuiet DEF AllMove

\* What ends in a compare-and-swap, or goes on without asking the provider.
LEMMA CasCalls ==
  ASSUME TypeOK, NEW w \in Workers, NEW r \in Runs, NEW s, s # "RUNNING", Cas(w, r, s), Done(w)
  PROVE  AllMove
  BY CasStill, DoneStill, QuietStep

LEMMA CasRetryCalls ==
  ASSUME TypeOK, NEW w \in Workers, NEW r \in Runs, CasRetry(w, r), Done(w)
  PROVE  AllMove
  <1>1. (IF run[r].attempts >= MaxAttempts THEN "FAILED" ELSE "QUEUED") # "RUNNING"
    OBVIOUS
  <1> QED
    BY <1>1, CasCalls DEF CasRetry

LEMMA SupersededCalls ==
  ASSUME TypeOK, NEW w \in Workers, worker[w].run \in Runs, FinalizeSuperseded(w)
  PROVE  AllMove
  BY CasCalls DEF FinalizeSuperseded

LEMMA DoneCalls ==
  ASSUME TypeOK, NEW w \in Workers, run' = run, Done(w)
  PROVE  AllMove
  BY SameRunStill, DoneStill, QuietStep

LEMMA GotoCalls ==
  ASSUME TypeOK, NEW w \in Workers, run' = run, NEW pc, Goto(w, pc), pc # "provider",
         pc \in Mid => worker[w].pc \in Mid
  PROVE  AllMove
  BY SameRunStill, GotoStill, QuietStep

LEMMA HandCalls ==
  ASSUME TypeOK, NEW w \in Workers, run' = run, NEW new, worker' = [worker EXCEPT ![w] = new],
         \/ new.pc \notin Mid
         \/ /\ new.pc # "provider" /\ worker[w].pc \in Mid
            /\ new.run = worker[w].run /\ new.known = worker[w].known
  PROVE  AllMove
  <1>1. worker'[w] = new /\ \A v \in Workers \ {w} : worker'[v] = worker[v]
    BY DEF TypeOK
  <1>2. HandStill(w)
    BY <1>1 DEF HandStill
  <1> QED
    BY <1>1, <1>2, SameHandStill, SameRunStill, QuietStep

LEMMA PreflightCalls ==
  ASSUME TypeOK, NEW w \in Workers, PreflightRun(w) \/ PreflightFence(w) \/ PreflightInputs(w)
  PROVE  AllMove
  <1>1. CASE PreflightRun(w)
    BY <1>1, CasCalls, GotoCalls DEF PreflightRun, At, Mid
  <1>2. CASE PreflightFence(w)
    BY <1>2, CasCalls, SupersededCalls, GotoCalls DEF PreflightFence, At, Mid
  <1>3. CASE PreflightInputs(w)
    BY <1>3, CasCalls, CasRetryCalls, GotoCalls DEF PreflightInputs, At, Mid
  <1> QED
    BY <1>1, <1>2, <1>3

LEMMA MoveOnCalls ==
  ASSUME TypeOK, NEW w \in Workers, StartAttempt(w) \/ Crash(w) \/ Abandon(w)
  PROVE  AllMove
  <1>1. CASE StartAttempt(w)
    <2>1. PICK r \in worker[w].todo :
            worker' = [worker EXCEPT ![w] = [worker[w] EXCEPT !.pc = "preflight", !.run = r,
                                                              !.todo = worker[w].todo \ {r}]]
      BY <1>1 DEF StartAttempt
    <2> DEFINE new == [worker[w] EXCEPT !.pc = "preflight", !.run = r, !.todo = worker[w].todo \ {r}]
    <2>2. new.pc = "preflight" /\ worker' = [worker EXCEPT ![w] = new]
      BY <2>1 DEF TypeOK, Worker
    <2> HIDE DEF new
    <2> QED
      BY <1>1, <2>2, HandCalls DEF StartAttempt, Mid
  <1>2. CASE Crash(w)
    BY <1>2, HandCalls DEF Crash, Idle, Mid
  <1>3. CASE Abandon(w)
    BY <1>3, DoneCalls DEF Abandon
  <1> QED
    BY <1>1, <1>2, <1>3

LEMMA ToolCalls ==
  ASSUME TypeOK, NEW w \in Workers,
         \/ ApplyRejected(w) \/ ExecuteApproved(w) \/ RunTool(w) \/ CommitTool(w) \/ FailTool(w)
         \/ FailRun(w)
  PROVE  AllMove
  <1>1. CASE ApplyRejected(w)
    BY <1>1, SupersededCalls, GotoCalls DEF ApplyRejected, At, Mid
  <1>2. CASE ExecuteApproved(w)
    BY <1>2, SupersededCalls, GotoCalls DEF ExecuteApproved, At, Mid
  <1>3. CASE RunTool(w)
    BY <1>3, GotoCalls DEF RunTool, At, Mid
  <1>4. CASE CommitTool(w)
    BY <1>4, SupersededCalls, GotoCalls DEF CommitTool, At, Mid
  <1>5. CASE FailTool(w)
    BY <1>5, GotoCalls DEF FailTool, At, Mid
  <1>6. CASE FailRun(w)
    <2>1. (IF Stale(worker[w].run) THEN "CANCELLED" ELSE "FAILED") # "RUNNING"
      OBVIOUS
    <2> QED
      BY <1>6, <2>1, CasCalls DEF FailRun, At
  <1> QED
    BY <1>1, <1>2, <1>3, <1>4, <1>5, <1>6

LEMMA DispatchCalls ==
  ASSUME TypeOK, NEW w \in Workers, Dispatch(w)
  PROVE  AllMove
  <1>1. worker[w].run \in Runs /\ worker[w].pc = "dispatch" /\ worker[w] \in Worker
    BY DEF Dispatch, At, TypeOK
  <1>2. CASE FinalizeSuperseded(w)
    BY <1>1, <1>2, SupersededCalls
  <1>3. CASE ~FinalizeSuperseded(w)
    <2>1. PICK n \in Slots, pc \in {"failing", "executing"} :
            worker' = [worker EXCEPT ![w] = [worker[w] EXCEPT !.inv = n, !.pc = pc]]
      <3>1. PICK n \in NextSlot(worker[w].run), s \in {"EXECUTING", "FAILED"} :
              worker' = [worker EXCEPT ![w] = [worker[w] EXCEPT !.inv = n,
                                  !.pc = IF s = "FAILED" THEN "failing" ELSE "executing"]]
        BY <1>3 DEF Dispatch
      <3>2. n \in Slots /\ (IF s = "FAILED" THEN "failing" ELSE "executing") \in {"failing", "executing"}
        BY DEF NextSlot
      <3> QED
        BY <3>1, <3>2
    <2> DEFINE new == [worker[w] EXCEPT !.inv = n, !.pc = pc]
    <2>2. new.pc = pc /\ new.run = worker[w].run /\ new.known = worker[w].known
      BY <1>1 DEF Worker
    <2>3. worker' = [worker EXCEPT ![w] = new] /\ run' = run
      BY <1>3, <2>1 DEF Dispatch
    <2> HIDE DEF new
    <2> QED
      BY <1>1, <2>2, <2>3, HandCalls DEF Mid
  <1> QED
    BY <1>2, <1>3

LEMMA LoopTopCalls ==
  ASSUME TypeOK, NEW w \in Workers, LoopTop(w)
  PROVE  AllMove
  <1>1. PICK r \in Runs : r = worker[w].run
    BY DEF LoopTop, At
  <1>2. worker[w].pc = "loop" /\ run[r] \in Run /\ worker[w].known \in Nat /\ MaxSteps \in Nat
    BY ConstantsAssumption DEF LoopTop, At, TypeOK, Worker
  <1>3. CASE Done(w) /\ UNCHANGED run
    BY <1>3, DoneCalls
  <1>4. CASE FinalizeSuperseded(w) \/ (Cas(w, r, "EXPIRED") /\ Done(w))
    BY <1>1, <1>4, SupersededCalls, CasCalls
  <1>5. CASE /\ Owns(w, r)
             /\ Goto(w, IF worker[w].known >= MaxSteps THEN "failing" ELSE "provider")
             /\ run' = [run EXCEPT ![r].live = TRUE]
    <2> DEFINE j == [run[r] EXCEPT !.live = TRUE]
    <2>1. j.calls = run[r].calls /\ j.status = run[r].status /\ j.lease = run[r].lease
      BY <1>2 DEF Run
    <2>2. run' = [run EXCEPT ![r] = j]
      BY <1>5
    <2> HIDE DEF j
    <2>3. KeepsHolder(run[r], j)
      BY <2>1 DEF KeepsHolder
    <2>4. CASE worker[w].known >= MaxSteps
      BY <1>2, <1>5, <2>1, <2>2, <2>3, <2>4, OneRunStill, GotoStill, QuietStep DEF Mid
    <2>5. CASE worker[w].known < MaxSteps
      <3>1. Goto(w, "provider")
        BY <1>2, <1>5, <2>5
      <3> QED
        BY <1>1, <1>2, <1>5, <2>1, <2>2, <2>3, <2>5, <3>1, AskMoves DEF AllMove
    <2> QED
      BY <1>2, <2>4, <2>5
  <1> QED
    BY <1>1, <1>3, <1>4, <1>5 DEF LoopTop

\* A terminal turn keeps or counts the calls; the run has no holder afterwards.
LEMMA SpokenCalls ==
  ASSUME NEW i \in Run, NEW s \in Status, s # "RUNNING"
  PROVE  /\ Spoken(i, s).calls = i.calls /\ Spoken(i, s).status = s
         /\ Counted(Spoken(i, s)).calls = i.calls + 1 /\ Counted(Spoken(i, s)).status = s
         /\ Counted(Released(i, s)).calls = i.calls + 1 /\ Counted(Released(i, s)).status = s
         /\ Counted(i).calls = i.calls + 1 /\ Counted(i).status = i.status
         /\ Counted(i).lease = i.lease
  BY DEF Spoken, Released, Counted, Run

LEMMA RefusalCalls ==
  ASSUME TypeOK, NEW w \in Workers, FinalizeRefusal(w)
  PROVE  AllMove
  <1>1. PICK r \in Runs : r = worker[w].run
    BY DEF FinalizeRefusal, At
  <1>2. Done(w) /\ run[r] \in Run /\ "FAILED" \in Status
    BY DEF FinalizeRefusal, TypeOK, Status, Terminal
  <1>3. CASE Cas(w, r, "CANCELLED") \/ run' = run
    BY <1>2, <1>3, CasCalls, DoneCalls
  <1>4. CASE run' = [run EXCEPT ![r] = Spoken(run[r], "FAILED")]
    <2> DEFINE j == Spoken(run[r], "FAILED")
    <2>1. j.calls = run[r].calls /\ j.status = "FAILED"
      BY <1>2, SpokenCalls
    <2> HIDE DEF j
    <2>2. KeepsHolder(run[r], j)
      BY <2>1 DEF KeepsHolder
    <2>3. run' = [run EXCEPT ![r] = j]
      BY <1>4 DEF j
    <2> QED
      BY <1>2, <2>1, <2>2, <2>3, OneRunStill, DoneStill, QuietStep
  <1> QED
    BY <1>1, <1>3, <1>4 DEF FinalizeRefusal

LEMMA CountedCalls ==
  ASSUME TypeOK, NEW w \in Workers, NEW r \in Runs, r = worker[w].run, worker[w].pc = "provider",
         Done(w), NEW j, run' = [run EXCEPT ![r] = j], j.calls = run[r].calls + 1,
         j.status # "RUNNING"
  PROVE  AllMove
  <1>1. KeepsHolder(run[r], j)
    BY DEF KeepsHolder
  <1>2. \A v \in Workers \ {w} : worker'[v] = worker[v]
    BY DEF Done, TypeOK
  <1>3. worker'[w].pc = "idle"
    BY DEF Done, Idle, TypeOK
  <1> QED
    BY <1>1, <1>2, <1>3, CountMoves DEF AllMove, Mid

LEMMA ProviderCalls ==
  ASSUME TypeOK, NEW w \in Workers,
         \/ GatewayError(w) \/ OutputBlocked(w) \/ Success(w) \/ AfterProviderFailure(w) \/ Park(w)
  PROVE  AllMove
  <1>1. PICK r \in Runs : r = worker[w].run
    BY DEF GatewayError, OutputBlocked, Success, AfterProviderFailure, Park, At
  <1>2. /\ worker[w].pc = "provider" /\ run[r] \in Run
        /\ {"COMPLETED", "FAILED", "WAITING_APPROVAL"} \subseteq Status
    BY DEF GatewayError, OutputBlocked, Success, AfterProviderFailure, Park, At, TypeOK, Status,
           Terminal
  <1>3. CASE GatewayError(w)
    BY <1>1, <1>3, CasCalls, CasRetryCalls DEF GatewayError
  <1>4. CASE OutputBlocked(w)
    BY <1>4, GotoCalls DEF OutputBlocked, Mid
  <1>5. CASE Success(w)
    <2> DEFINE j == Counted(Spoken(run[r], "COMPLETED"))
    <2>1. j.calls = run[r].calls + 1 /\ j.status # "RUNNING"
      BY <1>2, SpokenCalls
    <2>2. Done(w) /\ (Cas(w, r, "CANCELLED") \/ run' = run \/ run' = [run EXCEPT ![r] = j])
      BY <1>1, <1>5 DEF Success
    <2> HIDE DEF j
    <2> QED
      BY <1>1, <1>2, <2>1, <2>2, CasCalls, DoneCalls, CountedCalls
  <1>6. CASE AfterProviderFailure(w)
    <2> DEFINE j == Counted(Released(run[r], "FAILED"))
    <2>1. j.calls = run[r].calls + 1 /\ j.status # "RUNNING"
      BY <1>2, SpokenCalls
    <2>2. Done(w) /\ (Cas(w, r, "CANCELLED") \/ run' = run \/ run' = [run EXCEPT ![r] = j])
      BY <1>1, <1>6 DEF AfterProviderFailure
    <2> HIDE DEF j
    <2> QED
      BY <1>1, <1>2, <2>1, <2>2, CasCalls, DoneCalls, CountedCalls
  <1>7. CASE Park(w)
    <2> DEFINE k == Counted(Released(run[r], "WAITING_APPROVAL"))
               j == [k EXCEPT !.overdue = FALSE]
    <2>1. k.calls = run[r].calls + 1 /\ k.status = "WAITING_APPROVAL"
      BY <1>2, SpokenCalls
    <2>2. k \in Run
      BY <1>2, CountedType, ReleasedType
    <2> HIDE DEF k
    <2>3. j.calls = run[r].calls + 1 /\ j.status # "RUNNING"
      BY <2>1, <2>2 DEF Run
    <2>4. Done(w) /\ (Cas(w, r, "CANCELLED") \/ run' = run \/ run' = [run EXCEPT ![r] = j])
      BY <1>1, <1>7 DEF Park, k
    <2> HIDE DEF j
    <2> QED
      BY <1>1, <1>2, <2>3, <2>4, CasCalls, DoneCalls, CountedCalls
  <1> QED
    BY <1>3, <1>4, <1>5, <1>6, <1>7

LEMMA RecordCalls ==
  ASSUME TypeOK, NEW w \in Workers, RecordProviderCall(w)
  PROVE  AllMove
  <1>1. PICK r \in Runs : r = worker[w].run
    BY DEF RecordProviderCall, At
  <1>2. worker[w].pc = "provider" /\ run[r] \in Run /\ worker[w] \in Worker
    BY DEF RecordProviderCall, At, TypeOK
  <1>3. CASE FinalizeSuperseded(w)
    BY <1>1, <1>3, SupersededCalls
  <1>4. CASE /\ run' = [run EXCEPT ![r] = Counted(@)]
             /\ worker' = [worker EXCEPT ![w].pc = "dispatch", ![w].known = @ + 1]
    <2> DEFINE j == Counted(run[r])
    <2>1. j.calls = run[r].calls + 1 /\ j.status = run[r].status /\ j.lease = run[r].lease
      BY <1>2 DEF Counted, Run
    <2>2. run' = [run EXCEPT ![r] = j]
      BY <1>4
    <2> HIDE DEF j
    <2>3. KeepsHolder(run[r], j)
      BY <2>1 DEF KeepsHolder
    <2>4. /\ worker'[w].pc = "dispatch" /\ worker'[w].run = r
          /\ worker'[w].known = worker[w].known + 1
          /\ \A v \in Workers \ {w} : worker'[v] = worker[v]
      BY <1>1, <1>2, <1>4 DEF TypeOK, Worker
    <2> QED
      BY <1>1, <1>2, <2>1, <2>2, <2>3, <2>4, CountMoves DEF AllMove
  <1> QED
    BY <1>1, <1>3, <1>4 DEF RecordProviderCall

LEMMA WorkerCalls ==
  ASSUME TypeOK, NEW w \in Workers, Attempt(w) \/ Fault(w)
  PROVE  AllMove
  BY PreflightCalls, MoveOnCalls, ToolCalls, DispatchCalls, LoopTopCalls, RefusalCalls,
     ProviderCalls, RecordCalls, ReadMoves DEF Attempt, Fault, AllMove

\* A claim hands out leases to idle workers only; their attempts have not begun.
LEMMA ClaimCalls ==
  ASSUME TypeOK, NEW w \in Workers, ClaimDueBatch(w)
  PROVE  AllMove
  <1>1. PICK S \in SUBSET {r \in Runs : run[r].status = "QUEUED" /\ ~run[r].late} :
          /\ run' = [r \in Runs |->
                       IF r \in S
                       THEN [run[r] EXCEPT !.status = "RUNNING", !.lease = w, !.live = TRUE,
                                           !.attempts = @ + 1]
                       ELSE run[r]]
          /\ worker' = [worker EXCEPT ![w].todo = S]
    BY DEF ClaimDueBatch
  <1>2. worker[w].pc = "idle"
    BY DEF ClaimDueBatch
  <1>3. ASSUME NEW v \in Workers PROVE HandStill(v)
    <2>1. worker[v] \in Worker
      BY DEF TypeOK
    <2>2. worker'[v].pc = worker[v].pc /\ worker'[v].run = worker[v].run
          /\ worker'[v].known = worker[v].known
      BY <1>1, <2>1 DEF TypeOK, Worker
    <2> QED
      BY <2>2 DEF HandStill
  <1>4. ASSUME NEW r \in Runs PROVE RunStill(r)
    <2>1. run[r] \in Run
      BY DEF TypeOK
    <2>2. CASE r \notin S
      BY <1>1, <2>2 DEF RunStill, SameCalls, Owns
    <2>3. CASE r \in S
      <3> DEFINE k == run[r].attempts + 1
                 j == [run[r] EXCEPT !.status = "RUNNING", !.lease = w, !.live = TRUE, !.attempts = k]
      <3>1. run'[r] = j
        BY <1>1, <2>3
      <3> HIDE DEF k
      <3>2. j.calls = run[r].calls /\ j.lease = w
        BY <2>1 DEF Run
      <3> HIDE DEF j
      <3> QED
        BY <1>2, <3>1, <3>2 DEF RunStill, SameCalls, Owns
    <2> QED
      BY <2>2, <2>3
  <1> QED
    BY <1>3, <1>4, QuietStep

LEMMA RowCalls ==
  ASSUME TypeOK, NEW r \in Runs, NEW j, run' = [run EXCEPT ![r] = j],
         j.calls = run[r].calls, KeepsHolder(run[r], j), worker' = worker
  PROVE  AllMove
  BY OneRunStill, SameHandStill, QuietStep

LEMMA NoRowCalls == ASSUME run' = run, worker' = worker PROVE AllMove
  BY SameRunStill, SameHandStill, QuietStep

\* A row whose status, lease or flags change, but that is not claimed.
LEMMA StatusCalls ==
  ASSUME TypeOK, NEW r \in Runs, NEW s, s # "RUNNING", run' = [run EXCEPT ![r].status = s],
         worker' = worker
  PROVE  AllMove
  <1> DEFINE j == [run[r] EXCEPT !.status = s]
  <1>1. run[r] \in Run
    BY DEF TypeOK
  <1>2. j.calls = run[r].calls /\ j.status = s /\ run' = [run EXCEPT ![r] = j]
    BY <1>1 DEF Run
  <1> HIDE DEF j
  <1> QED
    BY <1>2, RowCalls DEF KeepsHolder

LEMMA TimeCalls ==
  ASSUME TypeOK, NEW r \in Runs, Time(r)
  PROVE  AllMove
  <1>1. run[r] \in Run /\ worker' = worker
    BY DEF TypeOK, Time, LeaseExpires, DeadlinePasses, ApprovalTtlElapses
  <1>2. CASE LeaseExpires(r)
    <2> DEFINE j == [run[r] EXCEPT !.live = FALSE]
    <2>1. /\ j.calls = run[r].calls /\ j.status = run[r].status /\ j.lease = run[r].lease
          /\ run' = [run EXCEPT ![r] = j]
      BY <1>1, <1>2 DEF Run, LeaseExpires
    <2> HIDE DEF j
    <2> QED
      BY <1>1, <2>1, RowCalls DEF KeepsHolder
  <1>3. CASE DeadlinePasses(r)
    <2> DEFINE j == [run[r] EXCEPT !.late = TRUE]
    <2>1. /\ j.calls = run[r].calls /\ j.status = run[r].status /\ j.lease = run[r].lease
          /\ run' = [run EXCEPT ![r] = j]
      BY <1>1, <1>3 DEF Run, DeadlinePasses
    <2> HIDE DEF j
    <2> QED
      BY <1>1, <2>1, RowCalls DEF KeepsHolder
  <1>4. CASE ApprovalTtlElapses(r)
    <2> DEFINE j == [run[r] EXCEPT !.overdue = TRUE]
    <2>1. /\ j.calls = run[r].calls /\ j.status = run[r].status /\ j.lease = run[r].lease
          /\ run' = [run EXCEPT ![r] = j]
      BY <1>1, <1>4 DEF Run, ApprovalTtlElapses
    <2> HIDE DEF j
    <2> QED
      BY <1>1, <2>1, RowCalls DEF KeepsHolder
  <1> QED
    BY <1>2, <1>3, <1>4 DEF Time

LEMMA ReleasedCalls ==
  ASSUME NEW i \in Run, NEW s, s # "RUNNING"
  PROVE  Released(i, s).calls = i.calls /\ Released(i, s).status = s
  BY DEF Released, Run

LEMMA SweepCalls ==
  ASSUME TypeOK, NEW r \in Runs, Sweep(r)
  PROVE  AllMove
  <1>1. run[r] \in Run /\ worker' = worker
    BY DEF TypeOK, Sweep, ReapExpiredLease, ExpireDeadlinedRun, ExpireApproval
  <1>2. CASE ReapExpiredLease(r)
    <2> DEFINE s == IF run[r].late THEN "EXPIRED"
                    ELSE IF run[r].attempts >= MaxAttempts THEN "FAILED" ELSE "QUEUED"
               j == Released(run[r], s)
    <2>1. s # "RUNNING" /\ run' = [run EXCEPT ![r] = j]
      BY <1>2 DEF ReapExpiredLease
    <2> HIDE DEF s
    <2>2. j.calls = run[r].calls /\ j.status = s
      BY <1>1, <2>1, ReleasedCalls
    <2> HIDE DEF j
    <2> QED
      BY <1>1, <2>1, <2>2, RowCalls DEF KeepsHolder
  <1>3. CASE ExpireDeadlinedRun(r)
    BY <1>1, <1>3, StatusCalls DEF ExpireDeadlinedRun
  <1>4. CASE \E n \in Slots : ExpireApproval(r, n)
    <2> DEFINE s == IF run[r].late THEN "EXPIRED" ELSE "FAILED"
    <2>1. s # "RUNNING" /\ run' = [run EXCEPT ![r].status = s]
      BY <1>4 DEF ExpireApproval
    <2> HIDE DEF s
    <2> QED
      BY <1>1, <2>1, StatusCalls
  <1> QED
    BY <1>2, <1>3, <1>4 DEF Sweep

LEMMA UserCalls ==
  ASSUME TypeOK, NEW r \in Runs, User(r)
  PROVE  AllMove
  <1>1. run[r] \in Run /\ worker' = worker
    BY DEF TypeOK, User, Create, Cancel, CancelQueued, CancelWaitingApproval, CancelRunning, Decide
  <1>2. CASE Create(r)
    <2> DEFINE j == [run[r] EXCEPT !.status = "QUEUED", !.gen = conv.gen]
    <2>1. j.calls = run[r].calls /\ j.status = "QUEUED"
      BY <1>1 DEF Run
    <2>2. run' = [run EXCEPT ![r] = j]
      BY <1>2 DEF Create
    <2> HIDE DEF j
    <2> QED
      BY <1>1, <2>1, <2>2, RowCalls DEF KeepsHolder
  <1>3. CASE Cancel(r) \/ CancelQueued(r) \/ CancelWaitingApproval(r)
    BY <1>1, <1>3, NoRowCalls, StatusCalls DEF Cancel, CancelQueued, CancelWaitingApproval
  <1>4. CASE CancelRunning(r)
    <2>1. CASE run' = run
      BY <1>1, <2>1, NoRowCalls
    <2>2. CASE run' = [run EXCEPT ![r].cancelReq = TRUE]
      <3> DEFINE j == [run[r] EXCEPT !.cancelReq = TRUE]
      <3>1. /\ j.calls = run[r].calls /\ j.status = run[r].status /\ j.lease = run[r].lease
            /\ run' = [run EXCEPT ![r] = j]
        BY <1>1, <2>2 DEF Run
      <3> HIDE DEF j
      <3> QED
        BY <1>1, <3>1, RowCalls DEF KeepsHolder
    <2> QED
      BY <1>4, <2>1, <2>2 DEF CancelRunning
  <1>5. CASE \E n \in Slots, d \in {"APPROVED", "REJECTED"} : Decide(r, n, d)
    <2> DEFINE a == IF run[r].attempts > 0 THEN run[r].attempts - 1 ELSE run[r].attempts
               j == [run[r] EXCEPT !.status = "QUEUED", !.attempts = a]
    <2>1. run' = [run EXCEPT ![r] = j]
      BY <1>5 DEF Decide
    <2> HIDE DEF a
    <2>2. j.calls = run[r].calls /\ j.status = "QUEUED"
      BY <1>1 DEF Run
    <2> HIDE DEF j
    <2> QED
      BY <1>1, <2>1, <2>2, RowCalls DEF KeepsHolder
  <1> QED
    BY <1>2, <1>3, <1>4, <1>5 DEF User

LEMMA TakeoverCalls ==
  ASSUME TypeOK, NEW h \in Humans, TakeControl(h) \/ ReleaseControl(h)
  PROVE  AllMove
  <1>1. worker' = worker
    BY DEF TakeControl, ReleaseControl
  <1>2. CASE ReleaseControl(h)
    BY <1>1, <1>2, NoRowCalls DEF ReleaseControl
  <1>3. CASE TakeControl(h)
    <2>1. ASSUME NEW r \in Runs PROVE RunStill(r)
      <3>1. run[r] \in Run
        BY DEF TypeOK
      <3>2. CASE run'[r] = run[r]
        BY <3>2 DEF RunStill, SameCalls, Owns
      <3>3. CASE run'[r] = Released(run[r], "CANCELLED")
        BY <3>1, <3>3, ReleasedCalls DEF RunStill, SameCalls, Owns
      <3> QED
        BY <1>3, <3>2, <3>3 DEF TakeControl
    <2> QED
      BY <1>1, <2>1, SameHandStill, QuietStep
  <1> QED
    BY <1>2, <1>3

LEMMA NextCalls ==
  ASSUME TypeOK, [Next]_vars
  PROVE  AllMove
  <1>1. CASE UNCHANGED vars
    BY <1>1, NoRowCalls DEF vars
  <1> QED
    BY <1>1, ClaimCalls, WorkerCalls, TimeCalls, SweepCalls, UserCalls, TakeoverCalls DEF Next

LEMMA InitCalls == Init => CallInv
  <1> SUFFICES ASSUME Init PROVE CallInv
    OBVIOUS
  <1>1. \A r \in Runs : Callers(r) = {}
    BY DEF Init, Callers, Idle
  <1>2. Cardinality({}) = 0 /\ Cardinality(Workers) \in Nat /\ MaxSteps \in Nat \ {0}
    BY FS_EmptySet, CallersFinite, ConstantsAssumption
  <1>3. ASSUME NEW r \in Runs
        PROVE  run[r].calls + Cardinality(Callers(r)) <= MaxSteps + Cardinality(Workers) - 1
    <2>1. run[r].calls = 0
      BY DEF Init
    <2>2. Cardinality(Callers(r)) = 0
      BY <1>1, <1>2
    <2> QED
      BY <1>2, <2>1, <2>2
  <1>4. CallsKnown
    BY DEF CallsKnown, Hot, Owns, Init
  <1> QED
    BY <1>3, <1>4 DEF CallInv, CallsPaid

\* The count a loop keeps in memory bounds the provider calls of a run: whatever attempts
\* overlap, each further worker adds one call at most.
THEOREM StepBudgetHolds == Spec => []StepBudget
<1>1. TypeOK /\ CallInv => StepBudget
  <2> SUFFICES ASSUME TypeOK, CallInv, NEW r \in Runs
               PROVE  run[r].calls <= MaxSteps + Cardinality(Workers) - 1
    BY DEF StepBudget
  <2>1. run[r].calls + Cardinality(Callers(r)) <= MaxSteps + Cardinality(Workers) - 1
    BY DEF CallInv, CallsPaid
  <2>2. Cardinality(Callers(r)) \in Nat /\ Cardinality(Workers) \in Nat
    <3>1. Callers(r) \in SUBSET Workers
      BY DEF Callers
    <3> QED
      BY <3>1, CallersFinite
  <2>3. run[r].calls \in Nat /\ MaxSteps \in Nat
    BY ConstantsAssumption DEF TypeOK, Run
  <2> QED
    BY <2>1, <2>2, <2>3
<1>2. TypeOK /\ TypeOK' /\ CallInv /\ [Next]_vars => CallInv'
  BY NextCalls, MovesKeepCalls DEF AllMove
<1> QED
  BY <1>1, <1>2, InitCalls, TypeCorrect, PTL DEF Spec

-----------------------------------------------------------------------------
(* Tool calls under a single drain loop.  At most one invocation of a run  *)
(* is open, it is the newest one, and the loop that asks the provider has  *)
(* left none open.                                                         *)

OneDrainLoop == \A v, w \in Workers : v = w

\* Gated, decided or started, and neither voided nor applied to the transcript.
Open(r) ==
  {n \in Slots : \/ inv[r][n].status \in {"AWAITING_APPROVAL", "APPROVED", "EXECUTING"}
                 \/ inv[r][n].status = "REJECTED" /\ inv[r][n].steps = 0}

Sane(i) ==
  /\ i.status = "AWAITING_APPROVAL" => i.approval = "PENDING"
  /\ i.steps # 0 => i.steps = 1 /\ i.status \in {"SUCCEEDED", "REJECTED"}

Ledger(r) ==
  /\ \A n \in Slots : Sane(inv[r][n])
  /\ \A n, m \in Slots : inv[r][n].status # "NONE" /\ m < n => inv[r][m].status # "NONE"
  /\ \A n \in Open(r), m \in Slots : n < m => inv[r][m].status = "NONE"

Answered(r) == run[r].status = "COMPLETED" => \A n \in Slots : inv[r][n].status # "APPROVED"

Clear == {"loop", "provider", "dispatch"}

\* What a loop may do with the run r it works on.
Grasp(w, r) ==
  /\ run[r].status # "WAITING_APPROVAL"
  /\ worker[w].pc \in Clear => Open(r) = {}
  /\ worker[w].pc \in Using =>
       worker[w].inv \in Open(r) /\ inv[r][worker[w].inv].status \in {"APPROVED", "EXECUTING"}
  /\ worker[w].pc = "rejecting" =>
       worker[w].inv \in Open(r) /\ inv[r][worker[w].inv].status = "REJECTED"

Takes(w) ==
  /\ \A q \in worker[w].todo : run[q].status # "WAITING_APPROVAL"
  /\ worker[w].pc # "idle" =>
       \E r \in Runs \ worker[w].todo : worker[w].run = r /\ Grasp(w, r)

OnceInv ==
  /\ \A r \in Runs : Ledger(r) /\ Answered(r)
  /\ \A w \in Workers : Takes(w)

LEMMA SlotsAreInts == Slots \subseteq Int
  BY ConstantsAssumption DEF Slots

LEMMA OneOpen ==
  ASSUME NEW r \in Runs, Ledger(r), NEW n \in Open(r), NEW m \in Open(r)
  PROVE  n = m
  <1>1. n \in Int /\ m \in Int /\ n \in Slots /\ m \in Slots
    BY SlotsAreInts DEF Open
  <1>2. inv[r][n].status # "NONE" /\ inv[r][m].status # "NONE"
    BY DEF Open
  <1>3. ~(n < m) /\ ~(m < n)
    BY <1>1, <1>2 DEF Ledger
  <1> QED
    BY <1>1, <1>3

LEMMA SameLedger ==
  ASSUME NEW r \in Runs, inv'[r] = inv[r], Ledger(r)
  PROVE  Ledger(r)' /\ Open(r)' = Open(r)
  <1>1. Open(r)' = Open(r)
    BY DEF Open
  <1> QED
    BY <1>1 DEF Ledger

\* A free slot is filled while nothing is open.
LEMMA FilledLedger ==
  ASSUME NEW r \in Runs, Ledger(r), Open(r) = {}, NEW n \in NextSlot(r), NEW i,
         inv'[r][n] = i, \A m \in Slots \ {n} : inv'[r][m] = inv[r][m],
         i.status # "NONE", Sane(i)
  PROVE  Ledger(r)' /\ Open(r)' \subseteq {n}
  <1>1. n \in Slots /\ n \in Int /\ inv[r][n].status = "NONE"
        /\ \A m \in Slots : m < n => inv[r][m].status # "NONE"
    BY SlotsAreInts DEF NextSlot
  <1>2. Open(r)' \subseteq {n}
    BY DEF Open
  <1>3. \A m \in Slots : Sane(inv'[r][m])
    BY <1>1 DEF Ledger
  <1>4. ASSUME NEW k \in Slots, NEW m \in Slots, inv'[r][k].status # "NONE", m < k
        PROVE  inv'[r][m].status # "NONE"
    BY <1>1, <1>4 DEF Ledger
  <1>5. ASSUME NEW m \in Slots, n < m PROVE inv'[r][m].status = "NONE"
    <2>1. m # n
      BY <1>1, <1>5
    <2>2. inv[r][m].status = "NONE"
      BY <1>1, <1>5 DEF Ledger
    <2> QED
      BY <2>1, <2>2
  <1>6. \A k \in Open(r)', m \in Slots : k < m => inv'[r][m].status = "NONE"
    BY <1>2, <1>5
  <1> QED
    BY <1>2, <1>3, <1>4, <1>6 DEF Ledger, Sane

\* The open invocation moves on.
LEMMA ShiftedLedger ==
  ASSUME NEW r \in Runs, Ledger(r), NEW n \in Open(r), NEW i,
         inv'[r][n] = i, \A m \in Slots \ {n} : inv'[r][m] = inv[r][m],
         i.status # "NONE", Sane(i)
  PROVE  Ledger(r)' /\ Open(r)' \subseteq {n}
  <1>1. n \in Slots /\ n \in Int /\ inv[r][n].status # "NONE"
    BY SlotsAreInts DEF Open
  <1>2. Open(r)' \subseteq {n}
    <2>1. ASSUME NEW m \in Open(r)', m # n PROVE m \in Open(r)
      BY <2>1 DEF Open
    <2> QED
      BY <2>1, OneOpen
  <1>3. \A m \in Slots : Sane(inv'[r][m])
    BY <1>1 DEF Ledger
  <1>4. ASSUME NEW k \in Slots, NEW m \in Slots, inv'[r][k].status # "NONE", m < k
        PROVE  inv'[r][m].status # "NONE"
    BY <1>1, <1>4 DEF Ledger
  <1>5. ASSUME NEW m \in Slots, n < m PROVE inv'[r][m].status = "NONE"
    <2>1. m # n
      BY <1>1, <1>5
    <2>2. inv[r][m].status = "NONE"
      BY <1>1, <1>5 DEF Ledger
    <2> QED
      BY <2>1, <2>2
  <1>6. \A k \in Open(r)', m \in Slots : k < m => inv'[r][m].status = "NONE"
    BY <1>2, <1>5
  <1> QED
    BY <1>2, <1>3, <1>4, <1>6 DEF Ledger, Sane

\* A run nobody waits for has no gated invocation.
LEMMA NoneGated ==
  ASSUME IInv, NEW r \in Runs, Ledger(r), run[r].status # "WAITING_APPROVAL", NEW n \in Slots
  PROVE  inv[r][n].status # "AWAITING_APPROVAL"
  <1>1. Gated(r) = {}
    BY DEF Gated
  <1>2. inv[r][n].approval # "PENDING"
    BY <1>1 DEF IInv, ParkedGate
  <1> QED
    BY <1>2 DEF Ledger, Sane

\* What a step leaves of a run that it neither parks nor completes.
Unparked(r) == run'[r].status \in {"WAITING_APPROVAL", "COMPLETED"} => run'[r].status = run[r].status
AllUnparked == \A r \in Runs : Unparked(r)

LEMMA SameRunUnparked == ASSUME run' = run PROVE AllUnparked
  BY DEF AllUnparked, Unparked

LEMMA OneUnparked ==
  ASSUME TypeOK, NEW r \in Runs, NEW j, run' = [run EXCEPT ![r] = j],
         j.status = run[r].status \/ j.status \notin {"WAITING_APPROVAL", "COMPLETED"}
  PROVE  AllUnparked
  BY DEF AllUnparked, Unparked, TypeOK

LEMMA CasUnparked ==
  ASSUME TypeOK, NEW w \in Workers, NEW r \in Runs, NEW s,
         s \notin {"WAITING_APPROVAL", "COMPLETED"}, Cas(w, r, s)
  PROVE  AllUnparked
  <1>1. run[r] \in Run
    BY DEF TypeOK
  <1> DEFINE j == Released(run[r], s)
  <1>2. j.status = s
    BY <1>1 DEF Released, Run
  <1>3. run' = run \/ run' = [run EXCEPT ![r] = j]
    BY DEF Cas
  <1> HIDE DEF j
  <1> QED
    BY <1>2, <1>3, SameRunUnparked, OneUnparked

LEMMA CasRetryUnparked ==
  ASSUME TypeOK, NEW w \in Workers, NEW r \in Runs, CasRetry(w, r)
  PROVE  AllUnparked
  <1>1. (IF run[r].attempts >= MaxAttempts THEN "FAILED" ELSE "QUEUED")
          \notin {"WAITING_APPROVAL", "COMPLETED"}
    OBVIOUS
  <1> QED
    BY <1>1, CasUnparked DEF CasRetry

\* The invocations stay and no run completes: the ledgers stay sound.
LEMMA QuietLedgers ==
  ASSUME OnceInv, inv' = inv, AllUnparked
  PROVE  \A r \in Runs : Ledger(r)' /\ Answered(r)' /\ Open(r)' = Open(r)
  <1>1. \A r \in Runs : Ledger(r)' /\ Open(r)' = Open(r)
    BY SameLedger DEF OnceInv
  <1>2. \A r \in Runs : Answered(r)'
    BY DEF OnceInv, Answered, AllUnparked, Unparked
  <1> QED
    BY <1>1, <1>2

LEMMA DoneFacts ==
  ASSUME TypeOK, NEW w \in Workers, Done(w)
  PROVE  worker'[w].pc = "idle" /\ worker'[w].todo = worker[w].todo
  BY DEF Done, Idle, TypeOK

LEMMA GotoFacts ==
  ASSUME TypeOK, NEW w \in Workers, NEW pc, Goto(w, pc)
  PROVE  /\ worker'[w].pc = pc /\ worker'[w].todo = worker[w].todo
         /\ worker'[w].run = worker[w].run /\ worker'[w].inv = worker[w].inv
  <1>1. worker[w] \in Worker
    BY DEF TypeOK
  <1> QED
    BY <1>1 DEF Goto, TypeOK, Worker

LEMMA TodoRuns ==
  ASSUME TypeOK, NEW w \in Workers
  PROVE  worker[w].todo \subseteq Runs
  BY DEF TypeOK, Worker

\* The only loop is w.
LEMMA AloneOnce ==
  ASSUME OneDrainLoop, NEW w \in Workers, Takes(w)', \A r \in Runs : Ledger(r)' /\ Answered(r)'
  PROVE  OnceInv'
  <1>1. \A v \in Workers : v = w
    BY DEF OneDrainLoop
  <1> QED
    BY <1>1 DEF OnceInv

\* The loop drops the run in its hand, or goes on with it.
LEMMA DropTakes ==
  ASSUME TypeOK, NEW w \in Workers, Takes(w), Done(w), AllUnparked
  PROVE  Takes(w)'
  <1>1. worker'[w].pc = "idle" /\ worker'[w].todo = worker[w].todo
    BY DoneFacts
  <1> QED
    BY <1>1, TodoRuns DEF Takes, AllUnparked, Unparked

LEMMA DropOnce ==
  ASSUME OneDrainLoop, TypeOK, OnceInv, NEW w \in Workers, Done(w), inv' = inv, AllUnparked
  PROVE  OnceInv'
  <1>1. Takes(w)'
    BY DropTakes DEF OnceInv
  <1> QED
    BY <1>1, AloneOnce, QuietLedgers

LEMMA HandTakes ==
  ASSUME TypeOK, NEW w \in Workers, Takes(w), AllUnparked, NEW r \in Runs \ worker[w].todo,
         worker'[w].run = r, worker'[w].todo = worker[w].todo, Grasp(w, r)'
  PROVE  Takes(w)'
  BY TodoRuns DEF Takes, AllUnparked, Unparked

LEMMA GoOnOnce ==
  ASSUME OneDrainLoop, TypeOK, OnceInv, NEW w \in Workers, NEW pc, Goto(w, pc),
         pc \notin Using \cup {"idle", "rejecting"}, worker[w].pc # "idle",
         pc \in Clear => worker[w].pc \in Clear, inv' = inv, AllUnparked
  PROVE  OnceInv'
  <1>1. /\ worker'[w].pc = pc /\ worker'[w].todo = worker[w].todo
        /\ worker'[w].run = worker[w].run
    BY GotoFacts
  <1>2. \A r \in Runs : Ledger(r)' /\ Answered(r)' /\ Open(r)' = Open(r)
    BY QuietLedgers
  <1>3. Takes(w)
    BY DEF OnceInv
  <1>4. PICK r \in Runs \ worker[w].todo : worker[w].run = r /\ Grasp(w, r)
    BY <1>3 DEF Takes
  <1>5. Grasp(w, r)'
    BY <1>1, <1>2, <1>4 DEF Grasp, AllUnparked, Unparked
  <1>6. Takes(w)'
    BY <1>1, <1>3, <1>4, <1>5, HandTakes
  <1> QED
    BY <1>2, <1>6, AloneOnce

\* A step of time, of a sweep or of a user: only a run that waits for its gate changes its
\* invocations.
LEMMA CalmOnce ==
  ASSUME TypeOK, OnceInv, worker' = worker, AllUnparked, \A r \in Runs : Ledger(r)' /\ Answered(r)',
         \A r \in Runs : run[r].status # "WAITING_APPROVAL" => inv'[r] = inv[r]
  PROVE  OnceInv'
  <1>1. ASSUME NEW w \in Workers PROVE Takes(w)'
    <2>1. Takes(w)
      BY DEF OnceInv
    <2>2. \A r \in worker[w].todo : run'[r].status # "WAITING_APPROVAL"
      BY <2>1, TodoRuns DEF Takes, AllUnparked, Unparked
    <2>3. CASE worker[w].pc = "idle"
      BY <2>2, <2>3 DEF Takes
    <2>4. CASE worker[w].pc # "idle"
      <3>1. PICK r \in Runs \ worker[w].todo : worker[w].run = r /\ Grasp(w, r)
        BY <2>1, <2>4 DEF Takes
      <3>2. run[r].status # "WAITING_APPROVAL" /\ run'[r].status # "WAITING_APPROVAL"
        BY <3>1 DEF Grasp, AllUnparked, Unparked
      <3>3. inv'[r] = inv[r]
        BY <3>2
      <3>4. Open(r)' = Open(r)
        BY <3>3 DEF Open
      <3>5. Grasp(w, r)'
        BY <3>1, <3>2, <3>3, <3>4 DEF Grasp
      <3> QED
        BY <2>2, <3>1, <3>5 DEF Takes
    <2> QED
      BY <2>3, <2>4
  <1> QED
    BY <1>1 DEF OnceInv

\* The steps that leave the invocations alone and take none in hand.
LEMMA PlainOnce ==
  ASSUME OneDrainLoop, TypeOK, OnceInv, NEW w \in Workers,
         \/ PreflightRun(w) \/ PreflightFence(w) \/ PreflightInputs(w)
         \/ OutputBlocked(w) \/ FailRun(w) \/ Abandon(w) \/ GatewayError(w)
  PROVE  OnceInv'
  <1>1. PICK r : r = worker[w].run
    OBVIOUS
  <1>2. /\ inv' = inv /\ worker[w].pc # "idle" /\ r \in Runs
    BY <1>1 DEF PreflightRun, PreflightFence, PreflightInputs, OutputBlocked, FailRun, Abandon,
                GatewayError, At
  <1>3. CASE Done(w) /\ (run' = run \/ CasRetry(w, r)
                         \/ \E s \in {"CANCELLED", "EXPIRED", "FAILED"} : Cas(w, r, s))
    <2>1. AllUnparked
      BY <1>2, <1>3, SameRunUnparked, CasUnparked, CasRetryUnparked
    <2> QED
      BY <1>2, <1>3, <2>1, DropOnce
  <1>4. CASE run' = run /\ \E pc \in {"inputs", "guards", "refusing", "resume"} : Goto(w, pc)
    BY <1>2, <1>4, SameRunUnparked, GoOnOnce DEF Using, Clear
  <1> QED
    BY <1>1, <1>3, <1>4
    DEF PreflightRun, PreflightFence, PreflightInputs, OutputBlocked, FailRun, Abandon,
        GatewayError, FinalizeSuperseded

LEMMA LoopTopOnce ==
  ASSUME OneDrainLoop, TypeOK, OnceInv, NEW w \in Workers, LoopTop(w)
  PROVE  OnceInv'
  <1>1. PICK r : r = worker[w].run
    OBVIOUS
  <1>2. inv' = inv /\ worker[w].pc = "loop" /\ r \in Runs /\ run[r] \in Run
    BY <1>1 DEF LoopTop, At, TypeOK
  <1>3. CASE Done(w) /\ (run' = run \/ \E s \in {"CANCELLED", "EXPIRED"} : Cas(w, r, s))
    <2>1. AllUnparked
      BY <1>2, <1>3, SameRunUnparked, CasUnparked
    <2> QED
      BY <1>2, <1>3, <2>1, DropOnce
  <1>4. CASE /\ run' = [run EXCEPT ![r].live = TRUE]
             /\ \E pc \in {"failing", "provider"} : Goto(w, pc)
    <2> DEFINE j == [run[r] EXCEPT !.live = TRUE]
    <2>1. j.status = run[r].status /\ run' = [run EXCEPT ![r] = j]
      BY <1>2, <1>4 DEF Run
    <2> HIDE DEF j
    <2>2. AllUnparked
      BY <1>2, <2>1, OneUnparked
    <2> QED
      BY <1>2, <1>4, <2>2, GoOnOnce DEF Using, Clear
  <1> QED
    BY <1>1, <1>3, <1>4 DEF LoopTop, FinalizeSuperseded

\* A refusal, or an answer that breaks the tool policy.
LEMMA RefusalOnce ==
  ASSUME OneDrainLoop, TypeOK, OnceInv, NEW w \in Workers,
         FinalizeRefusal(w) \/ AfterProviderFailure(w)
  PROVE  OnceInv'
  <1>1. PICK r \in Runs : r = worker[w].run
    BY DEF FinalizeRefusal, AfterProviderFailure, At
  <1>2. inv' = inv /\ Done(w) /\ run[r] \in Run /\ "FAILED" \in Status
    BY DEF FinalizeRefusal, AfterProviderFailure, TypeOK, Status, Terminal
  <1>3. CASE run' = run \/ Cas(w, r, "CANCELLED")
    <2>1. AllUnparked
      BY <1>3, SameRunUnparked, CasUnparked
    <2> QED
      BY <1>2, <2>1, DropOnce
  <1>4. CASE \/ run' = [run EXCEPT ![r] = Spoken(run[r], "FAILED")]
             \/ run' = [run EXCEPT ![r] = Counted(Released(run[r], "FAILED"))]
    <2>1. Spoken(run[r], "FAILED").status = "FAILED"
          /\ Counted(Released(run[r], "FAILED")).status = "FAILED"
      BY <1>2, SpokenCalls
    <2>2. AllUnparked
      BY <1>4, <2>1, OneUnparked
    <2> QED
      BY <1>2, <2>2, DropOnce
  <1> QED
    BY <1>1, <1>3, <1>4 DEF FinalizeRefusal, AfterProviderFailure

LEMMA RecordOnce ==
  ASSUME OneDrainLoop, TypeOK, OnceInv, NEW w \in Workers, RecordProviderCall(w)
  PROVE  OnceInv'
  <1>1. PICK r : r = worker[w].run
    OBVIOUS
  <1>2. inv' = inv /\ worker[w].pc = "provider" /\ r \in Runs /\ run[r] \in Run /\ worker[w] \in Worker
    BY <1>1 DEF RecordProviderCall, At, TypeOK
  <1>3. CASE FinalizeSuperseded(w)
    BY <1>1, <1>2, <1>3, CasUnparked, DropOnce DEF FinalizeSuperseded
  <1>4. CASE /\ run' = [run EXCEPT ![r] = Counted(@)]
             /\ worker' = [worker EXCEPT ![w].pc = "dispatch", ![w].known = @ + 1]
    <2> DEFINE j == Counted(run[r])
    <2>1. j.status = run[r].status /\ run' = [run EXCEPT ![r] = j]
      BY <1>2, <1>4 DEF Counted, Run
    <2> HIDE DEF j
    <2>2. AllUnparked
      BY <1>2, <2>1, OneUnparked
    <2>3. worker'[w].pc = "dispatch" /\ worker'[w].run = r /\ worker'[w].todo = worker[w].todo
      BY <1>1, <1>2, <1>4 DEF TypeOK, Worker
    <2>4. Takes(w) /\ \A q \in Runs : Ledger(q)' /\ Answered(q)' /\ Open(q)' = Open(q)
      BY <1>2, <2>2, QuietLedgers DEF OnceInv
    <2>5. r \in Runs \ worker[w].todo /\ Grasp(w, r)
      BY <1>1, <1>2, <2>4 DEF Takes
    <2>6. Grasp(w, r)'
      BY <1>2, <2>2, <2>3, <2>4, <2>5 DEF Grasp, AllUnparked, Unparked, Clear, Using
    <2>7. Takes(w)'
      BY <2>2, <2>3, <2>4, <2>5, <2>6, HandTakes
    <2> QED
      BY <2>4, <2>7, AloneOnce
  <1> QED
    BY <1>1, <1>3, <1>4 DEF RecordProviderCall

\* An answer is given only by a loop that has left nothing open.
LEMMA SuccessOnce ==
  ASSUME OneDrainLoop, TypeOK, OnceInv, NEW w \in Workers, Success(w)
  PROVE  OnceInv'
  <1>1. PICK r : r = worker[w].run
    OBVIOUS
  <1>2. /\ inv' = inv /\ worker[w].pc = "provider" /\ r \in Runs /\ run[r] \in Run /\ Done(w)
        /\ "COMPLETED" \in Status
    BY <1>1 DEF Success, At, TypeOK, Status, Terminal
  <1>3. CASE run' = run \/ Cas(w, r, "CANCELLED")
    <2>1. AllUnparked
      BY <1>2, <1>3, SameRunUnparked, CasUnparked
    <2> QED
      BY <1>2, <2>1, DropOnce
  <1>4. CASE run' = [run EXCEPT ![r] = Counted(Spoken(run[r], "COMPLETED"))]
    <2>1. Counted(Spoken(run[r], "COMPLETED")).status = "COMPLETED"
      BY <1>2, SpokenCalls
    <2>2. run'[r].status = "COMPLETED" /\ \A q \in Runs \ {r} : run'[q] = run[q]
      BY <1>2, <1>4, <2>1 DEF TypeOK
    <2>3. Takes(w) /\ Grasp(w, r)
      BY <1>1, <1>2 DEF OnceInv, Takes
    <2>4. Answered(r)'
      BY <1>2, <2>3 DEF Grasp, Clear, Open, Answered
    <2>5. \A q \in Runs : Ledger(q)' /\ Answered(q)'
      BY <1>2, <2>2, <2>4, SameLedger DEF OnceInv, Answered
    <2>6. worker'[w].pc = "idle" /\ worker'[w].todo = worker[w].todo
      BY <1>2, DoneFacts
    <2>7. Takes(w)'
      BY <2>2, <2>3, <2>6, TodoRuns DEF Takes
    <2> QED
      BY <2>5, <2>7, AloneOnce
  <1> QED
    BY <1>1, <1>2, <1>3, <1>4 DEF Success

LEMMA CrashOnce ==
  ASSUME OneDrainLoop, TypeOK, OnceInv, NEW w \in Workers, Crash(w)
  PROVE  OnceInv'
  <1>1. inv' = inv /\ run' = run /\ worker'[w] = Idle
    BY DEF Crash, TypeOK
  <1>2. \A r \in Runs : Ledger(r)' /\ Answered(r)'
    BY <1>1, SameRunUnparked, QuietLedgers
  <1>3. Takes(w)'
    BY <1>1 DEF Takes, Idle
  <1> QED
    BY <1>2, <1>3, AloneOnce

LEMMA StartOnce ==
  ASSUME OneDrainLoop, TypeOK, OnceInv, NEW w \in Workers, StartAttempt(w)
  PROVE  OnceInv'
  <1>1. inv' = inv /\ run' = run /\ worker[w] \in Worker /\ Takes(w)
    BY DEF StartAttempt, TypeOK, OnceInv
  <1>2. \A r \in Runs : Ledger(r)' /\ Answered(r)'
    BY <1>1, SameRunUnparked, QuietLedgers
  <1>3. PICK r \in worker[w].todo :
          worker' = [worker EXCEPT ![w].pc = "preflight", ![w].run = r, ![w].todo = @ \ {r}]
    BY DEF StartAttempt
  <1>4. worker'[w].pc = "preflight" /\ worker'[w].run = r /\ worker'[w].todo = worker[w].todo \ {r}
    BY <1>1, <1>3 DEF TypeOK, Worker
  <1>5. r \in Runs /\ run[r].status # "WAITING_APPROVAL"
    BY <1>1, TodoRuns DEF Takes
  <1>6. Grasp(w, r)'
    BY <1>1, <1>4, <1>5 DEF Grasp, Clear, Using
  <1>7. Takes(w)'
    BY <1>1, <1>4, <1>5, <1>6 DEF Takes
  <1> QED
    BY <1>2, <1>7, AloneOnce

LEMMA ClaimOnce ==
  ASSUME OneDrainLoop, IInv, OnceInv, NEW w \in Workers, ClaimDueBatch(w)
  PROVE  OnceInv'
  <1>1. TypeOK /\ inv' = inv /\ worker[w].pc = "idle" /\ worker[w] \in Worker
    <2>1. TypeOK /\ worker[w] \in Worker
      BY DEF TypeOK, IInv
    <2>2. inv' = inv /\ worker[w].pc = "idle"
      BY DEF ClaimDueBatch
    <2> QED
      BY <2>1, <2>2
  <1>2. PICK S : /\ S \in SUBSET Runs /\ \A r \in S : run[r].status = "QUEUED"
                 /\ worker' = [worker EXCEPT ![w].todo = S]
    <2>1. PICK S \in SUBSET {r \in Runs : run[r].status = "QUEUED" /\ ~run[r].late} :
            worker' = [worker EXCEPT ![w].todo = S]
      BY DEF ClaimDueBatch
    <2>2. S \in SUBSET Runs /\ \A r \in S : run[r].status = "QUEUED"
      OBVIOUS
    <2> QED
      BY <2>1, <2>2
  <1>3. \A r \in Runs : Stays(r) \/ Claims(r)
    BY ClaimMoves
  <1>4. AllUnparked
    BY <1>3 DEF AllUnparked, Unparked, Stays, Claims, Becomes
  <1>5. \A r \in Runs : Ledger(r)' /\ Answered(r)'
    BY <1>1, <1>4, QuietLedgers
  <1>6. worker'[w].pc = "idle" /\ worker'[w].todo = S
    BY <1>1, <1>2 DEF TypeOK, Worker
  <1>7. \A r \in S : run'[r].status # "WAITING_APPROVAL"
    BY <1>2, <1>4 DEF AllUnparked, Unparked
  <1>8. Takes(w)'
    BY <1>6, <1>7 DEF Takes
  <1> QED
    BY <1>5, <1>8, AloneOnce

\* What the loop holds is open and has no step yet.
LEMMA GraspFacts ==
  ASSUME TypeOK, OnceInv, NEW w \in Workers, worker[w].pc \in Using \cup {"rejecting"},
         NEW r, r = worker[w].run, NEW n, n = worker[w].inv
  PROVE  /\ r \in Runs \ worker[w].todo /\ n \in Slots /\ n \in Open(r) /\ inv[r][n] \in Inv
         /\ inv[r][n].steps = 0 /\ Grasp(w, r) /\ Takes(w)
         /\ IF worker[w].pc = "rejecting" THEN inv[r][n].status = "REJECTED"
            ELSE inv[r][n].status \in {"APPROVED", "EXECUTING"}
  <1>1. worker[w].pc # "idle" /\ Takes(w)
    BY DEF Using, OnceInv
  <1>2. r \in Runs \ worker[w].todo /\ Grasp(w, r)
    BY <1>1 DEF Takes
  <1>3. n \in Open(r)
    BY <1>2 DEF Grasp
  <1>4. n \in Slots
    BY <1>3 DEF Open
  <1>5. inv[r][n] \in Inv
    BY <1>2, <1>4 DEF TypeOK
  <1>6. IF worker[w].pc = "rejecting" THEN inv[r][n].status = "REJECTED"
        ELSE inv[r][n].status \in {"APPROVED", "EXECUTING"}
    BY <1>2 DEF Grasp
  <1>7. inv[r][n].steps = 0
    <2>1. CASE worker[w].pc = "rejecting"
      BY <1>3, <1>6, <2>1 DEF Open
    <2>2. CASE worker[w].pc # "rejecting"
      <3>1. Sane(inv[r][n])
        BY <1>2, <1>4 DEF OnceInv, Ledger
      <3> QED
        BY <1>6, <2>2, <3>1 DEF Sane
    <2> QED
      BY <2>1, <2>2
  <1> QED
    BY <1>1, <1>2, <1>3, <1>4, <1>5, <1>6, <1>7

Shut(i) ==
  /\ i.status \notin {"AWAITING_APPROVAL", "APPROVED", "EXECUTING"}
  /\ i.status = "REJECTED" => i.steps # 0

\* The loop rewrites the invocation in its hand and goes on.
LEMMA RewriteOnce ==
  ASSUME OneDrainLoop, TypeOK, OnceInv, NEW w \in Workers, worker[w].pc \in Using \cup {"rejecting"},
         NEW r, r = worker[w].run, NEW n, n = worker[w].inv, run' = run,
         NEW i, inv' = [inv EXCEPT ![r][n] = i], i.status # "NONE", Sane(i),
         i.status = "APPROVED" => inv[r][n].status = "APPROVED",
         NEW pc, Goto(w, pc), pc \notin {"idle", "rejecting"},
         pc \in Clear => Shut(i),
         pc \in Using => i.status \in {"APPROVED", "EXECUTING"}
  PROVE  OnceInv'
  <1>1. /\ r \in Runs \ worker[w].todo /\ n \in Slots /\ n \in Open(r) /\ Grasp(w, r) /\ Takes(w)
    BY GraspFacts
  <1>2. /\ worker'[w].pc = pc /\ worker'[w].todo = worker[w].todo
        /\ worker'[w].run = r /\ worker'[w].inv = n
    BY GotoFacts
  <1>3. /\ inv'[r][n] = i /\ \A m \in Slots \ {n} : inv'[r][m] = inv[r][m]
        /\ \A q \in Runs \ {r} : inv'[q] = inv[q]
    BY <1>1 DEF TypeOK
  <1>4. Ledger(r)' /\ Open(r)' \subseteq {n}
    BY <1>1, <1>3, ShiftedLedger DEF OnceInv
  <1>5. \A q \in Runs : Ledger(q)'
    BY <1>3, <1>4, SameLedger DEF OnceInv
  <1>6. \A q \in Runs : Answered(q)'
    <2>1. Answered(r)'
      BY <1>1, <1>3 DEF OnceInv, Answered
    <2>2. ASSUME NEW q \in Runs \ {r} PROVE Answered(q)'
      BY <1>3 DEF OnceInv, Answered
    <2> QED
      BY <2>1, <2>2
  <1>7. Grasp(w, r)'
    <2>1. run'[r].status # "WAITING_APPROVAL"
      BY <1>1 DEF Grasp
    <2>2. CASE pc \in Clear
      <3>1. n \notin Open(r)'
        BY <1>3, <2>2 DEF Open, Shut
      <3>2. Open(r)' = {}
        BY <1>4, <3>1
      <3> QED
        BY <1>2, <2>1, <2>2, <3>2 DEF Grasp, Clear, Using
    <2>3. CASE pc \in Using
      <3>1. n \in Open(r)'
        BY <1>1, <1>3, <2>3 DEF Open
      <3> QED
        BY <1>2, <1>3, <2>1, <2>3, <3>1 DEF Grasp, Clear, Using
    <2>4. CASE pc \notin Clear /\ pc \notin Using
      BY <1>2, <2>1, <2>4 DEF Grasp
    <2> QED
      BY <2>2, <2>3, <2>4
  <1>8. Takes(w)'
    BY <1>1, <1>2, <1>7, SameRunUnparked, HandTakes
  <1> QED
    BY <1>5, <1>6, <1>8, AloneOnce

LEMMA ApplyRejectedOnce ==
  ASSUME OneDrainLoop, TypeOK, OnceInv, NEW w \in Workers, ApplyRejected(w)
  PROVE  OnceInv'
  <1>1. PICK r, n : r = worker[w].run /\ n = worker[w].inv
    OBVIOUS
  <1>2. worker[w].pc = "rejecting" /\ r \in Runs
    BY <1>1 DEF ApplyRejected, At
  <1>3. inv[r][n] \in Inv /\ inv[r][n].steps = 0 /\ inv[r][n].status = "REJECTED"
    BY <1>1, <1>2, GraspFacts
  <1>4. CASE FinalizeSuperseded(w) /\ UNCHANGED inv
    BY <1>1, <1>2, <1>4, CasUnparked, DropOnce DEF FinalizeSuperseded
  <1>5. CASE inv' = [inv EXCEPT ![r][n].steps = More(@)] /\ Goto(w, "loop") /\ run' = run
    <2> DEFINE i == [inv[r][n] EXCEPT !.steps = More(inv[r][n].steps)]
    <2>1. i.steps = 1 /\ i.status = "REJECTED"
      BY <1>3 DEF Inv, More
    <2>2. inv' = [inv EXCEPT ![r][n] = i]
      BY <1>5
    <2> HIDE DEF i
    <2>3. Sane(i) /\ Shut(i) /\ i.status # "NONE"
      BY <2>1 DEF Sane, Shut
    <2>4. Goto(w, "loop") /\ run' = run
      BY <1>5
    <2> QED
      BY <1>1, <1>2, <2>1, <2>2, <2>3, <2>4, RewriteOnce DEF Using, Clear
  <1> QED
    BY <1>1, <1>4, <1>5 DEF ApplyRejected

LEMMA ExecuteApprovedOnce ==
  ASSUME OneDrainLoop, TypeOK, OnceInv, NEW w \in Workers, ExecuteApproved(w)
  PROVE  OnceInv'
  <1>1. PICK r, n : r = worker[w].run /\ n = worker[w].inv
    OBVIOUS
  <1>2. worker[w].pc = "approved" /\ r \in Runs
    BY <1>1 DEF ExecuteApproved, At
  <1>3. inv[r][n] \in Inv /\ inv[r][n].steps = 0
    BY <1>1, <1>2, GraspFacts DEF Using
  <1>4. CASE FinalizeSuperseded(w) /\ UNCHANGED inv
    BY <1>1, <1>2, <1>4, CasUnparked, DropOnce DEF FinalizeSuperseded
  <1>5. CASE inv' = [inv EXCEPT ![r][n].status = "EXECUTING"] /\ Goto(w, "executing") /\ run' = run
    <2> DEFINE i == [inv[r][n] EXCEPT !.status = "EXECUTING"]
    <2>1. i.steps = 0 /\ i.status = "EXECUTING"
      BY <1>3 DEF Inv
    <2>2. inv' = [inv EXCEPT ![r][n] = i]
      BY <1>5
    <2> HIDE DEF i
    <2>3. Sane(i) /\ i.status # "NONE"
      BY <2>1 DEF Sane
    <2>4. Goto(w, "executing") /\ run' = run
      BY <1>5
    <2> QED
      BY <1>1, <1>2, <2>1, <2>2, <2>3, <2>4, RewriteOnce DEF Using, Clear
  <1>6. CASE Goto(w, "failing") /\ UNCHANGED <<run, inv>>
    BY <1>2, <1>6, SameRunUnparked, GoOnOnce DEF Using, Clear
  <1> QED
    BY <1>1, <1>4, <1>5, <1>6 DEF ExecuteApproved

LEMMA RunToolOnce ==
  ASSUME OneDrainLoop, TypeOK, OnceInv, NEW w \in Workers, RunTool(w)
  PROVE  OnceInv'
  <1>1. PICK r, n : r = worker[w].run /\ n = worker[w].inv
    OBVIOUS
  <1>2. worker[w].pc = "executing" /\ r \in Runs /\ run' = run
    BY <1>1 DEF RunTool, At
  <1>3. /\ inv[r][n] \in Inv /\ inv[r][n].steps = 0
        /\ inv[r][n].status \in {"APPROVED", "EXECUTING"}
    BY <1>1, <1>2, GraspFacts DEF Using
  <1> DEFINE i == [inv[r][n] EXCEPT !.execs = More(inv[r][n].execs)]
  <1>4. i.steps = 0 /\ i.status = inv[r][n].status
    BY <1>3 DEF Inv
  <1>5. inv' = [inv EXCEPT ![r][n] = i]
    BY <1>1 DEF RunTool
  <1>6. PICK pc \in {"toolOk", "toolFail"} : Goto(w, pc)
    BY DEF RunTool
  <1> HIDE DEF i
  <1>7. Sane(i) /\ i.status # "NONE"
    BY <1>3, <1>4 DEF Sane
  <1> QED
    BY <1>1, <1>2, <1>3, <1>4, <1>5, <1>6, <1>7, RewriteOnce DEF Using, Clear

LEMMA CommitToolOnce ==
  ASSUME OneDrainLoop, TypeOK, OnceInv, NEW w \in Workers, CommitTool(w)
  PROVE  OnceInv'
  <1>1. PICK r, n : r = worker[w].run /\ n = worker[w].inv
    OBVIOUS
  <1>2. worker[w].pc = "toolOk" /\ r \in Runs
    BY <1>1 DEF CommitTool, At
  <1>3. inv[r][n] \in Inv /\ inv[r][n].steps = 0
    BY <1>1, <1>2, GraspFacts DEF Using
  <1>4. CASE FinalizeSuperseded(w) /\ UNCHANGED inv
    BY <1>1, <1>2, <1>4, CasUnparked, DropOnce DEF FinalizeSuperseded
  <1>5. CASE /\ inv' = [inv EXCEPT ![r][n].status = "SUCCEEDED", ![r][n].steps = More(@)]
             /\ Goto(w, "loop") /\ run' = run
    <2> DEFINE i == [inv[r][n] EXCEPT !.status = "SUCCEEDED", !.steps = More(inv[r][n].steps)]
    <2>1. i.steps = 1 /\ i.status = "SUCCEEDED"
      BY <1>3 DEF Inv, More
    <2>2. inv' = [inv EXCEPT ![r][n] = i]
      BY <1>5
    <2> HIDE DEF i
    <2>3. Sane(i) /\ Shut(i) /\ i.status # "NONE"
      BY <2>1 DEF Sane, Shut
    <2>4. Goto(w, "loop") /\ run' = run
      BY <1>5
    <2> QED
      BY <1>1, <1>2, <2>1, <2>2, <2>3, <2>4, RewriteOnce DEF Using, Clear
  <1> QED
    BY <1>1, <1>4, <1>5 DEF CommitTool

LEMMA FailToolOnce ==
  ASSUME OneDrainLoop, TypeOK, OnceInv, NEW w \in Workers, FailTool(w)
  PROVE  OnceInv'
  <1>1. PICK r, n : r = worker[w].run /\ n = worker[w].inv
    OBVIOUS
  <1>2. worker[w].pc = "toolFail" /\ r \in Runs /\ run' = run /\ Goto(w, "failing")
    BY <1>1 DEF FailTool, At
  <1>3. inv[r][n] \in Inv /\ inv[r][n].steps = 0
    BY <1>1, <1>2, GraspFacts DEF Using
  <1> DEFINE i == [inv[r][n] EXCEPT !.status = "FAILED"]
  <1>4. i.steps = 0 /\ i.status = "FAILED"
    BY <1>3 DEF Inv
  <1>5. inv' = [inv EXCEPT ![r][n] = i]
    BY <1>1 DEF FailTool
  <1> HIDE DEF i
  <1>6. Sane(i) /\ i.status # "NONE"
    BY <1>4 DEF Sane
  <1> QED
    BY <1>1, <1>2, <1>4, <1>5, <1>6, RewriteOnce DEF Using, Clear

\* Whatever is open when a loop resumes the run is the decided or stranded call it picks up.
LEMMA PendingIsOpen ==
  ASSUME IInv, NEW r \in Runs, Ledger(r), run[r].status # "WAITING_APPROVAL"
  PROVE  Pending(r) = Open(r)
  <1>1. ASSUME NEW n \in Open(r) PROVE n \in Pending(r)
    <2>1. n \in Slots /\ n \in Int /\ inv[r][n].status # "AWAITING_APPROVAL"
      BY NoneGated, SlotsAreInts DEF Open
    <2>2. n \in Undone(r)
      BY <2>1 DEF Open, Undone
    <2>3. ASSUME NEW m \in Undone(r) PROVE m <= n
      <3>1. m \in Int /\ m \in Slots /\ inv[r][m].status # "NONE"
        BY SlotsAreInts DEF Undone
      <3>2. ~(n < m)
        BY <3>1 DEF Ledger
      <3> QED
        BY <2>1, <3>1, <3>2
    <2>4. ~(inv[r][n].status = "REJECTED" /\ inv[r][n].steps > 0)
      BY DEF Open
    <2> QED
      BY <2>2, <2>3, <2>4 DEF Pending, Newest
  <1>2. ASSUME NEW n \in Pending(r) PROVE n \in Open(r)
    <2>1. /\ n \in Slots /\ inv[r][n].status \in {"APPROVED", "EXECUTING", "REJECTED"}
          /\ ~(inv[r][n].status = "REJECTED" /\ inv[r][n].steps > 0)
      BY DEF Pending, Newest, Undone
    <2>2. inv[r][n].steps # 0 => inv[r][n].steps = 1
      BY <2>1 DEF Ledger, Sane
    <2> QED
      BY <2>1, <2>2 DEF Open
  <1> QED
    BY <1>1, <1>2

LEMMA ResumeOnce ==
  ASSUME OneDrainLoop, IInv, OnceInv, NEW w \in Workers, Resume(w)
  PROVE  OnceInv'
  <1>1. PICK r : r = worker[w].run
    OBVIOUS
  <1>2. TypeOK /\ inv' = inv /\ run' = run /\ worker[w].pc = "resume" /\ Takes(w)
    BY DEF Resume, At, OnceInv, IInv
  <1>3. r \in Runs \ worker[w].todo /\ Grasp(w, r) /\ worker[w] \in Worker
    BY <1>1, <1>2 DEF Takes, TypeOK
  <1>4. Pending(r) = Open(r)
    BY <1>2, <1>3, PendingIsOpen DEF Grasp, OnceInv
  <1>5. \A q \in Runs : Ledger(q)' /\ Answered(q)' /\ Open(q)' = Open(q)
    BY <1>2, SameRunUnparked, QuietLedgers
  <1>6. run'[r].status # "WAITING_APPROVAL"
    BY <1>2, <1>3 DEF Grasp
  <1>7. Grasp(w, r)' /\ worker'[w].run = r /\ worker'[w].todo = worker[w].todo
    <2>1. CASE /\ Pending(r) = {}
               /\ worker' = [worker EXCEPT ![w] = [@ EXCEPT !.pc = "loop", !.known = run[r].calls]]
      <3>1. worker'[w].pc = "loop" /\ worker'[w].run = r /\ worker'[w].todo = worker[w].todo
        BY <1>1, <1>2, <1>3, <2>1 DEF TypeOK, Worker
      <3>2. Open(r)' = {}
        BY <1>3, <1>4, <1>5, <2>1
      <3> QED
        BY <1>6, <3>1, <3>2 DEF Grasp, Clear, Using
    <2>2. CASE \E n \in Pending(r) :
                 \E pc \in IF inv[r][n].status = "REJECTED" THEN {"rejecting"} ELSE {"approved", "failing"} :
                   worker' = [worker EXCEPT ![w] = [@ EXCEPT !.pc = pc, !.known = run[r].calls,
                                                             !.inv = n]]
      <3>1. PICK n \in Pending(r) :
                 \E pc \in IF inv[r][n].status = "REJECTED" THEN {"rejecting"} ELSE {"approved", "failing"} :
                   worker' = [worker EXCEPT ![w] = [@ EXCEPT !.pc = pc, !.known = run[r].calls,
                                                             !.inv = n]]
        BY <2>2
      <3>2. PICK pc \in IF inv[r][n].status = "REJECTED" THEN {"rejecting"} ELSE {"approved", "failing"} :
                   worker' = [worker EXCEPT ![w] = [@ EXCEPT !.pc = pc, !.known = run[r].calls,
                                                             !.inv = n]]
        BY <3>1
      <3>3. worker'[w].pc = pc /\ worker'[w].run = r /\ worker'[w].inv = n
            /\ worker'[w].todo = worker[w].todo
        BY <1>1, <1>2, <1>3, <3>2 DEF TypeOK, Worker
      <3>4. n \in Open(r)' /\ inv'[r][n].status = inv[r][n].status
        BY <1>2, <1>3, <1>4, <1>5
      <3>5. inv[r][n].status \in {"APPROVED", "EXECUTING", "REJECTED"}
        BY DEF Pending, Newest, Undone
      <3>6. IF inv[r][n].status = "REJECTED" THEN pc = "rejecting" ELSE pc \in {"approved", "failing"}
        BY <3>2
      <3>7. Grasp(w, r)'
        BY <1>6, <3>3, <3>4, <3>5, <3>6 DEF Grasp, Clear, Using
      <3> QED
        BY <3>3, <3>7
    <2> QED
      BY <1>1, <2>1, <2>2 DEF Resume
  <1>8. Takes(w)'
    BY <1>2, <1>3, <1>7, SameRunUnparked, HandTakes
  <1> QED
    BY <1>5, <1>8, AloneOnce

\* A free slot of a run in which nothing is open is filled.
LEMMA FillLedgers ==
  ASSUME TypeOK, OnceInv, NEW r \in Runs, Open(r) = {}, NEW n \in NextSlot(r), NEW i,
         inv' = [inv EXCEPT ![r][n] = i], i.status \notin {"NONE", "APPROVED"}, Sane(i), AllUnparked \/
         (run'[r].status # "COMPLETED" /\ \A q \in Runs \ {r} : run'[q] = run[q])
  PROVE  /\ \A q \in Runs : Ledger(q)' /\ Answered(q)'
         /\ inv'[r][n] = i /\ n \in Slots
  <1>1. n \in Slots
    BY DEF NextSlot
  <1>2. /\ inv'[r][n] = i /\ \A m \in Slots \ {n} : inv'[r][m] = inv[r][m]
        /\ \A q \in Runs \ {r} : inv'[q] = inv[q]
    BY <1>1 DEF TypeOK
  <1>3. Ledger(r)'
    BY <1>2, FilledLedger DEF OnceInv
  <1>4. \A q \in Runs : Ledger(q)'
    BY <1>2, <1>3, SameLedger DEF OnceInv
  <1>5. Answered(r)'
    BY <1>2 DEF OnceInv, Answered, AllUnparked, Unparked
  <1>6. \A q \in Runs \ {r} : Answered(q)'
    BY <1>2 DEF OnceInv, Answered, AllUnparked, Unparked
  <1> QED
    BY <1>1, <1>2, <1>4, <1>5, <1>6

LEMMA ClearFacts ==
  ASSUME OnceInv, NEW w \in Workers, worker[w].pc \in Clear, NEW r, r = worker[w].run
  PROVE  r \in Runs \ worker[w].todo /\ Open(r) = {} /\ Takes(w) /\ Grasp(w, r)
  <1>1. Takes(w) /\ worker[w].pc # "idle"
    BY DEF OnceInv, Clear
  <1> QED
    BY <1>1 DEF Takes, Grasp

LEMMA DispatchOnce ==
  ASSUME OneDrainLoop, TypeOK, OnceInv, NEW w \in Workers, Dispatch(w)
  PROVE  OnceInv'
  <1>1. PICK r : r = worker[w].run
    OBVIOUS
  <1>2. worker[w].pc = "dispatch" /\ worker[w] \in Worker
    BY DEF Dispatch, At, TypeOK
  <1>3. r \in Runs \ worker[w].todo /\ Open(r) = {} /\ Takes(w) /\ Grasp(w, r)
    BY <1>1, <1>2, ClearFacts DEF Clear
  <1>4. CASE FinalizeSuperseded(w) /\ UNCHANGED inv
    BY <1>1, <1>3, <1>4, CasUnparked, DropOnce DEF FinalizeSuperseded
  <1>5. CASE /\ run' = run
             /\ \E n \in NextSlot(r), s \in {"EXECUTING", "FAILED"} :
                  /\ inv' = [inv EXCEPT ![r][n] = NewInv(s, "NONE")]
                  /\ worker' = [worker EXCEPT
                       ![w] = [@ EXCEPT !.inv = n,
                                        !.pc = IF s = "FAILED" THEN "failing" ELSE "executing"]]
    <2>1. PICK n \in NextSlot(r), s \in {"EXECUTING", "FAILED"} :
                  /\ inv' = [inv EXCEPT ![r][n] = NewInv(s, "NONE")]
                  /\ worker' = [worker EXCEPT
                       ![w] = [@ EXCEPT !.inv = n,
                                        !.pc = IF s = "FAILED" THEN "failing" ELSE "executing"]]
      BY <1>5
    <2>2. PICK i : i = NewInv(s, "NONE")
      OBVIOUS
    <2>3. i.status = s /\ i.steps = 0 /\ inv' = [inv EXCEPT ![r][n] = i]
      BY <2>1, <2>2 DEF NewInv
    <2>4. Sane(i) /\ i.status \notin {"NONE", "APPROVED"} /\ AllUnparked
      BY <1>5, <2>3, SameRunUnparked DEF Sane
    <2>5. /\ \A q \in Runs : Ledger(q)' /\ Answered(q)'
          /\ inv'[r][n] = i /\ n \in Slots
      BY <1>3, <2>3, <2>4, FillLedgers
    <2>6. PICK pc : pc = IF s = "FAILED" THEN "failing" ELSE "executing"
      OBVIOUS
    <2>7. worker'[w].pc = pc /\ worker'[w].run = r /\ worker'[w].inv = n
          /\ worker'[w].todo = worker[w].todo
      BY <1>1, <1>2, <2>1, <2>6 DEF TypeOK, Worker
    <2>8. run'[r].status # "WAITING_APPROVAL"
      BY <1>3, <1>5 DEF Grasp
    <2>9. Grasp(w, r)'
      <3>1. pc \in {"failing", "executing"} /\ (pc = "executing" => s = "EXECUTING")
        BY <2>6
      <3>2. s = "EXECUTING" => n \in Open(r)'
        BY <2>3, <2>5 DEF Open
      <3> QED
        BY <2>3, <2>5, <2>7, <2>8, <3>1, <3>2 DEF Grasp, Clear, Using
    <2>10. Takes(w)'
      BY <1>3, <2>4, <2>7, <2>9, HandTakes
    <2> QED
      BY <2>5, <2>10, AloneOnce
  <1> QED
    BY <1>1, <1>4, <1>5 DEF Dispatch

LEMMA ParkOnce ==
  ASSUME OneDrainLoop, TypeOK, OnceInv, NEW w \in Workers, Park(w)
  PROVE  OnceInv'
  <1>1. PICK r : r = worker[w].run
    OBVIOUS
  <1>2. worker[w].pc = "provider" /\ Done(w)
    BY DEF Park, At
  <1>3. /\ r \in Runs \ worker[w].todo /\ Open(r) = {} /\ Takes(w) /\ run[r] \in Run
        /\ "WAITING_APPROVAL" \in Status
    BY <1>1, <1>2, ClearFacts DEF Clear, TypeOK, Status
  <1>4. CASE inv' = inv /\ (run' = run \/ Cas(w, r, "CANCELLED"))
    <2>1. AllUnparked
      BY <1>3, <1>4, SameRunUnparked, CasUnparked
    <2> QED
      BY <1>2, <1>4, <2>1, DropOnce
  <1>5. CASE /\ run' = [run EXCEPT ![r] = [Counted(Released(@, "WAITING_APPROVAL")) EXCEPT
                                             !.overdue = FALSE]]
             /\ \E n \in NextSlot(r) :
                  inv' = [inv EXCEPT ![r][n] = NewInv("AWAITING_APPROVAL", "PENDING")]
    <2>1. run'[r].status = "WAITING_APPROVAL" /\ \A q \in Runs \ {r} : run'[q] = run[q]
      <3> DEFINE k == Counted(Released(run[r], "WAITING_APPROVAL"))
                 j == [k EXCEPT !.overdue = FALSE]
      <3>1. k.status = "WAITING_APPROVAL"
        BY <1>3, SpokenCalls
      <3>2. k \in Run
        BY <1>3, CountedType, ReleasedType
      <3>3. run' = [run EXCEPT ![r] = j]
        BY <1>5
      <3> HIDE DEF k
      <3>4. j.status = "WAITING_APPROVAL"
        BY <3>1, <3>2 DEF Run
      <3> HIDE DEF j
      <3> QED
        BY <1>3, <3>3, <3>4 DEF TypeOK
    <2>2. PICK n \in NextSlot(r) :
            inv' = [inv EXCEPT ![r][n] = NewInv("AWAITING_APPROVAL", "PENDING")]
      BY <1>5
    <2>3. PICK i : i = NewInv("AWAITING_APPROVAL", "PENDING")
      OBVIOUS
    <2>4. /\ i.status = "AWAITING_APPROVAL" /\ i.approval = "PENDING" /\ i.steps = 0
          /\ inv' = [inv EXCEPT ![r][n] = i]
      BY <2>2, <2>3 DEF NewInv
    <2>5. Sane(i) /\ i.status \notin {"NONE", "APPROVED"}
      BY <2>4 DEF Sane
    <2>6. \A q \in Runs : Ledger(q)' /\ Answered(q)'
      BY <1>3, <2>1, <2>4, <2>5, FillLedgers
    <2>7. worker'[w].pc = "idle" /\ worker'[w].todo = worker[w].todo
      BY <1>2, DoneFacts
    <2>8. Takes(w)'
      BY <1>3, <2>1, <2>7, TodoRuns DEF Takes
    <2> QED
      BY <2>6, <2>8, AloneOnce
  <1> QED
    BY <1>1, <1>4, <1>5 DEF Park

LEMMA LoopOnce ==
  ASSUME OneDrainLoop, IInv, OnceInv, NEW w \in Workers,
         ClaimDueBatch(w) \/ Attempt(w) \/ Fault(w)
  PROVE  OnceInv'
  <1>1. TypeOK
    BY DEF IInv
  <1> QED
    BY <1>1, PlainOnce, LoopTopOnce, RefusalOnce, RecordOnce, SuccessOnce, CrashOnce, StartOnce,
       ClaimOnce, ApplyRejectedOnce, ExecuteApprovedOnce, RunToolOnce, CommitToolOnce,
       FailToolOnce, ResumeOnce, DispatchOnce, ParkOnce
    DEF Attempt, Fault

\* An open gate is closed: by a decision, which puts the run back in the queue, or for good.
LEMMA ClosedGateRow ==
  ASSUME TypeOK, OnceInv, NEW r \in Runs, NEW n \in Gated(r),
         NEW s \in {"APPROVED", "REJECTED", "SKIPPED"}, NEW a
  PROVE  LET i == [inv[r][n] EXCEPT !.status = s, !.approval = a] IN
         n \in Open(r) /\ i.status = s /\ Sane(i)
  <1>1. /\ n \in Slots /\ n \in Open(r) /\ inv[r][n] \in Inv
        /\ inv[r][n].status = "AWAITING_APPROVAL"
    BY DEF Gated, IsPending, Open, TypeOK
  <1>2. inv[r][n].steps = 0
    BY <1>1 DEF OnceInv, Ledger, Sane
  <1> DEFINE i == [inv[r][n] EXCEPT !.status = s, !.approval = a]
  <1>3. i.status = s /\ i.steps = 0
    BY <1>1, <1>2 DEF Inv
  <1> HIDE DEF i
  <1>4. Sane(i)
    BY <1>3 DEF Sane
  <1> QED
    BY <1>1, <1>3, <1>4 DEF i

LEMMA ClosedGateOnce ==
  ASSUME TypeOK, OnceInv, NEW r \in Runs, NEW n \in Gated(r), NEW i,
         n \in Open(r), i.status # "NONE", Sane(i), inv' = [inv EXCEPT ![r][n] = i],
         worker' = worker, NEW j, run' = [run EXCEPT ![r] = j],
         j.status \notin {"WAITING_APPROVAL", "COMPLETED"}
  PROVE  OnceInv'
  <1>1. n \in Slots /\ run[r].status = "WAITING_APPROVAL"
    BY DEF Gated
  <1>2. /\ inv'[r][n] = i
        /\ \A m \in Slots \ {n} : inv'[r][m] = inv[r][m]
        /\ \A q \in Runs \ {r} : inv'[q] = inv[q]
    BY <1>1 DEF TypeOK
  <1>3. Ledger(r)'
    BY <1>2, ShiftedLedger DEF OnceInv
  <1>4. \A q \in Runs : Ledger(q)'
    BY <1>2, <1>3, SameLedger DEF OnceInv
  <1>5. run'[r] = j /\ \A q \in Runs \ {r} : run'[q] = run[q]
    BY DEF TypeOK
  <1>6. \A q \in Runs : Answered(q)'
    <2>1. Answered(r)'
      BY <1>5 DEF Answered
    <2>2. ASSUME NEW q \in Runs \ {r} PROVE Answered(q)'
      BY <1>2, <1>5 DEF OnceInv, Answered
    <2> QED
      BY <2>1, <2>2
  <1>7. AllUnparked
    BY <1>5 DEF AllUnparked, Unparked
  <1> QED
    BY <1>1, <1>2, <1>4, <1>6, <1>7, CalmOnce

LEMMA QuietRowOnce ==
  ASSUME TypeOK, OnceInv, inv' = inv, worker' = worker, AllUnparked
  PROVE  OnceInv'
  BY QuietLedgers, CalmOnce

LEMMA DecideOnce ==
  ASSUME TypeOK, OnceInv, NEW r \in Runs, NEW n \in Slots, NEW d \in {"APPROVED", "REJECTED"},
         Decide(r, n, d)
  PROVE  OnceInv'
  <1>1. n \in Gated(r) /\ worker' = worker /\ run[r] \in Run
    BY DEF Decide, TypeOK
  <1>2. PICK i : i = [inv[r][n] EXCEPT !.status = d, !.approval = d]
    OBVIOUS
  <1>3. n \in Open(r) /\ i.status # "NONE" /\ Sane(i)
    BY <1>1, <1>2, ClosedGateRow
  <1>4. inv' = [inv EXCEPT ![r][n] = i]
    BY <1>2 DEF Decide, Decided
  <1>5. PICK k : k = IF run[r].attempts > 0 THEN run[r].attempts - 1 ELSE run[r].attempts
    OBVIOUS
  <1> DEFINE j == [run[r] EXCEPT !.status = "QUEUED", !.attempts = k]
  <1>6. run' = [run EXCEPT ![r] = j]
    BY <1>5 DEF Decide
  <1>7. j.status = "QUEUED"
    BY <1>1 DEF Run
  <1> HIDE DEF j
  <1> QED
    BY <1>1, <1>3, <1>4, <1>6, <1>7, ClosedGateOnce

\* A gate that nobody will decide any more: the run ends with it.
LEMMA VoidOnce ==
  ASSUME TypeOK, OnceInv, NEW r \in Runs, NEW n \in Gated(r), NEW s \in {"REJECTED", "SKIPPED"},
         Voided(r, n, s), worker' = worker, NEW t, run' = [run EXCEPT ![r].status = t],
         t \notin {"WAITING_APPROVAL", "COMPLETED"}
  PROVE  OnceInv'
  <1>1. PICK i : i = [inv[r][n] EXCEPT !.status = s, !.approval = "EXPIRED"]
    OBVIOUS
  <1>2. n \in Open(r) /\ i.status # "NONE" /\ Sane(i)
    BY <1>1, ClosedGateRow
  <1>3. inv' = [inv EXCEPT ![r][n] = i]
    BY <1>1 DEF Voided
  <1> DEFINE j == [run[r] EXCEPT !.status = t]
  <1>4. j.status = t /\ run' = [run EXCEPT ![r] = j]
    BY DEF TypeOK, Run
  <1> HIDE DEF j
  <1> QED
    BY <1>2, <1>3, <1>4, ClosedGateOnce

LEMMA StatusOnce ==
  ASSUME TypeOK, OnceInv, NEW r \in Runs, inv' = inv, worker' = worker, NEW t,
         t \notin {"WAITING_APPROVAL", "COMPLETED"}, run' = [run EXCEPT ![r].status = t]
  PROVE  OnceInv'
  <1> DEFINE j == [run[r] EXCEPT !.status = t]
  <1>1. j.status = t /\ run' = [run EXCEPT ![r] = j]
    BY DEF TypeOK, Run
  <1> HIDE DEF j
  <1> QED
    BY <1>1, OneUnparked, QuietRowOnce

LEMMA TimeOnce ==
  ASSUME TypeOK, OnceInv, NEW r \in Runs, Time(r)
  PROVE  OnceInv'
  <1>1. inv' = inv /\ worker' = worker /\ run[r] \in Run
    BY DEF TypeOK, Time, LeaseExpires, DeadlinePasses, ApprovalTtlElapses
  <1>2. AllUnparked
    <2>1. CASE LeaseExpires(r)
      <3> DEFINE j == [run[r] EXCEPT !.live = FALSE]
      <3>1. j.status = run[r].status /\ run' = [run EXCEPT ![r] = j]
        BY <1>1, <2>1 DEF Run, LeaseExpires
      <3> HIDE DEF j
      <3> QED
        BY <3>1, OneUnparked
    <2>2. CASE DeadlinePasses(r)
      <3> DEFINE j == [run[r] EXCEPT !.late = TRUE]
      <3>1. j.status = run[r].status /\ run' = [run EXCEPT ![r] = j]
        BY <1>1, <2>2 DEF Run, DeadlinePasses
      <3> HIDE DEF j
      <3> QED
        BY <3>1, OneUnparked
    <2>3. CASE ApprovalTtlElapses(r)
      <3> DEFINE j == [run[r] EXCEPT !.overdue = TRUE]
      <3>1. j.status = run[r].status /\ run' = [run EXCEPT ![r] = j]
        BY <1>1, <2>3 DEF Run, ApprovalTtlElapses
      <3> HIDE DEF j
      <3> QED
        BY <3>1, OneUnparked
    <2> QED
      BY <2>1, <2>2, <2>3 DEF Time
  <1> QED
    BY <1>1, <1>2, QuietRowOnce

LEMMA SweepOnce ==
  ASSUME TypeOK, OnceInv, NEW r \in Runs, Sweep(r)
  PROVE  OnceInv'
  <1>1. worker' = worker /\ run[r] \in Run
    BY DEF TypeOK, Sweep, ReapExpiredLease, ExpireDeadlinedRun, ExpireApproval
  <1>2. CASE ReapExpiredLease(r)
    <2>1. PICK t : t = IF run[r].late THEN "EXPIRED"
                       ELSE IF run[r].attempts >= MaxAttempts THEN "FAILED" ELSE "QUEUED"
      OBVIOUS
    <2>2. t \notin {"WAITING_APPROVAL", "COMPLETED", "RUNNING"}
      BY <2>1
    <2> DEFINE j == Released(run[r], t)
    <2>3. run' = [run EXCEPT ![r] = j] /\ inv' = inv
      BY <1>2, <2>1 DEF ReapExpiredLease
    <2>4. j.status = t
      BY <1>1, <2>2, ReleasedCalls
    <2> HIDE DEF j
    <2> QED
      BY <1>1, <2>2, <2>3, <2>4, OneUnparked, QuietRowOnce
  <1>3. CASE ExpireDeadlinedRun(r)
    <2> DEFINE j == [run[r] EXCEPT !.status = "EXPIRED"]
    <2>1. j.status = "EXPIRED" /\ inv' = inv /\ run' = [run EXCEPT ![r] = j]
      BY <1>1, <1>3 DEF ExpireDeadlinedRun, Run
    <2> HIDE DEF j
    <2> QED
      BY <1>1, <2>1, OneUnparked, QuietRowOnce
  <1>4. CASE \E n \in Slots : ExpireApproval(r, n)
    <2>1. PICK n \in Slots : ExpireApproval(r, n)
      BY <1>4
    <2>2. PICK s, t : /\ s = (IF run[r].late THEN "SKIPPED" ELSE "REJECTED")
                      /\ t = (IF run[r].late THEN "EXPIRED" ELSE "FAILED")
      OBVIOUS
    <2>3. /\ n \in Gated(r) /\ Voided(r, n, s) /\ run' = [run EXCEPT ![r].status = t]
          /\ s \in {"REJECTED", "SKIPPED"} /\ t \notin {"WAITING_APPROVAL", "COMPLETED"}
      BY <2>1, <2>2 DEF ExpireApproval
    <2> QED
      BY <1>1, <2>3, VoidOnce
  <1> QED
    BY <1>2, <1>3, <1>4 DEF Sweep

LEMMA UserOnce ==
  ASSUME TypeOK, OnceInv, NEW r \in Runs, User(r)
  PROVE  OnceInv'
  <1>1. worker' = worker /\ run[r] \in Run
    BY DEF TypeOK, User, Create, Cancel, CancelQueued, CancelWaitingApproval, CancelRunning, Decide
  <1>2. CASE Create(r)
    <2> DEFINE j == [run[r] EXCEPT !.status = "QUEUED", !.gen = conv.gen]
    <2>1. j.status = "QUEUED" /\ run' = [run EXCEPT ![r] = j] /\ inv' = inv
      BY <1>1, <1>2 DEF Run, Create
    <2> HIDE DEF j
    <2> QED
      BY <1>1, <2>1, OneUnparked, QuietRowOnce
  <1>3. CASE Cancel(r) \/ CancelQueued(r)
    BY <1>1, <1>3, SameRunUnparked, QuietRowOnce, StatusOnce DEF Cancel, CancelQueued
  <1>4. CASE CancelWaitingApproval(r)
    BY <1>1, <1>4, SameRunUnparked, QuietRowOnce, VoidOnce DEF CancelWaitingApproval
  <1>5. CASE CancelRunning(r)
    <2>1. inv' = inv
      BY <1>5 DEF CancelRunning
    <2>2. CASE run' = run
      BY <1>1, <2>1, <2>2, SameRunUnparked, QuietRowOnce
    <2>3. CASE run' = [run EXCEPT ![r].cancelReq = TRUE]
      <3> DEFINE j == [run[r] EXCEPT !.cancelReq = TRUE]
      <3>1. j.status = run[r].status /\ run' = [run EXCEPT ![r] = j]
        BY <1>1, <2>3 DEF Run
      <3> HIDE DEF j
      <3> QED
        BY <1>1, <2>1, <3>1, OneUnparked, QuietRowOnce
    <2> QED
      BY <1>5, <2>2, <2>3 DEF CancelRunning
  <1>6. CASE \E n \in Slots, d \in {"APPROVED", "REJECTED"} : Decide(r, n, d)
    BY <1>6, DecideOnce
  <1> QED
    BY <1>2, <1>3, <1>4, <1>5, <1>6 DEF User

\* A takeover voids the one open gate of each parked run and leaves the others alone.
LEMMA TakeoverOnce ==
  ASSUME IInv, OnceInv, NEW h \in Humans, TakeControl(h) \/ ReleaseControl(h)
  PROVE  OnceInv'
  <1>1. worker' = worker /\ TypeOK
    BY DEF TakeControl, ReleaseControl, IInv
  <1>2. CASE ReleaseControl(h)
    BY <1>1, <1>2, SameRunUnparked, QuietRowOnce DEF ReleaseControl
  <1>3. CASE TakeControl(h)
    <2>1. \A r \in Runs : Stays(r) \/ Closes(r) \/ Voids(r)
      BY <1>3, TakeControlMoves
    <2>2. AllUnparked
      BY <2>1 DEF AllUnparked, Unparked, Stays, Closes, Voids, Becomes, Closed
    <2>3. ASSUME NEW r \in Runs
          PROVE  /\ Ledger(r)'
                 /\ run[r].status # "WAITING_APPROVAL" => inv'[r] = inv[r]
                 /\ run'[r].status = "COMPLETED" => inv'[r] = inv[r]
      <3>1. CASE Gated(r) = {}
        <4>1. inv[r] \in [Slots -> Inv]
          BY <1>1 DEF TypeOK
        <4>2. inv'[r] = [n \in Slots |-> inv[r][n]]
          BY <1>3, <3>1 DEF TakeControl
        <4>3. inv'[r] = inv[r]
          BY <4>1, <4>2
        <4> QED
          BY <4>3, SameLedger DEF OnceInv
      <3>2. CASE Gated(r) # {}
        <4>1. PICK n \in Gated(r) : TRUE
          BY <3>2
        <4>2. n \in Slots /\ inv[r][n].approval = "PENDING" /\ run[r].status = "WAITING_APPROVAL"
          BY DEF Gated, IsPending
        <4>3. Gated(r) = {n}
          BY <4>2 DEF IInv, ParkedGate
        <4>4. PICK i : i = [inv[r][n] EXCEPT !.status = "SKIPPED", !.approval = "EXPIRED"]
          OBVIOUS
        <4>5. inv'[r][n] = i /\ \A m \in Slots \ {n} : inv'[r][m] = inv[r][m]
          BY <1>3, <4>2, <4>3, <4>4 DEF TakeControl
        <4>6. Ledger(r)'
          <5>1. n \in Open(r) /\ i.status # "NONE" /\ Sane(i)
            BY <1>1, <4>1, <4>4, ClosedGateRow
          <5> QED
            BY <4>5, <5>1, ShiftedLedger DEF OnceInv
        <4>7. run'[r].status # "COMPLETED"
          BY <2>2, <4>2 DEF AllUnparked, Unparked
        <4> QED
          BY <4>2, <4>6, <4>7
      <3> QED
        BY <3>1, <3>2
    <2>4. \A r \in Runs : Answered(r)'
      BY <2>2, <2>3 DEF OnceInv, Answered, AllUnparked, Unparked
    <2> QED
      BY <1>1, <2>2, <2>3, <2>4, CalmOnce
  <1> QED
    BY <1>2, <1>3

LEMMA NextOnce ==
  ASSUME OneDrainLoop, IInv, OnceInv, [Next]_vars
  PROVE  OnceInv'
  <1>1. TypeOK
    BY DEF IInv
  <1>2. CASE UNCHANGED vars
    BY <1>1, <1>2, SameRunUnparked, QuietRowOnce DEF vars
  <1> QED
    BY <1>1, <1>2, LoopOnce, TimeOnce, SweepOnce, UserOnce, TakeoverOnce DEF Next

LEMMA InitOnce == Init => OnceInv
  <1> SUFFICES ASSUME Init PROVE OnceInv
    OBVIOUS
  <1>1. \A r \in Runs, n \in Slots : inv[r][n].status = "NONE" /\ inv[r][n].steps = 0
    BY DEF Init, NoInv, NewInv
  <1>2. \A r \in Runs : Open(r) = {}
    BY <1>1 DEF Open
  <1>3. \A r \in Runs : Ledger(r)
    BY <1>1, <1>2 DEF Ledger, Sane
  <1>4. \A r \in Runs : Answered(r)
    BY <1>1 DEF Answered
  <1>5. \A w \in Workers : Takes(w)
    BY DEF Init, Idle, Takes
  <1> QED
    BY <1>3, <1>4, <1>5 DEF OnceInv

\* With a single drain loop, however often it crashes, loses its lease or has its claim
\* reclaimed, a tool call reaches the transcript once, and no run answers over a call that
\* was approved and not carried out.
THEOREM AppliedOnceHolds ==
  ASSUME OneDrainLoop
  PROVE  Spec => []AppliedOnce
<1>1. OnceInv => AppliedOnce
  <2>1. ASSUME NEW k, k = 0 \/ k = 1 PROVE k <= 1
    BY <2>1
  <2> QED
    BY <2>1 DEF OnceInv, Ledger, Sane, Answered, AppliedOnce
<1>2. IInv /\ OnceInv /\ [Next]_vars => OnceInv'
  BY NextOnce
<1> QED
  BY <1>1, <1>2, InitOnce, InductiveInvariant, PTL DEF Spec

=============================================================================
