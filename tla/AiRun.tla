------------------------------- MODULE AiRun -------------------------------
(***************************************************************************)
(* The durable AI-run state machine: one conversation, the runs queued on  *)
(* it, the worker drain loops that claim and execute them, the owner's     *)
(* approval decisions and cancellations, the expiry sweeps, and the human  *)
(* takeover that fences the bot out.  Postgres is the only shared state.   *)
(*                                                                         *)
(* One action is one transaction, or one in-memory step of a worker        *)
(* between two awaits.  A worker keeps the claim it was handed; nothing    *)
(* but the compare-and-swap on (status, leaseToken) and the ownership      *)
(* fence stops it from writing after its lease was reclaimed.              *)
(***************************************************************************)
EXTENDS Integers, FiniteSets

CONSTANTS
  Runs,         \* run ids that may be created
  Workers,      \* concurrent drain loops, over all worker replicas
  Humans,       \* users able to take the conversation over
  Owner,        \* the conversation's owner
  Bot,          \* stands for controlledBy = BOT
  NoWorker,     \* leaseToken IS NULL
  NoRun,        \* an idle drain loop works on no run
  Cancellable,  \* runs whose owner may ask for cancellation
  Deadlined,    \* runs created with a deadlineAt
  MaxAttempts,  \* ai_runs.maxAttempts
  MaxSteps,     \* AI_TOOL_LOOP_MAX_STEPS
  BatchLimit,   \* AI_RUN_CLAIM_BATCH_LIMIT
  MaxInv,       \* bound: tool invocations per run
  MaxGen        \* bound: ownership generations

ASSUME ConstantsAssumption ==
  /\ Owner \in Humans
  /\ Bot \notin Humans
  /\ IsFiniteSet(Workers)
  /\ NoWorker \notin Workers
  /\ NoRun \notin Runs
  /\ Cancellable \subseteq Runs
  /\ Deadlined \subseteq Runs
  /\ MaxAttempts \in Nat \ {0}
  /\ MaxSteps \in Nat \ {0}
  /\ BatchLimit \in Nat \ {0}
  /\ MaxInv \in Nat
  /\ MaxGen \in Nat

VARIABLES
  run,      \* ai_runs rows, with the steps, ledger and transcript counts of each run
  inv,      \* ai_tool_invocations of each run in creation order, each with its ai_approvals row
  conv,     \* the ai_conversations row: holder and ownershipGeneration
  worker,   \* what each drain loop holds in memory
  cancel    \* progress of the owner's cancel request for each run

vars == <<run, inv, conv, worker, cancel>>

Terminal == {"COMPLETED", "FAILED", "CANCELLED", "EXPIRED"}
Status == {"NONE", "QUEUED", "RUNNING", "WAITING_APPROVAL"} \cup Terminal

InvStatus == {"NONE", "AWAITING_APPROVAL", "APPROVED", "REJECTED", "SKIPPED",
              "EXECUTING", "SUCCEEDED", "FAILED"}
ApprovalState == {"NONE", "PENDING", "APPROVED", "REJECTED", "EXPIRED"}

Slots == 1 .. MaxInv

\* Where a worker stands inside one attempt.
Pc == {"idle", "preflight", "inputs", "guards", "resume", "rejecting", "approved", "loop",
       "provider", "refusing", "dispatch", "executing", "toolOk", "toolFail", "failing"}

CancelPc == {"none", "queued", "waiting", "running", "done"}

\* Counters of tool executions and applied steps only tell none, one and several apart.
Few == 0 .. 2
More(k) == IF k = 2 THEN 2 ELSE k + 1

Run == [status : Status, attempts : Nat, lease : Workers \cup {NoWorker},
        live : BOOLEAN,      \* leaseExpiresAt is in the future
        gen : Nat,           \* ownershipGeneration frozen at creation
        cancelReq : BOOLEAN, \* cancellationRequestedAt is set
        late : BOOLEAN,      \* deadlineAt has passed
        overdue : BOOLEAN,   \* the pending approval's TTL has elapsed
        calls : Nat,         \* committed PROVIDER_CALL steps, one ledger row each
        turns : Nat]         \* assistant messages of this run in the transcript

Inv == [status : InvStatus, approval : ApprovalState,
        execs : Few,         \* times the tool was started
        steps : Few]         \* TOOL_INVOCATION steps that refer to it

Worker == [pc : Pc, run : Runs \cup {NoRun}, todo : SUBSET Runs,
           known : Nat,      \* providerCalls, the loop's local counter
           inv : Nat]        \* the invocation in hand, 0 if none

TypeOK ==
  /\ run \in [Runs -> Run]
  /\ inv \in [Runs -> [Slots -> Inv]]
  /\ conv \in [holder : Humans \cup {Bot}, gen : Nat]
  /\ worker \in [Workers -> Worker]
  /\ cancel \in [Runs -> CancelPc]

\* A freshly inserted invocation, with its approval row if it has one.
NewInv(s, a) == [status |-> s, approval |-> a, execs |-> 0, steps |-> 0]
NoInv == NewInv("NONE", "NONE")
Idle == [pc |-> "idle", run |-> NoRun, todo |-> {}, known |-> 0, inv |-> 0]

Init ==
  /\ run = [r \in Runs |->
              [status |-> "NONE", attempts |-> 0, lease |-> NoWorker, live |-> FALSE,
               gen |-> 0, cancelReq |-> FALSE, late |-> FALSE, overdue |-> FALSE,
               calls |-> 0, turns |-> 0]]
  /\ inv = [r \in Runs |-> [n \in Slots |-> NoInv]]
  /\ conv = [holder |-> Bot, gen |-> 0]
  /\ worker = [w \in Workers |-> Idle]
  /\ cancel = [r \in Runs |-> "none"]

-----------------------------------------------------------------------------
(* The compare-and-swap and the ownership fence.                           *)

\* The CAS predicate of every finalizer: id, status RUNNING and this lease token.
Owns(w, r) == run[r].status = "RUNNING" /\ run[r].lease = w

\* isBotOwnershipStale: a human holds control, or held it since the run was created.
Stale(r) == conv.holder # Bot \/ conv.gen # run[r].gen

\* A run leaves RUNNING for status s and its lease is released.
Released(rec, s) == [rec EXCEPT !.status = s, !.lease = NoWorker, !.live = FALSE]

\* It leaves RUNNING with a turn in the transcript.
Spoken(rec, s) == [Released(rec, s) EXCEPT !.turns = rec.turns + 1]

\* One more PROVIDER_CALL step, and its usage-ledger row.
Counted(rec) == [rec EXCEPT !.calls = rec.calls + 1]

\* Slip: the update is keyed by the run id alone.
CasById(w, r, s) == run' = [run EXCEPT ![r] = Released(@, s)]

\* updateMany on the CAS predicate: no row matches once the lease is lost.
Cas(w, r, s) == run' = IF Owns(w, r) THEN [run EXCEPT ![r] = Released(@, s)] ELSE run

\* finalizeRetry: back to QUEUED while attempts remain, else FAILED.
CasRetry(w, r) ==
  Cas(w, r, IF run[r].attempts >= MaxAttempts THEN "FAILED" ELSE "QUEUED")

\* The worker drops the claim in hand; the rest of its batch stays.
Done(w) == worker' = [worker EXCEPT ![w] = [Idle EXCEPT !.todo = worker[w].todo]]

Goto(w, pc) == worker' = [worker EXCEPT ![w].pc = pc]

At(w, pc) == worker[w].pc = pc /\ worker[w].run \in Runs

\* finalizeSuperseded: abandon the run without a transcript turn.
FinalizeSuperseded(w) == Cas(w, worker[w].run, "CANCELLED") /\ Done(w)

-----------------------------------------------------------------------------
(* Producer, claim and recovery.                                           *)

\* AiRunProducerService.create: refused under human control, freezes the generation.
Create(r) ==
  /\ run[r].status = "NONE"
  /\ conv.holder = Bot
  /\ run' = [run EXCEPT ![r].status = "QUEUED", ![r].gen = conv.gen]
  /\ UNCHANGED <<inv, conv, worker, cancel>>

\* Slip: the claim does not spend an attempt.
ClaimUncounted(w) ==
  /\ worker[w].pc = "idle" /\ worker[w].todo = {}
  /\ \E r \in {r \in Runs : run[r].status = "QUEUED" /\ ~run[r].late} :
       /\ run' = [run EXCEPT ![r].status = "RUNNING", ![r].lease = w, ![r].live = TRUE]
       /\ worker' = [worker EXCEPT ![w].todo = {r}]
  /\ UNCHANGED <<inv, conv, cancel>>

\* One UPDATE leases a batch; SKIP LOCKED may leave out any due row.
ClaimDueBatch(w) ==
  /\ worker[w].pc = "idle" /\ worker[w].todo = {}
  /\ \E S \in SUBSET {r \in Runs : run[r].status = "QUEUED" /\ ~run[r].late} :
       /\ S # {} /\ Cardinality(S) <= BatchLimit
       /\ run' = [r \in Runs |->
                    IF r \in S
                    THEN [run[r] EXCEPT !.status = "RUNNING", !.lease = w, !.live = TRUE,
                                        !.attempts = @ + 1]
                    ELSE run[r]]
       /\ worker' = [worker EXCEPT ![w].todo = S]
  /\ UNCHANGED <<inv, conv, cancel>>

\* The lease TTL elapses: the worker died, stalled, or is still busy with its batch.
LeaseExpires(r) ==
  /\ run[r].status = "RUNNING" /\ run[r].live
  /\ run' = [run EXCEPT ![r].live = FALSE]
  /\ UNCHANGED <<inv, conv, worker, cancel>>

\* Slip: the attempts test of the reaper is off by one.
ReapOneMore(r) ==
  /\ run[r].status = "RUNNING" /\ ~run[r].live
  /\ run' = [run EXCEPT ![r] = Released(@, IF @.attempts > MaxAttempts THEN "FAILED"
                                           ELSE "QUEUED")]
  /\ UNCHANGED <<inv, conv, worker, cancel>>

ReapExpiredLease(r) ==
  /\ run[r].status = "RUNNING" /\ ~run[r].live
  /\ run' = [run EXCEPT ![r] = Released(@, IF @.late THEN "EXPIRED"
                                           ELSE IF @.attempts >= MaxAttempts THEN "FAILED"
                                           ELSE "QUEUED")]
  /\ UNCHANGED <<inv, conv, worker, cancel>>

DeadlinePasses(r) ==
  /\ r \in Deadlined /\ run[r].status # "NONE" /\ ~run[r].late
  /\ run' = [run EXCEPT ![r].late = TRUE]
  /\ UNCHANGED <<inv, conv, worker, cancel>>

ExpireDeadlinedRun(r) ==
  /\ run[r].status = "QUEUED" /\ run[r].late
  /\ run' = [run EXCEPT ![r].status = "EXPIRED"]
  /\ UNCHANGED <<inv, conv, worker, cancel>>

-----------------------------------------------------------------------------
(* One attempt of a claimed run.                                           *)

\* drainDueBatches executes its batch one run at a time.
StartAttempt(w) ==
  /\ worker[w].pc = "idle"
  /\ \E r \in worker[w].todo :
       worker' = [worker EXCEPT ![w].pc = "preflight", ![w].run = r, ![w].todo = @ \ {r}]
  /\ UNCHANGED <<run, inv, conv, cancel>>

\* preflight re-reads the cancel flag and the deadline.
PreflightRun(w) ==
  LET r == worker[w].run IN
  /\ At(w, "preflight")
  /\ \/ run[r].cancelReq /\ Cas(w, r, "CANCELLED") /\ Done(w)
     \/ ~run[r].cancelReq /\ run[r].late /\ Cas(w, r, "EXPIRED") /\ Done(w)
     \/ ~run[r].cancelReq /\ ~run[r].late /\ Goto(w, "inputs") /\ UNCHANGED run
  /\ UNCHANGED <<inv, conv, cancel>>

\* preflight reads the conversation row and the run's own input turn.  A snapshot or an
\* input that is missing fails the run before the fence is looked at.
PreflightFence(w) ==
  LET r == worker[w].run IN
  /\ At(w, "inputs")
  /\ \/ Stale(r) /\ FinalizeSuperseded(w)
     \/ Cas(w, r, "FAILED") /\ Done(w)
     \/ ~Stale(r) /\ Goto(w, "guards") /\ UNCHANGED run
  /\ UNCHANGED <<inv, conv, cancel>>

\* The kill switch, the input guards and the artifact fetch, long after the fence was read.
PreflightInputs(w) ==
  LET r == worker[w].run IN
  /\ At(w, "guards")
  /\ \/ Cas(w, r, "FAILED") /\ Done(w)
     \/ CasRetry(w, r) /\ Done(w)
     \/ \E pc \in {"refusing", "resume"} : Goto(w, pc) /\ UNCHANGED run
  /\ UNCHANGED <<inv, conv, cancel>>

\* findPendingApproval: the newest decided or stranded invocation of the run, if any;
\* a rejection that already has its step is no longer pending.
Undone(r) == {n \in Slots : inv[r][n].status \in {"APPROVED", "EXECUTING", "REJECTED"}}
Newest(r) == {n \in Undone(r) : \A m \in Undone(r) : m <= n}
\* Slip: a rejection stays pending after its step was written.
PendingOrApplied(r) == Newest(r)

Pending(r) == {n \in Newest(r) : ~(inv[r][n].status = "REJECTED" /\ inv[r][n].steps > 0)}

\* Slip: whatever was decided is executed.
ResumeUnchecked(w) ==
  LET r == worker[w].run IN
  /\ At(w, "resume")
  /\ \/ Pending(r) = {} /\ Goto(w, "loop")
     \/ \E n \in Pending(r) :
          worker' = [worker EXCEPT ![w] = [@ EXCEPT !.pc = "executing", !.inv = n]]
  /\ UNCHANGED <<run, inv, conv, cancel>>

\* The loop rebuilds its rounds and its call count, then looks for a landed decision.
Resume(w) ==
  LET r == worker[w].run IN
  /\ At(w, "resume")
  /\ \/ /\ Pending(r) = {}
        /\ worker' = [worker EXCEPT ![w] = [@ EXCEPT !.pc = "loop", !.known = run[r].calls]]
     \/ \E n \in Pending(r) :
          \E pc \in IF inv[r][n].status = "REJECTED" THEN {"rejecting"} ELSE {"approved", "failing"} :
            worker' = [worker EXCEPT ![w] = [@ EXCEPT !.pc = pc, !.known = run[r].calls,
                                                      !.inv = n]]
  /\ UNCHANGED <<run, inv, conv, cancel>>

ApplyRejected(w) ==
  LET r == worker[w].run  n == worker[w].inv IN
  /\ At(w, "rejecting")
  /\ \/ Stale(r) /\ FinalizeSuperseded(w) /\ UNCHANGED inv
     \/ /\ ~Stale(r)
        /\ inv' = [inv EXCEPT ![r][n].steps = More(@)]
        /\ Goto(w, "loop") /\ UNCHANGED run
  /\ UNCHANGED <<conv, cancel>>

\* The {APPROVED, EXECUTING} -> EXECUTING gate; a tool, risk or argument mismatch fails.
ExecuteApproved(w) ==
  LET r == worker[w].run  n == worker[w].inv IN
  /\ At(w, "approved")
  /\ \/ Stale(r) /\ FinalizeSuperseded(w) /\ UNCHANGED inv
     \/ /\ ~Stale(r) /\ inv[r][n].status \in {"APPROVED", "EXECUTING"}
        /\ inv' = [inv EXCEPT ![r][n].status = "EXECUTING"]
        /\ Goto(w, "executing") /\ UNCHANGED run
     \/ ~Stale(r) /\ Goto(w, "failing") /\ UNCHANGED <<run, inv>>
  /\ UNCHANGED <<conv, cancel>>

\* Slip: the loop goes on although its lease could not be renewed.
LoopTopUnleased(w) ==
  LET r == worker[w].run IN
  /\ At(w, "loop")
  /\ \/ Stale(r) /\ FinalizeSuperseded(w)
     \/ ~Stale(r) /\ run[r].late /\ Cas(w, r, "EXPIRED") /\ Done(w)
     \/ /\ ~Stale(r) /\ ~run[r].late
        /\ Goto(w, IF worker[w].known >= MaxSteps THEN "failing" ELSE "provider")
        /\ UNCHANGED run
  /\ UNCHANGED <<inv, conv, cancel>>

\* Loop top: renew the lease, then the early exits, else call the provider.
LoopTop(w) ==
  LET r == worker[w].run IN
  /\ At(w, "loop")
  /\ \/ ~Owns(w, r) /\ Done(w) /\ UNCHANGED run
     \/ Owns(w, r) /\ Stale(r) /\ FinalizeSuperseded(w)
     \/ Owns(w, r) /\ ~Stale(r) /\ run[r].late /\ Cas(w, r, "EXPIRED") /\ Done(w)
     \/ /\ Owns(w, r) /\ ~Stale(r) /\ ~run[r].late
        /\ Goto(w, IF worker[w].known >= MaxSteps THEN "failing" ELSE "provider")
        /\ run' = [run EXCEPT ![r].live = TRUE]
  /\ UNCHANGED <<inv, conv, cancel>>

-----------------------------------------------------------------------------
(* What a provider call may lead to.                                       *)

\* gatewayError reads the ownership without a lock before it writes: a takeover may land
\* between the two, so only the superseded outcome depends on the current holder.
GatewayError(w) ==
  LET r == worker[w].run IN
  /\ At(w, "provider")
  /\ \/ Stale(r) /\ Cas(w, r, "CANCELLED")
     \/ CasRetry(w, r)
     \/ Cas(w, r, "FAILED")
  /\ Done(w)
  /\ UNCHANGED <<inv, conv, cancel>>

OutputBlocked(w) ==
  /\ At(w, "provider")
  /\ Goto(w, "refusing")
  /\ UNCHANGED <<run, inv, conv, cancel>>

\* finalizeRefusal: the canned turn and the terminal CAS commit together or not at all.
FinalizeRefusal(w) ==
  LET r == worker[w].run IN
  /\ At(w, "refusing")
  /\ \/ Stale(r) /\ Cas(w, r, "CANCELLED")
     \/ /\ ~Stale(r)
        /\ run' = IF Owns(w, r)
                  THEN [run EXCEPT ![r] = Spoken(@, "FAILED")]
                  ELSE run
  /\ Done(w)
  /\ UNCHANGED <<inv, conv, cancel>>

\* Slip: the turn is written even when the terminal CAS matches no row.
SuccessWithoutCas(w) ==
  LET r == worker[w].run IN
  /\ At(w, "provider") /\ ~Stale(r)
  /\ run' = [run EXCEPT ![r] = IF Owns(w, r) THEN Spoken(@, "COMPLETED")
                               ELSE [@ EXCEPT !.turns = @ + 1]]
  /\ Done(w)
  /\ UNCHANGED <<inv, conv, cancel>>

\* Slip: the terminal transaction skips the ownership fence.
SuccessUnfenced(w) ==
  LET r == worker[w].run IN
  /\ At(w, "provider") /\ Owns(w, r)
  /\ run' = [run EXCEPT ![r] = Spoken(@, "COMPLETED")]
  /\ Done(w)
  /\ UNCHANGED <<inv, conv, cancel>>

\* success: assistant turn, steps, ledger and the terminal CAS in one transaction.
Success(w) ==
  LET r == worker[w].run IN
  /\ At(w, "provider")
  /\ \/ Stale(r) /\ Cas(w, r, "CANCELLED")
     \/ /\ ~Stale(r)
        /\ run' = IF Owns(w, r)
                  THEN [run EXCEPT ![r] = Counted(Spoken(@, "COMPLETED"))]
                  ELSE run
  /\ Done(w)
  /\ UNCHANGED <<inv, conv, cancel>>

\* The answer breaks the tool policy: record the call and fail.
AfterProviderFailure(w) ==
  LET r == worker[w].run IN
  /\ At(w, "provider")
  /\ \/ Stale(r) /\ Cas(w, r, "CANCELLED")
     \/ /\ ~Stale(r)
        /\ run' = IF Owns(w, r)
                  THEN [run EXCEPT ![r] = Counted(Released(@, "FAILED"))]
                  ELSE run
  /\ Done(w)
  /\ UNCHANGED <<inv, conv, cancel>>

NextSlot(r) == {n \in Slots : /\ inv[r][n].status = "NONE"
                              /\ \A m \in Slots : m < n => inv[r][m].status # "NONE"}

\* MaxInv leaves a slot for this call beside the calls already on their way to dispatch.
Room(r) ==
  Cardinality({v \in Workers : worker[v].pc = "dispatch" /\ worker[v].run = r})
    < Cardinality({n \in Slots : inv[r][n].status = "NONE"})

\* park: provider call, approval, gated invocation and the park CAS in one transaction.
Park(w) ==
  LET r == worker[w].run IN
  /\ At(w, "provider")
  /\ Room(r)
  /\ \/ Stale(r) /\ Cas(w, r, "CANCELLED") /\ UNCHANGED inv
     \/ ~Stale(r) /\ ~Owns(w, r) /\ UNCHANGED <<run, inv>>
     \/ /\ ~Stale(r) /\ Owns(w, r)
        /\ run' = [run EXCEPT ![r] = [Counted(Released(@, "WAITING_APPROVAL")) EXCEPT
                                        !.overdue = FALSE]]
        /\ \E n \in NextSlot(r) :
             inv' = [inv EXCEPT ![r][n] = NewInv("AWAITING_APPROVAL", "PENDING")]
  /\ Done(w)
  /\ UNCHANGED <<conv, cancel>>

\* recordProviderCall: fenced, but no CAS on the lease.
RecordProviderCall(w) ==
  LET r == worker[w].run IN
  /\ At(w, "provider")
  /\ Room(r)
  /\ \/ Stale(r) /\ FinalizeSuperseded(w)
     \/ /\ ~Stale(r)
        /\ run' = [run EXCEPT ![r] = Counted(@)]
        /\ worker' = [worker EXCEPT ![w].pc = "dispatch", ![w].known = @ + 1]
  /\ UNCHANGED <<inv, conv, cancel>>

-----------------------------------------------------------------------------
(* Tool dispatch.                                                          *)

\* dispatch: a SAFE call becomes an EXECUTING invocation, or FAILED on bad arguments.
Dispatch(w) ==
  LET r == worker[w].run IN
  /\ At(w, "dispatch")
  /\ \/ Stale(r) /\ FinalizeSuperseded(w) /\ UNCHANGED inv
     \/ /\ ~Stale(r) /\ UNCHANGED run
        /\ \E n \in NextSlot(r), s \in {"EXECUTING", "FAILED"} :
             /\ inv' = [inv EXCEPT ![r][n] = NewInv(s, "NONE")]
             /\ worker' = [worker EXCEPT
                  ![w] = [@ EXCEPT !.inv = n,
                                   !.pc = IF s = "FAILED" THEN "failing" ELSE "executing"]]
  /\ UNCHANGED <<conv, cancel>>

\* The tool runs outside any transaction; a timeout leaves its effect in place.
RunTool(w) ==
  LET r == worker[w].run  n == worker[w].inv IN
  /\ At(w, "executing")
  /\ inv' = [inv EXCEPT ![r][n].execs = More(@)]
  /\ \E pc \in {"toolOk", "toolFail"} : Goto(w, pc)
  /\ UNCHANGED <<run, conv, cancel>>

\* runToCompletion's second transaction: fenced, keyed by the invocation id alone.
CommitTool(w) ==
  LET r == worker[w].run  n == worker[w].inv IN
  /\ At(w, "toolOk")
  /\ \/ Stale(r) /\ FinalizeSuperseded(w) /\ UNCHANGED inv
     \/ /\ ~Stale(r)
        /\ inv' = [inv EXCEPT ![r][n].status = "SUCCEEDED", ![r][n].steps = More(@)]
        /\ Goto(w, "loop") /\ UNCHANGED run
  /\ UNCHANGED <<conv, cancel>>

\* finalizeFailed of the dispatcher: unfenced, keyed by the invocation id alone.
FailTool(w) ==
  LET r == worker[w].run  n == worker[w].inv IN
  /\ At(w, "toolFail")
  /\ inv' = [inv EXCEPT ![r][n].status = "FAILED"]
  /\ Goto(w, "failing")
  /\ UNCHANGED <<run, conv, cancel>>

\* exhausted and dispatchFailed: a fenced terminal FAILED.
FailRun(w) ==
  LET r == worker[w].run IN
  /\ At(w, "failing")
  /\ Cas(w, r, IF Stale(r) THEN "CANCELLED" ELSE "FAILED")
  /\ Done(w)
  /\ UNCHANGED <<inv, conv, cancel>>

\* A finalizer or park transaction faults: the run is left RUNNING for the reaper.
Abandon(w) ==
  /\ At(w, "provider") \/ At(w, "failing")
  /\ Done(w)
  /\ UNCHANGED <<run, inv, conv, cancel>>

\* The process dies, or an error escapes the drain: the whole batch is dropped.
Crash(w) ==
  /\ worker[w] # Idle
  /\ worker' = [worker EXCEPT ![w] = Idle]
  /\ UNCHANGED <<run, inv, conv, cancel>>

-----------------------------------------------------------------------------
(* Approvals: decision, expiry and cancel share the lock on approval + run. *)

IsPending(r, n) == inv[r][n].approval = "PENDING" /\ inv[r][n].status = "AWAITING_APPROVAL"
Gated(r) == {n \in Slots : IsPending(r, n) /\ run[r].status = "WAITING_APPROVAL"}
Overdue(r) == run[r].overdue \/ run[r].late

ApprovalTtlElapses(r) ==
  /\ Gated(r) # {} /\ ~run[r].overdue
  /\ run' = [run EXCEPT ![r].overdue = TRUE]
  /\ UNCHANGED <<inv, conv, worker, cancel>>

Decided(r, n, s) == inv' = [inv EXCEPT ![r][n] = [@ EXCEPT !.status = s, !.approval = s]]
\* Slip: the approval row takes the status meant for the invocation.
VoidedAlike(r, n, s) == Decided(r, n, s)

Voided(r, n, s) == inv' = [inv EXCEPT ![r][n] = [@ EXCEPT !.status = s, !.approval = "EXPIRED"]]

\* applyDecision: the re-queue hands the attempt of the parked claim back.
Decide(r, n, decision) ==
  /\ n \in Gated(r) /\ ~Overdue(r)
  /\ Decided(r, n, decision)
  /\ run' = [run EXCEPT ![r].status = "QUEUED", ![r].attempts = IF @ > 0 THEN @ - 1 ELSE @]
  /\ UNCHANGED <<conv, worker, cancel>>

\* expireApproval, from the decision's freshness gate or from the worker sweep.
ExpireApproval(r, n) ==
  /\ n \in Gated(r) /\ Overdue(r)
  /\ Voided(r, n, IF run[r].late THEN "SKIPPED" ELSE "REJECTED")
  /\ run' = [run EXCEPT ![r].status = IF run[r].late THEN "EXPIRED" ELSE "FAILED"]
  /\ UNCHANGED <<conv, worker, cancel>>

-----------------------------------------------------------------------------
(* Cancellation: a read and three statements, each its own transaction.    *)

Cancel(r) ==
  /\ r \in Cancellable /\ cancel[r] = "none"
  /\ run[r].status \notin Terminal \cup {"NONE"}
  /\ cancel' = [cancel EXCEPT ![r] = "queued"]
  /\ UNCHANGED <<run, inv, conv, worker>>

\* Slip: the first statement of the cancellation does not test the status.
CancelAnyStatus(r) ==
  /\ cancel[r] = "queued"
  /\ run' = [run EXCEPT ![r].status = "CANCELLED"]
  /\ cancel' = [cancel EXCEPT ![r] = "done"]
  /\ UNCHANGED <<inv, conv, worker>>

CancelQueued(r) ==
  /\ cancel[r] = "queued"
  /\ \/ /\ run[r].status = "QUEUED"
        /\ run' = [run EXCEPT ![r].status = "CANCELLED"]
        /\ cancel' = [cancel EXCEPT ![r] = "done"]
     \/ /\ run[r].status # "QUEUED" /\ UNCHANGED run
        /\ cancel' = [cancel EXCEPT ![r] = "waiting"]
  /\ UNCHANGED <<inv, conv, worker>>

\* Slip: the run is cancelled, its open gate is forgotten.
CancelWaitingRun(r) ==
  /\ cancel[r] = "waiting" /\ run[r].status = "WAITING_APPROVAL"
  /\ run' = [run EXCEPT ![r].status = "CANCELLED"]
  /\ cancel' = [cancel EXCEPT ![r] = "done"]
  /\ UNCHANGED <<inv, conv, worker>>

CancelWaitingApproval(r) ==
  /\ cancel[r] = "waiting"
  /\ \/ \E n \in Gated(r) :
          /\ Voided(r, n, "SKIPPED")
          /\ run' = [run EXCEPT ![r].status = "CANCELLED"]
          /\ cancel' = [cancel EXCEPT ![r] = "done"]
     \/ /\ Gated(r) = {} /\ UNCHANGED <<run, inv>>
        /\ cancel' = [cancel EXCEPT ![r] = "running"]
  /\ UNCHANGED <<conv, worker>>

CancelRunning(r) ==
  /\ cancel[r] = "running"
  /\ run' = IF run[r].status = "RUNNING" THEN [run EXCEPT ![r].cancelReq = TRUE] ELSE run
  /\ cancel' = [cancel EXCEPT ![r] = "done"]
  /\ UNCHANGED <<inv, conv, worker>>

-----------------------------------------------------------------------------
(* Human takeover and release, under the conversation's row lock.          *)

\* takeControl: void the parked gates, sweep the queued runs, bump the generation.
TakeControl(h) ==
  /\ conv.holder # h
  /\ conv.holder = Bot \/ h = Owner
  /\ conv.gen < MaxGen
  /\ run' = [r \in Runs |-> IF run[r].status = "QUEUED" \/ Gated(r) # {}
                            THEN Released(run[r], "CANCELLED") ELSE run[r]]
  /\ inv' = [r \in Runs |-> [n \in Slots |->
               IF n \in Gated(r)
               THEN [inv[r][n] EXCEPT !.status = "SKIPPED", !.approval = "EXPIRED"]
               ELSE inv[r][n]]]
  /\ conv' = [holder |-> h, gen |-> conv.gen + 1]
  /\ UNCHANGED <<worker, cancel>>

ReleaseControl(h) ==
  /\ conv.holder # Bot
  /\ conv.holder = h \/ h = Owner
  /\ conv.gen < MaxGen
  /\ conv' = [holder |-> Bot, gen |-> conv.gen + 1]
  /\ UNCHANGED <<run, inv, worker, cancel>>

-----------------------------------------------------------------------------
Attempt(w) ==
  \/ StartAttempt(w) \/ PreflightRun(w) \/ PreflightFence(w) \/ PreflightInputs(w)
  \/ Resume(w)
  \/ ApplyRejected(w) \/ ExecuteApproved(w) \/ LoopTop(w)
  \/ GatewayError(w) \/ OutputBlocked(w) \/ FinalizeRefusal(w) \/ Success(w)
  \/ AfterProviderFailure(w) \/ Park(w) \/ RecordProviderCall(w)
  \/ Dispatch(w) \/ RunTool(w) \/ CommitTool(w) \/ FailTool(w) \/ FailRun(w)

Fault(w) == Abandon(w) \/ Crash(w)

Time(r) == LeaseExpires(r) \/ DeadlinePasses(r) \/ ApprovalTtlElapses(r)

\* The recovery cron and the approval-expiry sweep of any worker replica.
Sweep(r) ==
  \/ ReapExpiredLease(r) \/ ExpireDeadlinedRun(r)
  \/ \E n \in Slots : ExpireApproval(r, n)

User(r) ==
  \/ Create(r)
  \/ Cancel(r) \/ CancelQueued(r) \/ CancelWaitingApproval(r) \/ CancelRunning(r)
  \/ \E n \in Slots, d \in {"APPROVED", "REJECTED"} : Decide(r, n, d)

Next ==
  \/ \E w \in Workers : ClaimDueBatch(w) \/ Attempt(w) \/ Fault(w)
  \/ \E r \in Runs : Time(r) \/ Sweep(r) \/ User(r)
  \/ \E h \in Humans : TakeControl(h) \/ ReleaseControl(h)

Spec == Init /\ [][Next]_vars

\* The drain job and the 30 s crons run on every replica and restart with it, time
\* passes, and nothing else is promised: no user has to act, and any worker may crash.
Fairness ==
  /\ \A w \in Workers : WF_vars(ClaimDueBatch(w) \/ Attempt(w))
  /\ \A r \in Runs : /\ WF_vars(LeaseExpires(r)) /\ WF_vars(ReapExpiredLease(r))
                     /\ WF_vars(ExpireDeadlinedRun(r)) /\ WF_vars(ApprovalTtlElapses(r))
                     /\ WF_vars(\E n \in Slots : ExpireApproval(r, n))

LiveSpec == Spec /\ Fairness

-----------------------------------------------------------------------------
(* Safety.                                                                 *)

\* A claim spends an attempt and a decision hands it back: however claims, retries, reaps
\* and approvals interleave, a queued run can always be claimed once more within
\* maxAttempts, and a claimed or parked one has an attempt to hand back.
AttemptBudget ==
  \A r \in Runs :
    /\ run[r].attempts <= MaxAttempts
    /\ run[r].status = "QUEUED" => run[r].attempts < MaxAttempts
    /\ run[r].status \in {"RUNNING", "WAITING_APPROVAL"} => run[r].attempts >= 1

\* The parked run, its approval and its gated invocation always agree: a run waits exactly
\* when one gate is open, so neither decide, expiry, cancel nor takeover can strand a run
\* behind a closed gate or leave an open gate on a run that has moved on.
ParkedGate ==
  \A r \in Runs :
    /\ run[r].status = "WAITING_APPROVAL" <=> Gated(r) # {}
    /\ \A n \in Slots : inv[r][n].approval = "PENDING" => Gated(r) = {n}

\* A run puts at most one turn in the transcript; a completed run has put exactly one, and
\* a run that is neither completed nor refused has put none, whatever stale workers do.
ExactlyOneTurn ==
  \A r \in Runs :
    /\ run[r].turns <= 1
    /\ run[r].status = "COMPLETED" => run[r].turns = 1
    /\ run[r].turns = 1 => run[r].status \in {"COMPLETED", "FAILED"}

\* A gated tool has been started only if its owner approved it: no crash, reclaim or stale
\* worker reaches a gated call whose gate is open, rejected, expired or voided.
ApprovedOnly ==
  \A r \in Runs, n \in Slots :
    inv[r][n].approval \notin {"NONE", "APPROVED"} => inv[r][n].execs = 0

\* The call count is a local variable of the loop, yet it bounds the provider steps of the
\* run: whatever attempts overlap, a worker that lost its lease adds one call at most.
StepBudget == \A r \in Runs : run[r].calls <= MaxSteps + Cardinality(Workers) - 1

\* With a single drain loop, crashes and reclaims apply a tool call to the transcript once:
\* an invocation has at most one TOOL_INVOCATION step, and a run does not answer over a
\* call that was approved and never carried out.
AppliedOnce ==
  \A r \in Runs, n \in Slots :
    /\ inv[r][n].steps <= 1
    /\ run[r].status = "COMPLETED" => inv[r][n].status # "APPROVED"

-----------------------------------------------------------------------------
(* Action and liveness properties.                                         *)

\* A run that has ended keeps its outcome and its transcript.
TerminalIsForever ==
  [][\A r \in Runs : run[r].status \in Terminal =>
       run'[r].status = run[r].status /\ run'[r].turns = run[r].turns]_vars

\* Every run a user submits ends, even if nobody ever decides, cancels or takes over.
EveryRunEnds ==
  \A r \in Runs : run[r].status # "NONE" ~> run[r].status \in Terminal

-----------------------------------------------------------------------------
(* What the documentation says and the code does not do.                   *)

\* "The run's single pending-application invocation": no run answers over an approved call.
\* A second drain loop breaks it, since a stale dispatch hides the older, approved call.
ApprovedIsApplied ==
  \A r \in Runs, n \in Slots :
    run[r].status = "COMPLETED" => inv[r][n].status # "APPROVED"

\* "There are no bot runs to supersede": no run is queued while a human holds control.
NoQueuedRunUnderHuman == conv.holder # Bot => \A r \in Runs : run[r].status # "QUEUED"

\* "Queued runs cancel immediately; running runs record a cancel request."
CancelLands ==
  \A r \in Runs : cancel[r] = "done" => run[r].status \in Terminal \/ run[r].cancelReq

-----------------------------------------------------------------------------
(* The abstract contract, with leases, retries, tools and approvals hidden. *)

\* A transcript turn under any other status is an outcome the contract does not know.
Outcome(r) ==
  CASE run[r].status = "NONE" -> "none"
    [] run[r].status \in {"QUEUED", "RUNNING", "WAITING_APPROVAL"} /\ run[r].turns = 0 -> "open"
    [] run[r].status = "COMPLETED" /\ run[r].turns = 1 -> "answered"
    [] run[r].status = "FAILED" /\ run[r].turns = 1 -> "refused"
    [] run[r].status \in Terminal \ {"COMPLETED"} /\ run[r].turns = 0 -> "closed"
    [] OTHER -> "broken"

Contract ==
  INSTANCE AiRunContract WITH
    outcome <- [r \in Runs |-> Outcome(r)],
    born <- [r \in Runs |-> run[r].gen],
    holder <- conv.holder,
    gen <- conv.gen

\* Every step of the runs, the workers and the users is a step of the contract or none.
ImplementsContract == Contract!Spec
=============================================================================
