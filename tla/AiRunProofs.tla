---------------------------- MODULE AiRunProofs ----------------------------
(***************************************************************************)
(* Proofs about AiRun for every set of runs, workers and humans and every  *)
(* bound.                                                                  *)
(***************************************************************************)
EXTENDS AiRun, TLAPS

-----------------------------------------------------------------------------
(* Type correctness.                                                       *)

\* A released record keeps its budget, its generation and its turns.
LEMMA ReleasedType ==
  ASSUME NEW rec \in Run, NEW s \in Status
  PROVE  /\ Released(rec, s) \in Run
         /\ Released(rec, s).status = s
         /\ Released(rec, s).attempts = rec.attempts
         /\ Released(rec, s).gen = rec.gen
         /\ Released(rec, s).turns = rec.turns
  BY DEF Released, Run

LEMMA CasType ==
  ASSUME TypeOK, NEW w \in Workers, NEW r \in Runs, NEW s \in Status, Cas(w, r, s)
  PROVE  run' \in [Runs -> Run]
  BY ReleasedType DEF Cas, TypeOK

LEMMA CasRetryType ==
  ASSUME TypeOK, NEW w \in Workers, NEW r \in Runs, CasRetry(w, r)
  PROVE  run' \in [Runs -> Run]
  BY CasType DEF CasRetry, Status, Terminal

LEMMA DoneType ==
  ASSUME TypeOK, NEW w \in Workers, Done(w)
  PROVE  worker' \in [Workers -> Worker]
  BY DEF Done, Idle, TypeOK, Worker, Pc

LEMMA GotoType ==
  ASSUME TypeOK, NEW w \in Workers, NEW pc \in Pc, Goto(w, pc)
  PROVE  worker' \in [Workers -> Worker]
  BY DEF Goto, TypeOK, Worker

-----------------------------------------------------------------------------
(* The moves.  Whatever action a step is, each run makes one of nine moves *)
(* in it, and nearly always only one run moves.                            *)

Closed == {"FAILED", "CANCELLED", "EXPIRED"}
Held == {"rejecting", "approved", "executing", "toolOk", "toolFail"}

SameGates(r) ==
  \A n \in Slots :
    /\ inv'[r][n].approval = "PENDING" <=> inv[r][n].approval = "PENDING"
    /\ inv'[r][n].status = "AWAITING_APPROVAL" <=> inv[r][n].status = "AWAITING_APPROVAL"

NoGateLeft(r) == \A n \in Slots : inv'[r][n].approval # "PENDING"

Becomes(r, from, to) == run[r].status \in from /\ run'[r].status \in to
SameTurns(r) == run'[r].turns = run[r].turns
SameGen(r) == run'[r].gen = run[r].gen
SameAttempts(r) == run'[r].attempts = run[r].attempts
SameCounts(r) == SameTurns(r) /\ SameGen(r) /\ SameAttempts(r)

Stays(r) == run'[r].status = run[r].status /\ SameCounts(r) /\ SameGates(r)
Submits(r) ==
  /\ Becomes(r, {"NONE"}, {"QUEUED"}) /\ SameTurns(r) /\ SameAttempts(r) /\ SameGates(r)
  /\ conv.holder = Bot /\ run'[r].gen = conv.gen
Claims(r) ==
  /\ Becomes(r, {"QUEUED"}, {"RUNNING"}) /\ SameTurns(r) /\ SameGen(r) /\ SameGates(r)
  /\ run'[r].attempts = run[r].attempts + 1
Requeues(r) ==
  /\ Becomes(r, {"RUNNING"}, {"QUEUED"}) /\ SameCounts(r) /\ SameGates(r)
  /\ run[r].attempts < MaxAttempts
Closes(r) == Becomes(r, {"QUEUED", "RUNNING"}, Closed) /\ SameCounts(r) /\ SameGates(r)
Speaks(r) ==
  /\ Becomes(r, {"RUNNING"}, {"COMPLETED", "FAILED"})
  /\ SameGen(r) /\ SameAttempts(r) /\ SameGates(r)
  /\ run'[r].turns = run[r].turns + 1
  /\ conv.holder = Bot /\ run[r].gen = conv.gen
Parks(r) ==
  /\ Becomes(r, {"RUNNING"}, {"WAITING_APPROVAL"}) /\ SameCounts(r)
  /\ \E n \in Slots :
       /\ inv'[r][n].status = "AWAITING_APPROVAL" /\ inv'[r][n].approval = "PENDING"
       /\ \A m \in Slots \ {n} : inv'[r][m] = inv[r][m]
Decides(r) ==
  /\ Becomes(r, {"WAITING_APPROVAL"}, {"QUEUED"})
  /\ SameTurns(r) /\ SameGen(r) /\ NoGateLeft(r)
  /\ run'[r].attempts = run[r].attempts - 1
Voids(r) == Becomes(r, {"WAITING_APPROVAL"}, Closed) /\ SameCounts(r) /\ NoGateLeft(r)

Move(r) ==
  \/ Stays(r) \/ Submits(r) \/ Claims(r) \/ Requeues(r) \/ Closes(r)
  \/ Speaks(r) \/ Parks(r) \/ Decides(r) \/ Voids(r)

\* An invocation that was opened and is past its gate never becomes free or gated again.
Settled(r) ==
  \A n \in Slots : inv[r][n].status \notin {"NONE", "AWAITING_APPROVAL"}
                   => inv'[r][n].status \notin {"NONE", "AWAITING_APPROVAL"}

Others(r) == \A q \in Runs \ {r} : run'[q] = run[q] /\ inv'[q] = inv[q]
OnlyOneMoves == \E r \in Runs : Others(r) /\ Move(r) /\ Settled(r)

\* What a worker holds in hand is an invocation that is past its gate.
Hand(w) ==
  worker[w].pc \in Held =>
    /\ worker[w].run \in Runs /\ worker[w].inv \in Slots
    /\ inv[worker[w].run][worker[w].inv].status \notin {"NONE", "AWAITING_APPROVAL"}
InHand == \A w \in Workers : Hand(w)

\* A run that does not exist yet has spent no attempt.
Unborn == \A r \in Runs : run[r].status = "NONE" => run[r].attempts = 0

\* The inductive invariant.
IInv == TypeOK /\ AttemptBudget /\ ParkedGate /\ ExactlyOneTurn /\ Unborn /\ InHand

LEMMA OneMoveIsMove ==
  ASSUME NEW r \in Runs, Others(r), Move(r), Settled(r)
  PROVE  \A q \in Runs : Move(q) /\ Settled(q)
  BY DEF Others, Move, Stays, SameCounts, SameTurns, SameGen, SameAttempts, SameGates, Settled

\* The moves keep the budget, the gate and the turns.
LEMMA MovesKeepBudget ==
  ASSUME IInv, TypeOK', \A r \in Runs : Move(r)
  PROVE  AttemptBudget' /\ Unborn'
  <1> SUFFICES ASSUME NEW r \in Runs
               PROVE  /\ run'[r].attempts <= MaxAttempts
                      /\ run'[r].status = "QUEUED" => run'[r].attempts < MaxAttempts
                      /\ run'[r].status \in {"RUNNING", "WAITING_APPROVAL"} => run'[r].attempts >= 1
                      /\ run'[r].status = "NONE" => run'[r].attempts = 0
    BY DEF AttemptBudget, Unborn
  <1>1. run[r] \in Run /\ run'[r] \in Run
    BY DEF IInv, TypeOK
  <1>2. run[r].attempts \in Nat /\ run'[r].attempts \in Nat /\ MaxAttempts \in Nat \ {0}
    BY <1>1, ConstantsAssumption DEF Run
  <1>3. /\ run[r].attempts <= MaxAttempts
        /\ run[r].status = "QUEUED" => run[r].attempts < MaxAttempts
        /\ run[r].status \in {"RUNNING", "WAITING_APPROVAL"} => run[r].attempts >= 1
        /\ run[r].status = "NONE" => run[r].attempts = 0
    BY DEF IInv, AttemptBudget, Unborn
  <1> QED
    BY <1>2, <1>3 DEF Move, Stays, Submits, Claims, Requeues, Closes, Speaks, Parks, Decides, Voids,
       Becomes, SameCounts, SameAttempts, Closed

LEMMA MovesKeepTurns ==
  ASSUME IInv, TypeOK', \A r \in Runs : Move(r)
  PROVE  ExactlyOneTurn'
  <1> SUFFICES ASSUME NEW r \in Runs
               PROVE  /\ run'[r].turns <= 1
                      /\ run'[r].status = "COMPLETED" => run'[r].turns = 1
                      /\ run'[r].turns = 1 => run'[r].status \in {"COMPLETED", "FAILED"}
    BY DEF ExactlyOneTurn
  <1>1. run[r] \in Run /\ run'[r] \in Run
    BY DEF IInv, TypeOK
  <1>2. run[r].turns \in Nat /\ run'[r].turns \in Nat
    BY <1>1 DEF Run
  <1>3. /\ run[r].turns <= 1
        /\ run[r].status = "COMPLETED" => run[r].turns = 1
        /\ run[r].turns = 1 => run[r].status \in {"COMPLETED", "FAILED"}
    BY DEF IInv, ExactlyOneTurn
  <1> QED
    BY <1>2, <1>3 DEF Move, Stays, Submits, Claims, Requeues, Closes, Speaks, Parks, Decides, Voids,
       Becomes, SameCounts, SameTurns, Closed

LEMMA MovesKeepGate ==
  ASSUME IInv, \A r \in Runs : Move(r)
  PROVE  ParkedGate'
  <1> SUFFICES ASSUME NEW r \in Runs
               PROVE  /\ run'[r].status = "WAITING_APPROVAL" <=> Gated(r)' # {}
                      /\ \A n \in Slots : inv'[r][n].approval = "PENDING" => Gated(r)' = {n}
    BY DEF ParkedGate
  <1>1. /\ run[r].status = "WAITING_APPROVAL" <=> Gated(r) # {}
        /\ \A n \in Slots : inv[r][n].approval = "PENDING" => Gated(r) = {n}
    BY DEF IInv, ParkedGate
  <1>2. CASE Stays(r)
    BY <1>1, <1>2 DEF Stays, SameGates, Gated, IsPending
  <1>3. CASE Submits(r) \/ Claims(r) \/ Requeues(r) \/ Closes(r) \/ Speaks(r)
    <2>1. run[r].status # "WAITING_APPROVAL" /\ run'[r].status # "WAITING_APPROVAL" /\ SameGates(r)
      BY <1>3 DEF Submits, Claims, Requeues, Closes, Speaks, Becomes, Closed
    <2>2. \A n \in Slots : inv[r][n].approval # "PENDING"
      BY <1>1, <2>1
    <2> QED
      BY <2>1, <2>2 DEF SameGates, Gated, IsPending
  <1>4. CASE Parks(r)
    <2>1. run[r].status # "WAITING_APPROVAL" /\ run'[r].status = "WAITING_APPROVAL"
      BY <1>4 DEF Parks, Becomes
    <2>2. \A n \in Slots : inv[r][n].approval # "PENDING"
      BY <1>1, <2>1
    <2>3. PICK n \in Slots : /\ inv'[r][n].status = "AWAITING_APPROVAL"
                             /\ inv'[r][n].approval = "PENDING"
                             /\ \A m \in Slots \ {n} : inv'[r][m] = inv[r][m]
      BY <1>4 DEF Parks
    <2> QED
      BY <2>1, <2>2, <2>3 DEF Gated, IsPending
  <1>5. CASE Decides(r) \/ Voids(r)
    BY <1>5 DEF Decides, Voids, Becomes, Closed, NoGateLeft, Gated, IsPending
  <1> QED
    BY <1>2, <1>3, <1>4, <1>5 DEF Move

-----------------------------------------------------------------------------
(* What the building blocks of the actions do.                             *)

OneStep == UNCHANGED <<run, inv>> \/ OnlyOneMoves
Unheld == Pc \ Held

LEMMA StillMoves ==
  ASSUME UNCHANGED <<run, inv>>
  PROVE  \A r \in Runs : Move(r) /\ Settled(r)
  BY DEF Move, Stays, SameCounts, SameTurns, SameGen, SameAttempts, SameGates, Settled

LEMMA OneStepMoves ==
  ASSUME OneStep
  PROVE  \A r \in Runs : Move(r) /\ Settled(r)
  BY StillMoves, OneMoveIsMove DEF OneStep, OnlyOneMoves

LEMMA CasMoves ==
  ASSUME TypeOK, NEW w \in Workers, NEW r \in Runs, NEW s \in Closed, Cas(w, r, s), inv' = inv
  PROVE  OneStep /\ run' \in [Runs -> Run]
  <1>1. s \in Status
    BY DEF Closed, Status, Terminal
  <1>2. run' \in [Runs -> Run]
    BY <1>1, CasType
  <1>3. CASE ~Owns(w, r)
    BY <1>2, <1>3 DEF Cas, OneStep
  <1>4. CASE Owns(w, r)
    <2>1. run' = [run EXCEPT ![r] = Released(run[r], s)]
      BY <1>4 DEF Cas
    <2>2. Others(r)
      BY <2>1 DEF Others, TypeOK
    <2>3. run[r] \in Run /\ run'[r] = Released(run[r], s)
      BY <2>1 DEF TypeOK
    <2>4. Closes(r)
      BY <2>3, <1>1, <1>4, ReleasedType
      DEF Owns, Closes, Becomes, SameCounts, SameTurns, SameGen, SameAttempts, SameGates
    <2> QED
      BY <1>2, <2>2, <2>4 DEF OneStep, OnlyOneMoves, Move, Settled
  <1> QED
    BY <1>3, <1>4

LEMMA CasRetryMoves ==
  ASSUME TypeOK, NEW w \in Workers, NEW r \in Runs, CasRetry(w, r), inv' = inv
  PROVE  OneStep /\ run' \in [Runs -> Run]
  <1>1. CASE run[r].attempts >= MaxAttempts
    BY <1>1, CasMoves DEF CasRetry, Closed
  <1>2. CASE ~(run[r].attempts >= MaxAttempts)
    <2>1. Cas(w, r, "QUEUED")
      BY <1>2 DEF CasRetry
    <2>2. run' \in [Runs -> Run]
      BY CasRetryType
    <2>3. CASE ~Owns(w, r)
      BY <2>1, <2>2, <2>3 DEF Cas, OneStep
    <2>4. CASE Owns(w, r)
      <3>1. run' = [run EXCEPT ![r] = Released(run[r], "QUEUED")]
        BY <2>1, <2>4 DEF Cas
      <3>2. Others(r)
        BY <3>1 DEF Others, TypeOK
      <3>3. run[r] \in Run /\ run'[r] = Released(run[r], "QUEUED") /\ "QUEUED" \in Status
        BY <3>1 DEF TypeOK, Status
      <3>4. run[r].attempts \in Nat /\ MaxAttempts \in Nat
        BY <3>3, ConstantsAssumption DEF Run
      <3>5. Requeues(r)
        BY <1>2, <2>4, <3>3, <3>4, ReleasedType
        DEF Owns, Requeues, Becomes, SameCounts, SameTurns, SameGen, SameAttempts, SameGates
      <3> QED
        BY <2>2, <3>2, <3>5 DEF OneStep, OnlyOneMoves, Move, Settled
    <2> QED
      BY <2>3, <2>4
  <1> QED
    BY <1>1, <1>2

\* A worker that drops its claim, or goes to a place where it holds no invocation.
LEMMA DoneHand ==
  ASSUME TypeOK, InHand, NEW w \in Workers, Done(w), OneStep
  PROVE  InHand' /\ worker' \in [Workers -> Worker]
  <1>1. worker' \in [Workers -> Worker]
    BY DoneType
  <1>2. Hand(w)'
    BY DEF Done, Idle, TypeOK, Hand, Held
  <1>3. \A v \in Workers \ {w} : worker'[v] = worker[v]
    BY DEF Done, TypeOK
  <1>4. \A v \in Workers \ {w} : Hand(v)'
    BY <1>3, OneStepMoves DEF InHand, Hand, Settled
  <1> QED
    BY <1>1, <1>2, <1>4 DEF InHand

\* More generally, a step of w that leaves its own hand in order keeps every hand in order.
LEMMA StepHand ==
  ASSUME TypeOK, InHand, NEW w \in Workers, OneStep, Hand(w)',
         \A v \in Workers \ {w} : worker'[v] = worker[v]
  PROVE  InHand'
  <1>1. \A v \in Workers \ {w} : Hand(v)'
    BY OneStepMoves DEF InHand, Hand, Settled
  <1> QED
    BY <1>1 DEF InHand

LEMMA GotoHand ==
  ASSUME TypeOK, InHand, NEW w \in Workers, NEW pc \in Unheld, Goto(w, pc), OneStep
  PROVE  InHand' /\ worker' \in [Workers -> Worker]
  <1>1. worker' \in [Workers -> Worker]
    BY GotoType DEF Unheld
  <1>2. Hand(w)'
    BY DEF Goto, TypeOK, Hand, Unheld
  <1>3. \A v \in Workers \ {w} : worker'[v] = worker[v]
    BY DEF Goto, TypeOK
  <1> QED
    BY <1>1, <1>2, <1>3, StepHand

LEMMA SameHands ==
  ASSUME InHand, worker' = worker, \A r \in Runs : Settled(r)
  PROVE  InHand'
  BY DEF InHand, Hand, Settled

-----------------------------------------------------------------------------
(* One lemma per action of a worker.                                       *)

Sound == OneStep /\ TypeOK' /\ InHand' /\ UNCHANGED conv

LEMMA TypeFrom ==
  ASSUME TypeOK, UNCHANGED <<conv, cancel>>, run' \in [Runs -> Run],
         inv' \in [Runs -> [Slots -> Inv]], worker' \in [Workers -> Worker]
  PROVE  TypeOK'
  BY DEF TypeOK

\* Attempts that end in a compare-and-swap.
LEMMA CasSound ==
  ASSUME IInv, NEW w \in Workers, NEW r \in Runs, NEW s \in Closed, Cas(w, r, s), Done(w),
         UNCHANGED <<inv, conv, cancel>>
  PROVE  Sound
  <1>1. OneStep /\ run' \in [Runs -> Run]
    BY CasMoves DEF IInv
  <1>2. InHand' /\ worker' \in [Workers -> Worker]
    BY <1>1, DoneHand DEF IInv
  <1> QED
    BY <1>1, <1>2, TypeFrom DEF IInv, TypeOK, Sound

LEMMA CasRetrySound ==
  ASSUME IInv, NEW w \in Workers, NEW r \in Runs, CasRetry(w, r), Done(w),
         UNCHANGED <<inv, conv, cancel>>
  PROVE  Sound
  <1>1. OneStep /\ run' \in [Runs -> Run]
    BY CasRetryMoves DEF IInv
  <1>2. InHand' /\ worker' \in [Workers -> Worker]
    BY <1>1, DoneHand DEF IInv
  <1> QED
    BY <1>1, <1>2, TypeFrom DEF IInv, TypeOK, Sound

LEMMA SupersededSound ==
  ASSUME IInv, NEW w \in Workers, worker[w].run \in Runs, FinalizeSuperseded(w),
         UNCHANGED <<inv, conv, cancel>>
  PROVE  Sound
  BY CasSound DEF FinalizeSuperseded, Closed

LEMMA DoneSound ==
  ASSUME IInv, NEW w \in Workers, Done(w), UNCHANGED <<run, inv, conv, cancel>>
  PROVE  Sound
  BY DoneHand, TypeFrom DEF IInv, TypeOK, Sound, OneStep

LEMMA GotoSound ==
  ASSUME IInv, NEW w \in Workers, NEW pc \in Unheld, Goto(w, pc),
         UNCHANGED <<run, inv, conv, cancel>>
  PROVE  Sound
  BY GotoHand, TypeFrom DEF IInv, TypeOK, Sound, OneStep

LEMMA StartAttemptSound ==
  ASSUME IInv, NEW w \in Workers, StartAttempt(w)
  PROVE  Sound
  <1>1. PICK r \in worker[w].todo :
          worker' = [worker EXCEPT ![w].pc = "preflight", ![w].run = r, ![w].todo = @ \ {r}]
    BY DEF StartAttempt
  <1>2. UNCHANGED <<run, inv, conv, cancel>>
    BY DEF StartAttempt
  <1>3. worker[w] \in Worker /\ r \in Runs /\ worker[w].todo \ {r} \in SUBSET Runs
    BY DEF IInv, TypeOK, Worker
  <1>4. worker' \in [Workers -> Worker]
    BY <1>1, <1>3 DEF IInv, TypeOK, Worker, Pc
  <1>5. Hand(w)' /\ \A v \in Workers \ {w} : worker'[v] = worker[v]
    BY <1>1, <1>3 DEF IInv, TypeOK, Worker, Hand, Held
  <1>6. OneStep
    BY <1>2 DEF OneStep
  <1> QED
    BY <1>2, <1>4, <1>5, <1>6, StepHand, TypeFrom DEF IInv, TypeOK, Sound

LEMMA PreflightRunSound ==
  ASSUME IInv, NEW w \in Workers, PreflightRun(w)
  PROVE  Sound
  BY CasSound, GotoSound DEF PreflightRun, At, Closed, Unheld, Held, Pc

LEMMA PreflightFenceSound ==
  ASSUME IInv, NEW w \in Workers, PreflightFence(w)
  PROVE  Sound
  BY CasSound, SupersededSound, GotoSound DEF PreflightFence, At, Closed, Unheld, Held, Pc

LEMMA PreflightInputsSound ==
  ASSUME IInv, NEW w \in Workers, PreflightInputs(w)
  PROVE  Sound
  BY CasSound, CasRetrySound, GotoSound DEF PreflightInputs, At, Closed, Unheld, Held, Pc

LEMMA ResumeSound ==
  ASSUME IInv, NEW w \in Workers, Resume(w)
  PROVE  Sound
  <1>1. UNCHANGED <<run, inv, conv, cancel>> /\ worker[w].run \in Runs
    BY DEF Resume, At
  <1>2. worker[w] \in Worker /\ run[worker[w].run].calls \in Nat
    BY <1>1 DEF IInv, TypeOK, Run
  <1>3. /\ worker' \in [Workers -> Worker]
        /\ Hand(w)' /\ \A v \in Workers \ {w} : worker'[v] = worker[v]
    <2>1. CASE Pending(worker[w].run) = {}
      <3>1. worker' = [worker EXCEPT ![w] = [@ EXCEPT !.pc = "loop",
                                              !.known = run[worker[w].run].calls]]
        BY <2>1 DEF Resume
      <3> QED
        BY <1>2, <3>1 DEF IInv, TypeOK, Worker, Pc, Hand, Held
    <2>2. CASE Pending(worker[w].run) # {}
      <3>1. PICK n \in Pending(worker[w].run), pc \in {"rejecting", "approved", "failing"} :
              worker' = [worker EXCEPT ![w] = [@ EXCEPT !.pc = pc, !.inv = n,
                                                !.known = run[worker[w].run].calls]]
        BY <2>2 DEF Resume
      <3>2. n \in Slots /\ n \in Nat
            /\ inv[worker[w].run][n].status \notin {"NONE", "AWAITING_APPROVAL"}
        BY DEF Pending, Newest, Undone, Slots
      <3> QED
        BY <1>1, <1>2, <3>1, <3>2 DEF IInv, TypeOK, Worker, Pc, Hand, Held
    <2> QED
      BY <2>1, <2>2
  <1>4. OneStep
    BY <1>1 DEF OneStep
  <1> QED
    BY <1>1, <1>3, <1>4, StepHand, TypeFrom DEF IInv, TypeOK, Sound

\* Spoken and counted records are records too, and only the turns of a spoken one change.
LEMMA SpokenType ==
  ASSUME NEW rec \in Run, NEW s \in Status
  PROVE  /\ Spoken(rec, s) \in Run
         /\ Spoken(rec, s).status = s
         /\ Spoken(rec, s).attempts = rec.attempts
         /\ Spoken(rec, s).gen = rec.gen
         /\ Spoken(rec, s).turns = rec.turns + 1
  BY ReleasedType DEF Spoken, Run

LEMMA CountedType ==
  ASSUME NEW rec \in Run
  PROVE  /\ Counted(rec) \in Run
         /\ Counted(rec).status = rec.status
         /\ Counted(rec).attempts = rec.attempts
         /\ Counted(rec).gen = rec.gen
         /\ Counted(rec).turns = rec.turns
  BY DEF Counted, Run

\* The owner of a lease, unfenced, writes a turn and ends the run.
LEMMA SpeakSound ==
  ASSUME IInv, NEW w \in Workers, NEW r \in Runs, NEW s \in {"COMPLETED", "FAILED"}, NEW rec \in Run,
         Owns(w, r), ~Stale(r), run' = [run EXCEPT ![r] = rec],
         rec.status = s, rec.attempts = run[r].attempts, rec.gen = run[r].gen,
         rec.turns = run[r].turns + 1,
         Done(w), UNCHANGED <<inv, conv, cancel>>
  PROVE  Sound
  <1>1. run' \in [Runs -> Run] /\ run'[r] = rec /\ Others(r)
    BY DEF IInv, TypeOK, Others
  <1>2. Speaks(r)
    BY <1>1 DEF Speaks, Becomes, SameGen, SameAttempts, SameGates, Owns, Stale
  <1>3. OneStep
    BY <1>1, <1>2 DEF OneStep, OnlyOneMoves, Move, Settled
  <1> QED
    BY <1>1, <1>3, DoneHand, TypeFrom DEF IInv, TypeOK, Sound

LEMMA FinalizeRefusalSound ==
  ASSUME IInv, NEW w \in Workers, FinalizeRefusal(w)
  PROVE  Sound
  <1> DEFINE r == worker[w].run
  <1>1. r \in Runs /\ Done(w) /\ UNCHANGED <<inv, conv, cancel>>
    BY DEF FinalizeRefusal, At
  <1>2. run[r] \in Run /\ "FAILED" \in Status /\ "CANCELLED" \in Closed
    BY <1>1 DEF IInv, TypeOK, Status, Terminal, Closed
  <1>3. CASE Stale(r) /\ Cas(w, r, "CANCELLED")
    BY <1>1, <1>2, <1>3, CasSound
  <1>4. CASE ~Stale(r) /\ Owns(w, r) /\ run' = [run EXCEPT ![r] = Spoken(run[r], "FAILED")]
    BY <1>1, <1>2, <1>4, SpokenType, SpeakSound
  <1>5. CASE run' = run
    BY <1>1, <1>5, DoneSound
  <1> QED
    BY <1>3, <1>4, <1>5 DEF FinalizeRefusal

LEMMA SuccessSound ==
  ASSUME IInv, NEW w \in Workers, Success(w)
  PROVE  Sound
  <1> DEFINE r == worker[w].run
             rec == Counted(Spoken(run[r], "COMPLETED"))
  <1>1. r \in Runs /\ Done(w) /\ UNCHANGED <<inv, conv, cancel>>
    BY DEF Success, At
  <1>2. run[r] \in Run /\ "COMPLETED" \in Status /\ "CANCELLED" \in Closed
    BY <1>1 DEF IInv, TypeOK, Status, Terminal, Closed
  <1>3. CASE Stale(r) /\ Cas(w, r, "CANCELLED")
    BY <1>1, <1>2, <1>3, CasSound
  <1>4. CASE ~Stale(r) /\ Owns(w, r) /\ run' = [run EXCEPT ![r] = rec]
    <2>1. /\ rec \in Run /\ rec.status = "COMPLETED"
          /\ rec.attempts = run[r].attempts /\ rec.gen = run[r].gen
          /\ rec.turns = run[r].turns + 1
      BY <1>2, SpokenType, CountedType
    <2> QED
      BY <1>1, <1>4, <2>1, SpeakSound
  <1>5. CASE run' = run
    BY <1>1, <1>5, DoneSound
  <1> QED
    BY <1>3, <1>4, <1>5 DEF Success

LEMMA LoopTopSound ==
  ASSUME IInv, NEW w \in Workers, LoopTop(w)
  PROVE  Sound
  <1> DEFINE r == worker[w].run
  <1>1. r \in Runs /\ UNCHANGED <<inv, conv, cancel>>
    BY DEF LoopTop, At
  <1>2. CASE Done(w) /\ run' = run
    BY <1>1, <1>2, DoneSound
  <1>3. CASE FinalizeSuperseded(w)
    BY <1>1, <1>3, SupersededSound
  <1>4. CASE Cas(w, r, "EXPIRED") /\ Done(w)
    BY <1>1, <1>4, CasSound DEF Closed
  <1>5. ASSUME NEW pc \in {"failing", "provider"}, Goto(w, pc), Owns(w, r),
               run' = [run EXCEPT ![r].live = TRUE]
        PROVE  Sound
    <2>0. run[r] \in Run
      BY <1>1 DEF IInv, TypeOK
    <2>a. run' \in [Runs -> Run]
      BY <1>1, <1>5, <2>0 DEF IInv, TypeOK, Run
    <2>b. /\ run'[r].status = run[r].status /\ run'[r].attempts = run[r].attempts
          /\ run'[r].turns = run[r].turns /\ run'[r].gen = run[r].gen
      BY <1>1, <1>5, <2>0 DEF IInv, TypeOK, Run
    <2>1. run' \in [Runs -> Run] /\ Others(r) /\ Stays(r)
      BY <1>1, <1>5, <2>a, <2>b DEF IInv, TypeOK, Others, Stays, SameCounts, SameTurns, SameGen,
                        SameAttempts, SameGates
    <2>2. OneStep
      BY <1>1, <2>1 DEF OneStep, OnlyOneMoves, Move, Settled
    <2>3. InHand' /\ worker' \in [Workers -> Worker]
      BY <1>5, <2>2, GotoHand DEF IInv, Unheld, Held, Pc
    <2> QED
      BY <1>1, <2>1, <2>2, <2>3, TypeFrom DEF IInv, TypeOK, Sound
  <1> QED
    BY <1>2, <1>3, <1>4, <1>5 DEF LoopTop

LEMMA GatewayErrorSound ==
  ASSUME IInv, NEW w \in Workers, GatewayError(w)
  PROVE  Sound
  BY CasSound, CasRetrySound DEF GatewayError, At, Closed

LEMMA OutputBlockedSound ==
  ASSUME IInv, NEW w \in Workers, OutputBlocked(w)
  PROVE  Sound
  BY GotoSound DEF OutputBlocked, Unheld, Held, Pc

\* A counted call leaves the run where it is; a counted failure or park ends the claim.
LEMMA AfterProviderFailureSound ==
  ASSUME IInv, NEW w \in Workers, AfterProviderFailure(w)
  PROVE  Sound
  <1> DEFINE r == worker[w].run
             rec == Counted(Released(run[r], "FAILED"))
  <1>1. r \in Runs /\ Done(w) /\ UNCHANGED <<inv, conv, cancel>>
    BY DEF AfterProviderFailure, At
  <1>2. run[r] \in Run /\ "FAILED" \in Status /\ "CANCELLED" \in Closed
    BY <1>1 DEF IInv, TypeOK, Status, Terminal, Closed
  <1>3. CASE Stale(r) /\ Cas(w, r, "CANCELLED")
    BY <1>1, <1>2, <1>3, CasSound
  <1>4. CASE Owns(w, r) /\ run' = [run EXCEPT ![r] = rec]
    <2>1. /\ rec \in Run /\ rec.status = "FAILED" /\ rec.attempts = run[r].attempts
          /\ rec.gen = run[r].gen /\ rec.turns = run[r].turns
      BY <1>2, ReleasedType, CountedType
    <2>2. run' \in [Runs -> Run] /\ run'[r] = rec /\ Others(r)
      BY <1>1, <1>4, <2>1 DEF IInv, TypeOK, Others
    <2>3. Closes(r)
      BY <1>1, <1>4, <2>1, <2>2 DEF Closes, Becomes, Closed, SameCounts, SameTurns, SameGen,
                                    SameAttempts, SameGates, Owns
    <2>4. OneStep
      BY <1>1, <2>2, <2>3 DEF OneStep, OnlyOneMoves, Move, Settled
    <2> QED
      BY <1>1, <2>2, <2>4, DoneHand, TypeFrom DEF IInv, TypeOK, Sound
  <1>5. CASE run' = run
    BY <1>1, <1>5, DoneSound
  <1> QED
    BY <1>3, <1>4, <1>5 DEF AfterProviderFailure

LEMMA ParkSound ==
  ASSUME IInv, NEW w \in Workers, Park(w)
  PROVE  Sound
  <1> DEFINE r == worker[w].run
             rec == [Counted(Released(run[r], "WAITING_APPROVAL")) EXCEPT !.overdue = FALSE]
  <1>1. r \in Runs /\ Done(w) /\ UNCHANGED <<conv, cancel>>
    BY DEF Park, At
  <1>2. run[r] \in Run /\ "WAITING_APPROVAL" \in Status /\ "CANCELLED" \in Closed
    BY <1>1 DEF IInv, TypeOK, Status, Closed
  <1>3. CASE Stale(r) /\ Cas(w, r, "CANCELLED") /\ UNCHANGED inv
    BY <1>1, <1>2, <1>3, CasSound
  <1>4. CASE UNCHANGED <<run, inv>>
    BY <1>1, <1>4, DoneSound
  <1>5. ASSUME Owns(w, r), run' = [run EXCEPT ![r] = rec], NEW n \in NextSlot(r),
               inv' = [inv EXCEPT ![r][n] = NewInv("AWAITING_APPROVAL", "PENDING")]
        PROVE  Sound
    <2>1. /\ rec \in Run /\ rec.status = "WAITING_APPROVAL" /\ rec.attempts = run[r].attempts
          /\ rec.gen = run[r].gen /\ rec.turns = run[r].turns
      <3>1. Counted(Released(run[r], "WAITING_APPROVAL")) \in Run
        BY <1>2, ReleasedType, CountedType
      <3>2. /\ Counted(Released(run[r], "WAITING_APPROVAL")).status = "WAITING_APPROVAL"
            /\ Counted(Released(run[r], "WAITING_APPROVAL")).attempts = run[r].attempts
            /\ Counted(Released(run[r], "WAITING_APPROVAL")).gen = run[r].gen
            /\ Counted(Released(run[r], "WAITING_APPROVAL")).turns = run[r].turns
        BY <1>2, ReleasedType, CountedType
      <3> QED
        BY <3>1, <3>2 DEF Run
    <2>2. n \in Slots /\ inv[r][n].status = "NONE"
      BY DEF NextSlot
    <2>3. run' \in [Runs -> Run] /\ run'[r] = rec
      BY <1>1, <1>5, <2>1 DEF IInv, TypeOK
    <2>4. /\ inv' \in [Runs -> [Slots -> Inv]]
          /\ inv'[r][n].status = "AWAITING_APPROVAL" /\ inv'[r][n].approval = "PENDING"
          /\ \A m \in Slots \ {n} : inv'[r][m] = inv[r][m]
      <3> DEFINE gate == NewInv("AWAITING_APPROVAL", "PENDING")
      <3>1. gate \in Inv /\ gate.status = "AWAITING_APPROVAL" /\ gate.approval = "PENDING"
        BY DEF NewInv, Inv, InvStatus, ApprovalState, Few
      <3>2. inv' = [inv EXCEPT ![r][n] = gate]
        BY <1>5
      <3> HIDE DEF gate
      <3> QED
        BY <1>1, <2>2, <3>1, <3>2 DEF IInv, TypeOK
    <2>5. Others(r)
      BY <1>1, <1>5 DEF IInv, TypeOK, Others
    <2>6. Parks(r)
      BY <1>5, <2>1, <2>2, <2>3, <2>4 DEF Parks, Becomes, SameCounts, SameTurns, SameGen,
                                          SameAttempts, Owns
    <2>7. Settled(r)
      BY <2>2, <2>4 DEF Settled
    <2>8. OneStep
      BY <1>1, <2>5, <2>6, <2>7 DEF OneStep, OnlyOneMoves, Move
    <2> QED
      BY <1>1, <2>3, <2>4, <2>8, DoneHand, TypeFrom DEF IInv, TypeOK, Sound
  <1> QED
    BY <1>3, <1>4, <1>5 DEF Park

LEMMA RecordProviderCallSound ==
  ASSUME IInv, NEW w \in Workers, RecordProviderCall(w)
  PROVE  Sound
  <1> DEFINE r == worker[w].run
  <1>1. r \in Runs /\ UNCHANGED <<inv, conv, cancel>>
    BY DEF RecordProviderCall, At
  <1>2. CASE FinalizeSuperseded(w)
    BY <1>1, <1>2, SupersededSound
  <1>3. CASE /\ run' = [run EXCEPT ![r] = Counted(run[r])]
             /\ worker' = [worker EXCEPT ![w].pc = "dispatch", ![w].known = @ + 1]
    <2>1. run[r] \in Run /\ worker[w] \in Worker /\ worker[w].known + 1 \in Nat
      BY <1>1 DEF IInv, TypeOK, Worker
    <2>2. run' \in [Runs -> Run] /\ run'[r] = Counted(run[r]) /\ Others(r)
      BY <1>1, <1>3, <2>1, CountedType DEF IInv, TypeOK, Others
    <2>3. Stays(r)
      BY <1>1, <2>1, <2>2, CountedType DEF Stays, SameCounts, SameTurns, SameGen, SameAttempts,
                                           SameGates
    <2>4. OneStep
      BY <1>1, <2>2, <2>3 DEF OneStep, OnlyOneMoves, Move, Settled
    <2>5. worker' \in [Workers -> Worker]
      <3>1. [worker[w] EXCEPT !.pc = "dispatch", !.known = worker[w].known + 1] \in Worker
        BY <2>1 DEF Worker, Pc
      <3> QED
        BY <1>3, <3>1 DEF IInv, TypeOK
    <2>6. Hand(w)' /\ \A v \in Workers \ {w} : worker'[v] = worker[v]
      BY <1>3, <2>1 DEF IInv, TypeOK, Worker, Hand, Held
    <2> QED
      BY <1>1, <2>2, <2>4, <2>5, <2>6, StepHand, TypeFrom DEF IInv, TypeOK, Sound
  <1> QED
    BY <1>2, <1>3 DEF RecordProviderCall

\* Steps that only rewrite one invocation, on its own side of the gate.
LEMMA InvMoves ==
  ASSUME TypeOK, NEW r \in Runs, NEW n \in Slots, NEW i \in Inv,
         inv' = [inv EXCEPT ![r][n] = i], run' = run,
         i.approval = "PENDING" <=> inv[r][n].approval = "PENDING",
         i.status = "AWAITING_APPROVAL" <=> inv[r][n].status = "AWAITING_APPROVAL",
         i.status # "NONE"
  PROVE  OneStep /\ inv' \in [Runs -> [Slots -> Inv]] /\ inv'[r][n] = i
  <1>1. inv' \in [Runs -> [Slots -> Inv]] /\ inv'[r][n] = i
        /\ \A m \in Slots \ {n} : inv'[r][m] = inv[r][m]
    BY DEF TypeOK
  <1>2. Others(r)
    BY DEF TypeOK, Others
  <1>3. Stays(r) /\ Settled(r)
    BY <1>1 DEF Stays, SameCounts, SameTurns, SameGen, SameAttempts, SameGates, Settled
  <1> QED
    BY <1>1, <1>2, <1>3 DEF OneStep, OnlyOneMoves, Move

\* A slot that is not behind an open gate has no pending approval.
LEMMA PendingAwaits ==
  ASSUME IInv, NEW r \in Runs, NEW n \in Slots, inv[r][n].status # "AWAITING_APPROVAL"
  PROVE  inv[r][n].approval # "PENDING"
  BY DEF IInv, ParkedGate, Gated, IsPending

LEMMA MoreType == ASSUME NEW k \in Few PROVE More(k) \in Few
  BY DEF Few, More

\* The invocation in a worker's hand.
LEMMA InHandFacts ==
  ASSUME IInv, NEW w \in Workers, worker[w].pc \in Held
  PROVE  /\ worker[w].run \in Runs /\ worker[w].inv \in Slots
         /\ inv[worker[w].run][worker[w].inv] \in Inv
         /\ inv[worker[w].run][worker[w].inv].status \notin {"NONE", "AWAITING_APPROVAL"}
         /\ inv[worker[w].run][worker[w].inv].approval # "PENDING"
  BY PendingAwaits DEF IInv, TypeOK, InHand, Hand

\* A worker rewrites the invocation in its hand and goes on.
LEMMA HandRewriteSound ==
  ASSUME IInv, NEW w \in Workers, worker[w].pc \in Held,
         NEW i \in Inv, i.status \notin {"NONE", "AWAITING_APPROVAL"},
         i.approval = inv[worker[w].run][worker[w].inv].approval,
         inv' = [inv EXCEPT ![worker[w].run][worker[w].inv] = i],
         NEW pc \in Pc, Goto(w, pc), UNCHANGED <<run, conv, cancel>>
  PROVE  Sound
  <1> DEFINE r == worker[w].run
             n == worker[w].inv
  <1>1. r \in Runs /\ n \in Slots /\ inv[r][n] \in Inv /\ inv[r][n].approval # "PENDING"
        /\ inv[r][n].status \notin {"NONE", "AWAITING_APPROVAL"}
    BY InHandFacts
  <1>2. OneStep /\ inv' \in [Runs -> [Slots -> Inv]] /\ inv'[r][n] = i
    BY <1>1, InvMoves DEF IInv
  <1>3. worker' \in [Workers -> Worker]
    BY GotoType DEF IInv
  <1>4. Hand(w)' /\ \A v \in Workers \ {w} : worker'[v] = worker[v]
    <2>1. worker'[w].run = r /\ worker'[w].inv = n
      BY DEF Goto, IInv, TypeOK, Worker
    <2>2. Hand(w)'
      BY <1>1, <1>2, <2>1 DEF Hand
    <2> QED
      BY <2>2 DEF Goto, IInv, TypeOK
  <1> QED
    BY <1>2, <1>3, <1>4, StepHand, TypeFrom DEF IInv, TypeOK, Sound

LEMMA ApplyRejectedSound ==
  ASSUME IInv, NEW w \in Workers, ApplyRejected(w)
  PROVE  Sound
  <1> DEFINE r == worker[w].run
             n == worker[w].inv
  <1>1. r \in Runs /\ worker[w].pc \in Held /\ UNCHANGED <<conv, cancel>>
    BY DEF ApplyRejected, At, Held
  <1>2. CASE FinalizeSuperseded(w) /\ UNCHANGED inv
    BY <1>1, <1>2, SupersededSound
  <1>3. CASE inv' = [inv EXCEPT ![r][n].steps = More(@)] /\ Goto(w, "loop") /\ UNCHANGED run
    <2> DEFINE i == [inv[r][n] EXCEPT !.steps = More(inv[r][n].steps)]
    <2>1. inv[r][n] \in Inv /\ inv[r][n].status \notin {"NONE", "AWAITING_APPROVAL"}
      BY <1>1, InHandFacts
    <2>2. More(inv[r][n].steps) \in Few
      BY <2>1, MoreType DEF Inv
    <2>3. i \in Inv /\ i.status = inv[r][n].status /\ i.approval = inv[r][n].approval
      BY <2>1, <2>2 DEF Inv
    <2>4. inv' = [inv EXCEPT ![r][n] = i]
      BY <1>3
    <2> QED
      BY <1>1, <1>3, <2>1, <2>3, <2>4, HandRewriteSound DEF Pc
  <1> QED
    BY <1>2, <1>3 DEF ApplyRejected

LEMMA ExecuteApprovedSound ==
  ASSUME IInv, NEW w \in Workers, ExecuteApproved(w)
  PROVE  Sound
  <1> DEFINE r == worker[w].run
             n == worker[w].inv
  <1>1. r \in Runs /\ worker[w].pc \in Held /\ UNCHANGED <<conv, cancel>>
    BY DEF ExecuteApproved, At, Held
  <1>2. CASE FinalizeSuperseded(w) /\ UNCHANGED inv
    BY <1>1, <1>2, SupersededSound
  <1>3. CASE inv' = [inv EXCEPT ![r][n].status = "EXECUTING"] /\ Goto(w, "executing") /\ UNCHANGED run
    <2> DEFINE i == [inv[r][n] EXCEPT !.status = "EXECUTING"]
    <2>1. inv[r][n] \in Inv
      BY <1>1, InHandFacts
    <2>2. i \in Inv /\ i.status = "EXECUTING" /\ i.approval = inv[r][n].approval
      BY <2>1 DEF Inv, InvStatus
    <2>3. inv' = [inv EXCEPT ![r][n] = i]
      BY <1>3
    <2> QED
      BY <1>1, <1>3, <2>2, <2>3, HandRewriteSound DEF Pc
  <1>4. CASE Goto(w, "failing") /\ UNCHANGED <<run, inv>>
    BY <1>1, <1>4, GotoSound DEF Unheld, Held, Pc
  <1> QED
    BY <1>2, <1>3, <1>4 DEF ExecuteApproved

LEMMA DispatchSound ==
  ASSUME IInv, NEW w \in Workers, Dispatch(w)
  PROVE  Sound
  <1> DEFINE r == worker[w].run
  <1>1. r \in Runs /\ UNCHANGED <<conv, cancel>>
    BY DEF Dispatch, At
  <1>2. CASE FinalizeSuperseded(w) /\ UNCHANGED inv
    BY <1>1, <1>2, SupersededSound
  <1>3. ASSUME NEW n \in NextSlot(r), NEW st \in {"EXECUTING", "FAILED"},
               inv' = [inv EXCEPT ![r][n] = NewInv(st, "NONE")],
               worker' = [worker EXCEPT
                  ![w] = [@ EXCEPT !.inv = n,
                                   !.pc = IF st = "FAILED" THEN "failing" ELSE "executing"]],
               UNCHANGED run
        PROVE  Sound
    <2> DEFINE i == NewInv(st, "NONE")
               pc == IF st = "FAILED" THEN "failing" ELSE "executing"
    <2>1. i \in Inv /\ i.status = st /\ i.approval = "NONE"
      BY DEF NewInv, Inv, InvStatus, ApprovalState, Few
    <2>2. n \in Slots /\ n \in Nat /\ inv[r][n].status = "NONE" /\ inv[r][n].approval # "PENDING"
      BY <1>1, PendingAwaits DEF NextSlot, Slots
    <2>3. OneStep /\ inv' \in [Runs -> [Slots -> Inv]] /\ inv'[r][n] = i
      BY <1>1, <1>3, <2>1, <2>2, InvMoves DEF IInv
    <2>4. worker[w] \in Worker /\ pc \in Pc
      BY DEF IInv, TypeOK, Pc
    <2>5. [worker[w] EXCEPT !.inv = n, !.pc = pc] \in Worker
      BY <2>2, <2>4 DEF Worker
    <2>6. worker' \in [Workers -> Worker]
      BY <1>3, <2>5 DEF IInv, TypeOK
    <2>7. worker'[w].run = r /\ worker'[w].inv = n
      BY <1>3, <2>4 DEF IInv, TypeOK, Worker
    <2>8. Hand(w)'
      BY <1>1, <2>1, <2>2, <2>3, <2>7 DEF Hand
    <2>9. \A v \in Workers \ {w} : worker'[v] = worker[v]
      BY <1>3 DEF IInv, TypeOK
    <2> QED
      BY <1>1, <1>3, <2>3, <2>6, <2>8, <2>9, StepHand, TypeFrom DEF IInv, TypeOK, Sound
  <1> QED
    BY <1>2, <1>3 DEF Dispatch

LEMMA RunToolSound ==
  ASSUME IInv, NEW w \in Workers, RunTool(w)
  PROVE  Sound
  <1> DEFINE r == worker[w].run
             n == worker[w].inv
             i == [inv[r][n] EXCEPT !.execs = More(inv[r][n].execs)]
  <1>1. r \in Runs /\ worker[w].pc \in Held /\ UNCHANGED <<run, conv, cancel>>
    BY DEF RunTool, At, Held
  <1>2. PICK pc \in {"toolOk", "toolFail"} : Goto(w, pc)
    BY DEF RunTool
  <1>3. inv[r][n] \in Inv /\ inv[r][n].status \notin {"NONE", "AWAITING_APPROVAL"}
    BY <1>1, InHandFacts
  <1>4. More(inv[r][n].execs) \in Few
    BY <1>3, MoreType DEF Inv
  <1>5. i \in Inv /\ i.status = inv[r][n].status /\ i.approval = inv[r][n].approval
    BY <1>3, <1>4 DEF Inv
  <1>6. inv' = [inv EXCEPT ![r][n] = i]
    BY DEF RunTool
  <1> QED
    BY <1>1, <1>2, <1>3, <1>5, <1>6, HandRewriteSound DEF Pc

LEMMA CommitToolSound ==
  ASSUME IInv, NEW w \in Workers, CommitTool(w)
  PROVE  Sound
  <1> DEFINE r == worker[w].run
             n == worker[w].inv
  <1>1. r \in Runs /\ worker[w].pc \in Held /\ UNCHANGED <<conv, cancel>>
    BY DEF CommitTool, At, Held
  <1>2. CASE FinalizeSuperseded(w) /\ UNCHANGED inv
    BY <1>1, <1>2, SupersededSound
  <1>3. CASE /\ inv' = [inv EXCEPT ![r][n].status = "SUCCEEDED", ![r][n].steps = More(@)]
             /\ Goto(w, "loop") /\ UNCHANGED run
    <2> DEFINE i == [inv[r][n] EXCEPT !.status = "SUCCEEDED", !.steps = More(inv[r][n].steps)]
    <2>1. inv[r][n] \in Inv
      BY <1>1, InHandFacts
    <2>2. More(inv[r][n].steps) \in Few
      BY <2>1, MoreType DEF Inv
    <2>3. i \in Inv /\ i.status = "SUCCEEDED" /\ i.approval = inv[r][n].approval
      BY <2>1, <2>2 DEF Inv, InvStatus
    <2>4. inv' = [inv EXCEPT ![r][n] = i]
      BY <1>3
    <2> QED
      BY <1>1, <1>3, <2>3, <2>4, HandRewriteSound DEF Pc
  <1> QED
    BY <1>2, <1>3 DEF CommitTool

LEMMA FailToolSound ==
  ASSUME IInv, NEW w \in Workers, FailTool(w)
  PROVE  Sound
  <1> DEFINE r == worker[w].run
             n == worker[w].inv
             i == [inv[r][n] EXCEPT !.status = "FAILED"]
  <1>1. r \in Runs /\ worker[w].pc \in Held /\ Goto(w, "failing") /\ UNCHANGED <<run, conv, cancel>>
    BY DEF FailTool, At, Held
  <1>2. inv[r][n] \in Inv
    BY <1>1, InHandFacts
  <1>3. i \in Inv /\ i.status = "FAILED" /\ i.approval = inv[r][n].approval
    BY <1>2 DEF Inv, InvStatus
  <1>4. inv' = [inv EXCEPT ![r][n] = i]
    BY DEF FailTool
  <1> QED
    BY <1>1, <1>3, <1>4, HandRewriteSound DEF Pc

LEMMA FailRunSound ==
  ASSUME IInv, NEW w \in Workers, FailRun(w)
  PROVE  Sound
  <1>1. (IF Stale(worker[w].run) THEN "CANCELLED" ELSE "FAILED") \in Closed
    BY DEF Closed
  <1> QED
    BY <1>1, CasSound DEF FailRun, At

LEMMA AbandonSound ==
  ASSUME IInv, NEW w \in Workers, Abandon(w)
  PROVE  Sound
  BY DoneSound DEF Abandon

LEMMA CrashSound ==
  ASSUME IInv, NEW w \in Workers, Crash(w)
  PROVE  Sound
  <1>1. UNCHANGED <<run, inv, conv, cancel>> /\ OneStep
    BY DEF Crash, OneStep
  <1>2. Idle \in Worker
    BY DEF Idle, Worker, Pc
  <1>3. worker' \in [Workers -> Worker]
    BY <1>2 DEF Crash, IInv, TypeOK
  <1>4. Hand(w)' /\ \A v \in Workers \ {w} : worker'[v] = worker[v]
    BY DEF Crash, IInv, TypeOK, Hand, Held, Idle
  <1> QED
    BY <1>1, <1>3, <1>4, StepHand, TypeFrom DEF IInv, TypeOK, Sound

\* Every step of an attempt, and every fault.
LEMMA WorkerSound ==
  ASSUME IInv, NEW w \in Workers, Attempt(w) \/ Fault(w)
  PROVE  Sound
  BY StartAttemptSound, PreflightRunSound, PreflightFenceSound, PreflightInputsSound, ResumeSound,
     ApplyRejectedSound, ExecuteApprovedSound, LoopTopSound, GatewayErrorSound, OutputBlockedSound,
     FinalizeRefusalSound, SuccessSound, AfterProviderFailureSound, ParkSound,
     RecordProviderCallSound, DispatchSound, RunToolSound, CommitToolSound, FailToolSound,
     FailRunSound, AbandonSound, CrashSound
  DEF Attempt, Fault

-----------------------------------------------------------------------------
(* One lemma per action of the producer, the sweeps and the users.         *)

\* A transaction on one row and its gate.
LEMMA RowSound ==
  ASSUME IInv, NEW r \in Runs, Others(r), Move(r), Settled(r),
         run' \in [Runs -> Run], inv' \in [Runs -> [Slots -> Inv]],
         cancel' \in [Runs -> CancelPc], UNCHANGED <<conv, worker>>
  PROVE  Sound
  <1>1. OneStep
    BY DEF OneStep, OnlyOneMoves
  <1>2. InHand'
    BY <1>1, OneStepMoves, SameHands DEF IInv
  <1> QED
    BY <1>1, <1>2 DEF IInv, TypeOK, Sound

\* The same when the gate is left alone and only the row is rewritten.
LEMMA RewriteSound ==
  ASSUME IInv, NEW r \in Runs, NEW rec \in Run, run' = [run EXCEPT ![r] = rec], UNCHANGED inv,
         Move(r), cancel' \in [Runs -> CancelPc], UNCHANGED <<conv, worker>>
  PROVE  Sound
  <1>1. Others(r) /\ Settled(r) /\ run' \in [Runs -> Run]
    BY DEF IInv, TypeOK, Others, Settled
  <1> QED
    BY <1>1, RowSound DEF IInv, TypeOK

LEMMA NothingSound ==
  ASSUME IInv, UNCHANGED <<run, inv, conv, worker>>, cancel' \in [Runs -> CancelPc]
  PROVE  Sound
  BY StillMoves, SameHands DEF IInv, TypeOK, Sound, OneStep

\* A flag of the row changes and nothing the invariant looks at.
LEMMA FlagSound ==
  ASSUME IInv, NEW r \in Runs, NEW rec \in Run, run' = [run EXCEPT ![r] = rec],
         rec.status = run[r].status, rec.attempts = run[r].attempts,
         rec.gen = run[r].gen, rec.turns = run[r].turns,
         UNCHANGED <<inv, conv, worker>>, cancel' \in [Runs -> CancelPc]
  PROVE  Sound
  <1>1. run'[r] = rec
    BY DEF IInv, TypeOK
  <1>2. Move(r)
    BY <1>1 DEF Move, Stays, SameCounts, SameTurns, SameGen, SameAttempts, SameGates
  <1> QED
    BY <1>2, RewriteSound

\* A queued or running row is closed.
LEMMA CloseSound ==
  ASSUME IInv, NEW r \in Runs, NEW rec \in Run, run' = [run EXCEPT ![r] = rec],
         run[r].status \in {"QUEUED", "RUNNING"}, rec.status \in Closed,
         rec.attempts = run[r].attempts, rec.gen = run[r].gen, rec.turns = run[r].turns,
         UNCHANGED <<inv, conv, worker>>, cancel' \in [Runs -> CancelPc]
  PROVE  Sound
  <1>1. run'[r] = rec
    BY DEF IInv, TypeOK
  <1>2. Move(r)
    BY <1>1 DEF Move, Closes, Becomes, SameCounts, SameTurns, SameGen, SameAttempts, SameGates
  <1> QED
    BY <1>2, RewriteSound

LEMMA CreateSound ==
  ASSUME IInv, NEW r \in Runs, Create(r)
  PROVE  Sound
  <1> DEFINE rec == [run[r] EXCEPT !.status = "QUEUED", !.gen = conv.gen]
  <1>1. run[r] \in Run /\ conv.gen \in Nat
    BY DEF IInv, TypeOK
  <1>2. /\ rec \in Run /\ rec.status = "QUEUED" /\ rec.gen = conv.gen
        /\ rec.attempts = run[r].attempts /\ rec.turns = run[r].turns
    BY <1>1 DEF Run, Status
  <1>3. run' = [run EXCEPT ![r] = rec] /\ UNCHANGED <<inv, conv, worker, cancel>>
    BY DEF Create
  <1>4. run'[r] = rec
    BY <1>3 DEF IInv, TypeOK
  <1>5. Submits(r)
    BY <1>2, <1>3, <1>4 DEF Create, Submits, Becomes, SameTurns, SameAttempts, SameGates
  <1> QED
    BY <1>2, <1>3, <1>5, RewriteSound DEF Move, IInv, TypeOK

LEMMA LeaseExpiresSound ==
  ASSUME IInv, NEW r \in Runs, LeaseExpires(r)
  PROVE  Sound
  <1> DEFINE rec == [run[r] EXCEPT !.live = FALSE]
  <1>1. run[r] \in Run
    BY DEF IInv, TypeOK
  <1>2. /\ rec \in Run /\ rec.status = run[r].status /\ rec.gen = run[r].gen
        /\ rec.attempts = run[r].attempts /\ rec.turns = run[r].turns
    BY <1>1 DEF Run
  <1>3. run' = [run EXCEPT ![r] = rec] /\ UNCHANGED <<inv, conv, worker, cancel>>
    BY DEF LeaseExpires
  <1> QED
    BY <1>2, <1>3, FlagSound DEF IInv, TypeOK

LEMMA ReapExpiredLeaseSound ==
  ASSUME IInv, NEW r \in Runs, ReapExpiredLease(r)
  PROVE  Sound
  <1> DEFINE st == IF run[r].late THEN "EXPIRED"
                   ELSE IF run[r].attempts >= MaxAttempts THEN "FAILED" ELSE "QUEUED"
             rec == Released(run[r], st)
  <1>1. run[r] \in Run /\ st \in Status
    BY DEF IInv, TypeOK, Status, Terminal
  <1>2. /\ rec \in Run /\ rec.status = st /\ rec.gen = run[r].gen
        /\ rec.attempts = run[r].attempts /\ rec.turns = run[r].turns
    BY <1>1, ReleasedType
  <1>3. /\ run' = [run EXCEPT ![r] = rec] /\ UNCHANGED <<inv, conv, worker, cancel>>
        /\ run[r].status = "RUNNING"
    BY DEF ReapExpiredLease
  <1>4. CASE st \in Closed
    BY <1>2, <1>3, <1>4, CloseSound DEF IInv, TypeOK
  <1>5. CASE st = "QUEUED" /\ ~(run[r].attempts >= MaxAttempts)
    <2>1. run'[r] = rec
      BY <1>3 DEF IInv, TypeOK
    <2>2. run[r].attempts < MaxAttempts
      BY <1>1, <1>5, ConstantsAssumption DEF Run
    <2>3. Requeues(r)
      BY <1>2, <1>3, <1>5, <2>1, <2>2 DEF Requeues, Becomes, SameCounts, SameTurns, SameGen,
                                          SameAttempts, SameGates
    <2> QED
      BY <1>2, <1>3, <2>3, RewriteSound DEF Move, IInv, TypeOK
  <1> QED
    BY <1>4, <1>5 DEF Closed

LEMMA DeadlinePassesSound ==
  ASSUME IInv, NEW r \in Runs, DeadlinePasses(r)
  PROVE  Sound
  <1> DEFINE rec == [run[r] EXCEPT !.late = TRUE]
  <1>1. run[r] \in Run
    BY DEF IInv, TypeOK
  <1>2. /\ rec \in Run /\ rec.status = run[r].status /\ rec.gen = run[r].gen
        /\ rec.attempts = run[r].attempts /\ rec.turns = run[r].turns
    BY <1>1 DEF Run
  <1>3. run' = [run EXCEPT ![r] = rec] /\ UNCHANGED <<inv, conv, worker, cancel>>
    BY DEF DeadlinePasses
  <1> QED
    BY <1>2, <1>3, FlagSound DEF IInv, TypeOK

LEMMA ApprovalTtlElapsesSound ==
  ASSUME IInv, NEW r \in Runs, ApprovalTtlElapses(r)
  PROVE  Sound
  <1> DEFINE rec == [run[r] EXCEPT !.overdue = TRUE]
  <1>1. run[r] \in Run
    BY DEF IInv, TypeOK
  <1>2. /\ rec \in Run /\ rec.status = run[r].status /\ rec.gen = run[r].gen
        /\ rec.attempts = run[r].attempts /\ rec.turns = run[r].turns
    BY <1>1 DEF Run
  <1>3. run' = [run EXCEPT ![r] = rec] /\ UNCHANGED <<inv, conv, worker, cancel>>
    BY DEF ApprovalTtlElapses
  <1> QED
    BY <1>2, <1>3, FlagSound DEF IInv, TypeOK

LEMMA ExpireDeadlinedRunSound ==
  ASSUME IInv, NEW r \in Runs, ExpireDeadlinedRun(r)
  PROVE  Sound
  <1> DEFINE rec == [run[r] EXCEPT !.status = "EXPIRED"]
  <1>1. run[r] \in Run
    BY DEF IInv, TypeOK
  <1>2. /\ rec \in Run /\ rec.status = "EXPIRED" /\ rec.gen = run[r].gen
        /\ rec.attempts = run[r].attempts /\ rec.turns = run[r].turns
    BY <1>1 DEF Run, Status, Terminal
  <1>3. /\ run' = [run EXCEPT ![r] = rec] /\ UNCHANGED <<inv, conv, worker, cancel>>
        /\ run[r].status = "QUEUED"
    BY DEF ExpireDeadlinedRun
  <1> QED
    BY <1>2, <1>3, CloseSound DEF IInv, TypeOK, Closed

-----------------------------------------------------------------------------
(* Closing a gate: decision, expiry and cancellation.                      *)

\* A parked run has one gate, so closing it leaves none open.
LEMMA GateCloses ==
  ASSUME IInv, NEW r \in Runs, NEW n \in Gated(r), NEW i \in Inv, i.approval # "PENDING",
         i.status \notin {"NONE", "AWAITING_APPROVAL"}, inv' = [inv EXCEPT ![r][n] = i]
  PROVE  /\ inv' \in [Runs -> [Slots -> Inv]]
         /\ NoGateLeft(r) /\ Settled(r) /\ run[r].status = "WAITING_APPROVAL"
  <1>1. n \in Slots /\ run[r].status = "WAITING_APPROVAL" /\ inv[r][n].approval = "PENDING"
    BY DEF Gated, IsPending
  <1>2. /\ inv' \in [Runs -> [Slots -> Inv]] /\ inv'[r][n] = i
        /\ \A m \in Slots \ {n} : inv'[r][m] = inv[r][m]
    BY <1>1 DEF IInv, TypeOK
  <1>3. \A m \in Slots \ {n} : inv[r][m].approval # "PENDING"
    BY <1>1 DEF IInv, ParkedGate
  <1> QED
    BY <1>1, <1>2, <1>3 DEF NoGateLeft, Settled

\* The rewritten invocation of a decision or of a void.
LEMMA DecidedInv ==
  ASSUME IInv, NEW r \in Runs, NEW n \in Gated(r), NEW i,
         NEW st \in InvStatus \ {"NONE", "AWAITING_APPROVAL"}, NEW a \in ApprovalState \ {"PENDING"},
         i = [inv[r][n] EXCEPT !.status = st, !.approval = a]
  PROVE  i \in Inv /\ i.approval # "PENDING" /\ i.status \notin {"NONE", "AWAITING_APPROVAL"}
  <1>1. inv[r][n] \in Inv
    BY DEF IInv, TypeOK, Gated
  <1> QED
    BY <1>1 DEF Inv

LEMMA DecideSound ==
  ASSUME IInv, NEW r \in Runs, NEW n \in Slots, NEW d \in {"APPROVED", "REJECTED"}, Decide(r, n, d)
  PROVE  Sound
  <1> DEFINE k == IF run[r].attempts > 0 THEN run[r].attempts - 1 ELSE run[r].attempts
             rec == [run[r] EXCEPT !.status = "QUEUED", !.attempts = k]
             i == [inv[r][n] EXCEPT !.status = d, !.approval = d]
  <1>1. run[r] \in Run /\ run[r].attempts \in Nat /\ run[r].status = "WAITING_APPROVAL"
    BY DEF IInv, TypeOK, Run, Decide, Gated
  <1>2. run[r].attempts >= 1
    BY <1>1 DEF IInv, AttemptBudget
  <1>3. k \in Nat /\ k = run[r].attempts - 1
    BY <1>1, <1>2
  <1>4. /\ rec \in Run /\ rec.status = "QUEUED" /\ rec.attempts = k
        /\ rec.gen = run[r].gen /\ rec.turns = run[r].turns
    BY <1>1, <1>3 DEF Run, Status
  <1>5. run' = [run EXCEPT ![r] = rec] /\ UNCHANGED <<conv, worker, cancel>> /\ n \in Gated(r)
    BY DEF Decide
  <1>6. inv' = [inv EXCEPT ![r][n] = i]
    BY DEF Decide, Decided
  <1>7. i \in Inv /\ i.approval # "PENDING" /\ i.status \notin {"NONE", "AWAITING_APPROVAL"}
    BY <1>5, DecidedInv DEF InvStatus, ApprovalState
  <1> HIDE DEF i, rec, k
  <1>8. inv' \in [Runs -> [Slots -> Inv]] /\ NoGateLeft(r) /\ Settled(r)
    BY <1>5, <1>6, <1>7, GateCloses
  <1>9. run' \in [Runs -> Run] /\ run'[r] = rec /\ Others(r)
    BY <1>4, <1>5, <1>6 DEF IInv, TypeOK, Others
  <1>10. Decides(r)
    BY <1>1, <1>3, <1>4, <1>8, <1>9 DEF Decides, Becomes, SameTurns, SameGen
  <1> QED
    BY <1>5, <1>8, <1>9, <1>10, RowSound DEF Move, IInv, TypeOK

\* A parked row is closed and its gate voided with it.
LEMMA VoidSound ==
  ASSUME IInv, NEW r \in Runs, NEW n \in Gated(r), NEW st \in {"SKIPPED", "REJECTED"},
         NEW to \in Closed, Voided(r, n, st), run' = [run EXCEPT ![r].status = to],
         UNCHANGED <<conv, worker>>, cancel' \in [Runs -> CancelPc]
  PROVE  Sound
  <1> DEFINE rec == [run[r] EXCEPT !.status = to]
             i == [inv[r][n] EXCEPT !.status = st, !.approval = "EXPIRED"]
  <1>1. run[r] \in Run /\ to \in Status
    BY DEF IInv, TypeOK, Closed, Status, Terminal
  <1>2. /\ rec \in Run /\ rec.status = to /\ rec.attempts = run[r].attempts
        /\ rec.gen = run[r].gen /\ rec.turns = run[r].turns
    BY <1>1 DEF Run
  <1>3. run' = [run EXCEPT ![r] = rec] /\ inv' = [inv EXCEPT ![r][n] = i]
    BY DEF Voided
  <1>4. i \in Inv /\ i.approval # "PENDING" /\ i.status \notin {"NONE", "AWAITING_APPROVAL"}
    <2>1. /\ st \in InvStatus \ {"NONE", "AWAITING_APPROVAL"}
          /\ "EXPIRED" \in ApprovalState \ {"PENDING"}
      BY DEF InvStatus, ApprovalState
    <2> QED
      BY <2>1, DecidedInv
  <1> HIDE DEF i, rec
  <1>5. /\ inv' \in [Runs -> [Slots -> Inv]] /\ NoGateLeft(r) /\ Settled(r)
        /\ run[r].status = "WAITING_APPROVAL"
    BY <1>3, <1>4, GateCloses
  <1>6. run' \in [Runs -> Run] /\ run'[r] = rec /\ Others(r)
    BY <1>2, <1>3 DEF IInv, TypeOK, Others
  <1>7. Voids(r)
    BY <1>2, <1>5, <1>6 DEF Voids, Becomes, SameCounts, SameTurns, SameGen, SameAttempts
  <1> QED
    BY <1>5, <1>6, <1>7, RowSound DEF Move

LEMMA ExpireApprovalSound ==
  ASSUME IInv, NEW r \in Runs, NEW n \in Slots, ExpireApproval(r, n)
  PROVE  Sound
  <1>1. /\ (IF run[r].late THEN "SKIPPED" ELSE "REJECTED") \in {"SKIPPED", "REJECTED"}
        /\ (IF run[r].late THEN "EXPIRED" ELSE "FAILED") \in Closed
    BY DEF Closed
  <1> QED
    BY <1>1, VoidSound DEF ExpireApproval, IInv, TypeOK

LEMMA CancelSound ==
  ASSUME IInv, NEW r \in Runs,
         Cancel(r) \/ CancelQueued(r) \/ CancelWaitingApproval(r) \/ CancelRunning(r)
  PROVE  Sound
  <1>1. cancel' \in [Runs -> CancelPc]
    BY DEF Cancel, CancelQueued, CancelWaitingApproval, CancelRunning, CancelPc, IInv, TypeOK
  <1>2. run[r] \in Run
    BY DEF IInv, TypeOK
  <1>3. CASE UNCHANGED <<run, inv, conv, worker>>
    BY <1>1, <1>3, NothingSound
  <1>4. CASE /\ run[r].status = "QUEUED" /\ run' = [run EXCEPT ![r].status = "CANCELLED"]
             /\ UNCHANGED <<inv, conv, worker>>
    <2> DEFINE rec == [run[r] EXCEPT !.status = "CANCELLED"]
    <2>1. /\ rec \in Run /\ rec.status = "CANCELLED" /\ rec.gen = run[r].gen
          /\ rec.attempts = run[r].attempts /\ rec.turns = run[r].turns
      BY <1>2 DEF Run, Status, Terminal
    <2> QED
      BY <1>1, <1>4, <2>1, CloseSound DEF Closed
  <1>5. CASE /\ \E n \in Gated(r) : Voided(r, n, "SKIPPED")
             /\ run' = [run EXCEPT ![r].status = "CANCELLED"] /\ UNCHANGED <<conv, worker>>
    BY <1>1, <1>5, VoidSound DEF Closed
  <1>6. CASE run' = [run EXCEPT ![r].cancelReq = TRUE] /\ UNCHANGED <<inv, conv, worker>>
    <2> DEFINE rec == [run[r] EXCEPT !.cancelReq = TRUE]
    <2>1. /\ rec \in Run /\ rec.status = run[r].status /\ rec.gen = run[r].gen
          /\ rec.attempts = run[r].attempts /\ rec.turns = run[r].turns
      BY <1>2 DEF Run
    <2> QED
      BY <1>1, <1>6, <2>1, FlagSound
  <1> QED
    BY <1>3, <1>4, <1>5, <1>6 DEF Cancel, CancelQueued, CancelWaitingApproval, CancelRunning

LEMMA RowActionSound ==
  ASSUME IInv, NEW r \in Runs, Time(r) \/ Sweep(r) \/ User(r)
  PROVE  Sound
  BY LeaseExpiresSound, DeadlinePassesSound, ApprovalTtlElapsesSound, ReapExpiredLeaseSound,
     ExpireDeadlinedRunSound, ExpireApprovalSound, CreateSound, CancelSound, DecideSound
  DEF Time, Sweep, User

-----------------------------------------------------------------------------
(* The three steps that touch the whole table or the conversation.         *)

\* A claimed batch: every run of it moves from QUEUED to RUNNING.
LEMMA ClaimMoves ==
  ASSUME IInv, NEW w \in Workers, ClaimDueBatch(w)
  PROVE  /\ \A r \in Runs : (Stays(r) \/ Claims(r)) /\ Settled(r)
         /\ TypeOK' /\ InHand' /\ UNCHANGED conv
  <1>1. PICK S \in SUBSET {r \in Runs : run[r].status = "QUEUED" /\ ~run[r].late} :
          /\ run' = [r \in Runs |->
                       IF r \in S
                       THEN [run[r] EXCEPT !.status = "RUNNING", !.lease = w, !.live = TRUE,
                                           !.attempts = @ + 1]
                       ELSE run[r]]
          /\ worker' = [worker EXCEPT ![w].todo = S]
    BY DEF ClaimDueBatch
  <1>2. UNCHANGED <<inv, conv, cancel>>
    BY DEF ClaimDueBatch
  <1>3. ASSUME NEW r \in Runs
        PROVE  /\ run'[r] \in Run
               /\ \/ run'[r] = run[r]
                  \/ /\ run[r].status = "QUEUED" /\ run'[r].status = "RUNNING"
                     /\ run'[r].attempts = run[r].attempts + 1
                     /\ run'[r].gen = run[r].gen /\ run'[r].turns = run[r].turns
    <2>1. run[r] \in Run /\ run[r].attempts + 1 \in Nat
      BY DEF IInv, TypeOK, Run
    <2>2. CASE r \notin S
      BY <1>1, <2>1, <2>2
    <2>3. CASE r \in S
      <3> DEFINE rec == [run[r] EXCEPT !.status = "RUNNING", !.lease = w, !.live = TRUE,
                                       !.attempts = run[r].attempts + 1]
      <3>1. run'[r] = rec
        BY <1>1, <2>3
      <3>2. /\ rec \in Run /\ rec.status = "RUNNING" /\ rec.attempts = run[r].attempts + 1
            /\ rec.gen = run[r].gen /\ rec.turns = run[r].turns
        BY <2>1 DEF Run, Status
      <3> HIDE DEF rec
      <3> QED
        BY <2>3, <3>1, <3>2
    <2> QED
      BY <2>2, <2>3
  <1>4. run' \in [Runs -> Run]
    <2>1. run' = [r \in Runs |-> run'[r]]
      BY <1>1
    <2> QED
      BY <1>3, <2>1
  <1>5. worker[w] \in Worker /\ [worker[w] EXCEPT !.todo = S] \in Worker
    BY DEF IInv, TypeOK, Worker
  <1>6. worker' \in [Workers -> Worker]
    BY <1>1, <1>5 DEF IInv, TypeOK
  <1>7. \A r \in Runs : (Stays(r) \/ Claims(r)) /\ Settled(r)
    BY <1>2, <1>3 DEF Stays, Claims, Becomes, SameCounts, SameTurns, SameGen, SameAttempts,
                      SameGates, Settled
  <1>8. \A v \in Workers : worker'[v].pc = worker[v].pc /\ worker'[v].run = worker[v].run
                           /\ worker'[v].inv = worker[v].inv
    <2>1. \A v \in Workers : worker[v] \in Worker
      BY DEF IInv, TypeOK
    <2> QED
      BY <1>1, <2>1 DEF IInv, TypeOK, Worker
  <1>9. InHand'
    BY <1>2, <1>8 DEF IInv, InHand, Hand
  <1> QED
    BY <1>2, <1>4, <1>6, <1>7, <1>9, TypeFrom DEF IInv, TypeOK

\* A takeover closes the queued and the parked runs and leaves the others alone.
LEMMA TakeControlMoves ==
  ASSUME IInv, NEW h \in Humans, TakeControl(h)
  PROVE  /\ \A r \in Runs : (Stays(r) \/ Closes(r) \/ Voids(r)) /\ Settled(r)
         /\ TypeOK' /\ InHand'
         /\ conv.holder # h /\ conv'.holder = h /\ conv'.gen = conv.gen + 1
  <1>1. conv.gen + 1 \in Nat
    BY DEF IInv, TypeOK
  <1>2. /\ conv' \in [holder : Humans \cup {Bot}, gen : Nat]
        /\ conv.holder # h /\ conv'.holder = h /\ conv'.gen = conv.gen + 1
    BY <1>1 DEF TakeControl
  <1>3. UNCHANGED <<worker, cancel>>
    BY DEF TakeControl
  <1>4. "CANCELLED" \in Status /\ "CANCELLED" \in Closed
    BY DEF Status, Terminal, Closed
  <1>5. ASSUME NEW r \in Runs
        PROVE  /\ run'[r] \in Run
               /\ run'[r] = IF run[r].status = "QUEUED" \/ Gated(r) # {}
                            THEN Released(run[r], "CANCELLED") ELSE run[r]
    <2>1. run[r] \in Run
      BY DEF IInv, TypeOK
    <2>2. run'[r] = IF run[r].status = "QUEUED" \/ Gated(r) # {}
                    THEN Released(run[r], "CANCELLED") ELSE run[r]
      BY DEF TakeControl
    <2> QED
      BY <1>4, <2>1, <2>2, ReleasedType
  <1>6. ASSUME NEW r \in Runs, NEW n \in Slots
        PROVE  /\ inv'[r][n] \in Inv
               /\ IF n \in Gated(r)
                  THEN inv'[r][n].status = "SKIPPED" /\ inv'[r][n].approval = "EXPIRED"
                  ELSE inv'[r][n] = inv[r][n]
    <2>1. inv[r][n] \in Inv
      BY DEF IInv, TypeOK
    <2>2. CASE n \notin Gated(r)
      BY <2>1, <2>2 DEF TakeControl
    <2>3. CASE n \in Gated(r)
      <3> DEFINE i == [inv[r][n] EXCEPT !.status = "SKIPPED", !.approval = "EXPIRED"]
      <3>1. inv'[r][n] = i
        BY <2>3 DEF TakeControl
      <3>2. i \in Inv /\ i.status = "SKIPPED" /\ i.approval = "EXPIRED"
        BY <2>1 DEF Inv, InvStatus, ApprovalState
      <3> HIDE DEF i
      <3> QED
        BY <2>3, <3>1, <3>2
    <2> QED
      BY <2>2, <2>3
  <1>7. run' \in [Runs -> Run]
    <2>1. run' = [r \in Runs |-> run'[r]]
      BY DEF TakeControl
    <2> QED
      BY <1>5, <2>1
  <1>8. inv' \in [Runs -> [Slots -> Inv]]
    <2>1. inv' = [r \in Runs |-> [n \in Slots |-> inv'[r][n]]]
      BY DEF TakeControl
    <2> QED
      BY <1>6, <2>1
  <1>9. ASSUME NEW r \in Runs
        PROVE  (Stays(r) \/ Closes(r) \/ Voids(r)) /\ Settled(r)
    <2>1. run[r] \in Run
      BY DEF IInv, TypeOK
    <2>2. Settled(r)
      BY <1>6 DEF Settled, Gated, IsPending
    <2>3. CASE Gated(r) # {}
      <3>1. run[r].status = "WAITING_APPROVAL"
        BY <2>3 DEF Gated
      <3>2. NoGateLeft(r)
        BY <1>6 DEF NoGateLeft, IInv, ParkedGate
      <3>3. run'[r] = Released(run[r], "CANCELLED")
        BY <1>5, <2>3
      <3>4. Voids(r)
        BY <1>4, <2>1, <3>1, <3>2, <3>3, ReleasedType DEF Voids, Becomes, SameCounts, SameTurns,
                                                          SameGen, SameAttempts
      <3> QED
        BY <2>2, <3>4
    <2>4. CASE Gated(r) = {}
      <3>1. \A n \in Slots : inv'[r][n] = inv[r][n]
        BY <1>6, <2>4
      <3>2. CASE run[r].status = "QUEUED"
        <4>1. run'[r] = Released(run[r], "CANCELLED")
          BY <1>5, <3>2
        <4>2. Closes(r)
          BY <1>4, <2>1, <3>1, <3>2, <4>1, ReleasedType DEF Closes, Becomes, SameCounts,
                                      SameTurns, SameGen, SameAttempts, SameGates
        <4> QED
          BY <2>2, <4>2
      <3>3. CASE run[r].status # "QUEUED"
        <4>1. run'[r] = run[r]
          BY <1>5, <2>4, <3>3
        <4> QED
          BY <2>2, <3>1, <4>1 DEF Stays, SameCounts, SameTurns, SameGen, SameAttempts, SameGates
      <3> QED
        BY <3>2, <3>3
    <2> QED
      BY <2>3, <2>4
  <1>10. InHand'
    BY <1>3, <1>9, SameHands DEF IInv
  <1> QED
    BY <1>2, <1>3, <1>7, <1>8, <1>9, <1>10 DEF IInv, TypeOK

LEMMA ReleaseControlMoves ==
  ASSUME IInv, NEW h \in Humans, ReleaseControl(h)
  PROVE  /\ UNCHANGED <<run, inv>> /\ TypeOK' /\ InHand'
         /\ conv.holder # Bot /\ conv'.holder = Bot /\ conv'.gen = conv.gen + 1
  <1>1. conv.gen + 1 \in Nat
    BY DEF IInv, TypeOK
  <1>2. UNCHANGED <<run, inv, worker, cancel>>
    BY DEF ReleaseControl
  <1> QED
    BY <1>1, <1>2 DEF ReleaseControl, IInv, TypeOK, InHand, Hand

-----------------------------------------------------------------------------
(* The inductive invariant.                                                *)

LEMMA InitInv == Init => IInv
  <1> SUFFICES ASSUME Init PROVE IInv
    OBVIOUS
  <1>1. TypeOK
    <2>1. /\ [status |-> "NONE", attempts |-> 0, lease |-> NoWorker, live |-> FALSE,
              gen |-> 0, cancelReq |-> FALSE, late |-> FALSE, overdue |-> FALSE,
              calls |-> 0, turns |-> 0] \in Run
          /\ NoInv \in Inv /\ Idle \in Worker
      BY DEF Run, Status, NoInv, NewInv, Inv, InvStatus, ApprovalState, Few, Idle, Worker, Pc
    <2> QED
      BY <2>1 DEF Init, TypeOK, CancelPc
  <1>2. AttemptBudget /\ Unborn
    BY ConstantsAssumption DEF Init, AttemptBudget, Unborn
  <1>3. ParkedGate
    BY DEF Init, ParkedGate, Gated, IsPending, NoInv, NewInv
  <1>4. ExactlyOneTurn
    BY DEF Init, ExactlyOneTurn
  <1>5. InHand
    BY DEF Init, InHand, Hand, Held, Idle
  <1> QED
    BY <1>1, <1>2, <1>3, <1>4, <1>5 DEF IInv

\* Every step keeps the types and the hands, and moves every run.
LEMMA StepMoves ==
  ASSUME IInv, [Next]_vars
  PROVE  TypeOK' /\ InHand' /\ \A r \in Runs : Move(r) /\ Settled(r)
  <1>1. CASE UNCHANGED vars
    BY <1>1, StillMoves DEF vars, IInv, TypeOK, InHand, Hand
  <1>2. ASSUME NEW w \in Workers, ClaimDueBatch(w)
        PROVE  TypeOK' /\ InHand' /\ \A r \in Runs : Move(r) /\ Settled(r)
    BY <1>2, ClaimMoves DEF Move
  <1>3. ASSUME NEW w \in Workers, Attempt(w) \/ Fault(w)
        PROVE  TypeOK' /\ InHand' /\ \A r \in Runs : Move(r) /\ Settled(r)
    BY <1>3, WorkerSound, OneStepMoves DEF Sound
  <1>4. ASSUME NEW r \in Runs, Time(r) \/ Sweep(r) \/ User(r)
        PROVE  TypeOK' /\ InHand' /\ \A q \in Runs : Move(q) /\ Settled(q)
    BY <1>4, RowActionSound, OneStepMoves DEF Sound
  <1>5. ASSUME NEW h \in Humans, TakeControl(h)
        PROVE  TypeOK' /\ InHand' /\ \A r \in Runs : Move(r) /\ Settled(r)
    BY <1>5, TakeControlMoves DEF Move
  <1>6. ASSUME NEW h \in Humans, ReleaseControl(h)
        PROVE  TypeOK' /\ InHand' /\ \A r \in Runs : Move(r) /\ Settled(r)
    BY <1>6, ReleaseControlMoves, StillMoves
  <1> QED
    BY <1>1, <1>2, <1>3, <1>4, <1>5, <1>6 DEF Next

LEMMA StepInv == IInv /\ [Next]_vars => IInv'
  BY StepMoves, MovesKeepBudget, MovesKeepTurns, MovesKeepGate DEF IInv

\* Whatever step of whatever process comes next, the rows and the loops' memories stay coherent.
THEOREM InductiveInvariant == Spec => []IInv
  BY InitInv, StepInv, PTL DEF Spec

\* Every reachable state is well typed, for any number of runs, loops and humans.
THEOREM TypeCorrect == Spec => []TypeOK
  BY InductiveInvariant, PTL DEF IInv

\* No interleaving of claims, retries, reaps and decisions overspends the attempts of a run
\* or hands back an attempt that was not spent.
THEOREM AttemptBudgetHolds == Spec => []AttemptBudget
  BY InductiveInvariant, PTL DEF IInv

\* A run, its approval and its gated invocation never disagree about whether it is parked.
THEOREM ParkedGateHolds == Spec => []ParkedGate
  BY InductiveInvariant, PTL DEF IInv

\* A run writes at most one turn, and exactly one when it completes.
THEOREM ExactlyOneTurnHolds == Spec => []ExactlyOneTurn
  BY InductiveInvariant, PTL DEF IInv

\* What a move may do to a run that has ended: nothing.
LEMMA TerminalStep ==
  ASSUME IInv, [Next]_vars
  PROVE  \A r \in Runs : run[r].status \in Terminal =>
           run'[r].status = run[r].status /\ run'[r].turns = run[r].turns
  BY StepMoves DEF Move, Stays, Submits, Claims, Requeues, Closes, Speaks, Parks, Decides, Voids,
     Becomes, SameCounts, SameTurns, Terminal

\* A run that has ended keeps its outcome and its transcript for ever.
THEOREM TerminalIsForeverHolds == Spec => TerminalIsForever
  <1>1. IInv /\ [Next]_vars =>
          [\A r \in Runs : run[r].status \in Terminal =>
             run'[r].status = run[r].status /\ run'[r].turns = run[r].turns]_vars
    BY TerminalStep
  <1> QED
    BY <1>1, InductiveInvariant, PTL DEF Spec, TerminalIsForever

-----------------------------------------------------------------------------
(* The runs implement the contract.                                        *)

Live == {"QUEUED", "RUNNING", "WAITING_APPROVAL"}

\* What the moves look like to the contract.
LEMMA OutcomeOfStatus ==
  ASSUME TypeOK, ExactlyOneTurn, NEW r \in Runs
  PROVE  /\ run[r].status = "NONE" => Outcome(r) = "none"
         /\ run[r].status \in Live => Outcome(r) = "open"
         /\ run[r].status = "COMPLETED" => Outcome(r) = "answered"
         /\ run[r].status \in Closed /\ run[r].turns = 0 => Outcome(r) = "closed"
         /\ run[r].status = "FAILED" /\ run[r].turns = 1 => Outcome(r) = "refused"
         /\ run[r].status \in Live \cup {"NONE"} => run[r].turns = 0
  <1>1. run[r].turns \in Nat
    BY DEF TypeOK, Run
  <1>2. /\ run[r].turns = 0 \/ run[r].turns = 1
        /\ run[r].status = "COMPLETED" => run[r].turns = 1
        /\ run[r].turns = 1 => run[r].status \in {"COMPLETED", "FAILED"}
    BY <1>1 DEF ExactlyOneTurn
  <1> QED
    BY <1>2 DEF Outcome, Live, Closed, Terminal

\* The same of the state after a step.
LEMMA OutcomeAfter ==
  ASSUME TypeOK', ExactlyOneTurn', NEW r \in Runs
  PROVE  /\ run'[r].status \in Live => Outcome(r)' = "open"
         /\ run'[r].status = "COMPLETED" => Outcome(r)' = "answered"
         /\ run'[r].status \in Closed /\ run'[r].turns = 0 => Outcome(r)' = "closed"
         /\ run'[r].status = "FAILED" /\ run'[r].turns = 1 => Outcome(r)' = "refused"
  <1>1. run'[r].turns \in Nat
    BY DEF TypeOK, Run
  <1>2. /\ run'[r].turns = 0 \/ run'[r].turns = 1
        /\ run'[r].status = "COMPLETED" => run'[r].turns = 1
        /\ run'[r].turns = 1 => run'[r].status \in {"COMPLETED", "FAILED"}
    BY <1>1 DEF ExactlyOneTurn
  <1> QED
    BY <1>2 DEF Outcome, Live, Closed, Terminal

\* A move that neither submits, speaks nor ends the run is invisible.
LEMMA QuietMove ==
  ASSUME IInv, IInv', NEW r \in Runs,
         Stays(r) \/ Claims(r) \/ Requeues(r) \/ Parks(r) \/ Decides(r)
  PROVE  Outcome(r)' = Outcome(r) /\ run'[r].gen = run[r].gen
  <1>1. CASE Stays(r)
    BY <1>1 DEF Stays, SameCounts, SameTurns, SameGen, Outcome
  <1>2. CASE Claims(r) \/ Requeues(r) \/ Parks(r) \/ Decides(r)
    <2>1. run[r].status \in Live /\ run'[r].status \in Live /\ run'[r].gen = run[r].gen
      BY <1>2 DEF Claims, Requeues, Parks, Decides, Becomes, SameCounts, SameGen, Live
    <2>2. Outcome(r) = "open"
      BY <2>1, OutcomeOfStatus DEF IInv
    <2>3. Outcome(r)' = "open"
      BY <2>1, OutcomeAfter DEF IInv
    <2> QED
      BY <2>1, <2>2, <2>3
  <1> QED
    BY <1>1, <1>2

LEMMA SubmitMove ==
  ASSUME IInv, IInv', NEW r \in Runs, Submits(r)
  PROVE  /\ Outcome(r) = "none" /\ Outcome(r)' = "open"
         /\ conv.holder = Bot /\ run'[r].gen = conv.gen
  <1>1. run[r].status = "NONE" /\ run'[r].status \in Live
    BY DEF Submits, Becomes, Live
  <1> QED
    BY <1>1, OutcomeOfStatus, OutcomeAfter DEF IInv, Submits

LEMMA CloseMove ==
  ASSUME IInv, IInv', NEW r \in Runs, Closes(r) \/ Voids(r)
  PROVE  Outcome(r) = "open" /\ Outcome(r)' = "closed" /\ run'[r].gen = run[r].gen
  <1>1. /\ run[r].status \in Live /\ run'[r].status \in Closed
        /\ run'[r].turns = run[r].turns /\ run'[r].gen = run[r].gen
    BY DEF Closes, Voids, Becomes, SameCounts, SameTurns, SameGen, Live
  <1> QED
    BY <1>1, OutcomeOfStatus, OutcomeAfter DEF IInv

LEMMA SpeakMove ==
  ASSUME IInv, IInv', NEW r \in Runs, Speaks(r)
  PROVE  /\ Outcome(r) = "open" /\ Outcome(r)' \in {"answered", "refused"}
         /\ conv.holder = Bot /\ run[r].gen = conv.gen /\ run'[r].gen = run[r].gen
  <1>1. /\ run[r].status \in Live /\ run'[r].status \in {"COMPLETED", "FAILED"}
        /\ run'[r].turns = run[r].turns + 1 /\ run'[r].gen = run[r].gen
    BY DEF Speaks, Becomes, SameGen, Live
  <1>2. run[r].turns = 0 /\ Outcome(r) = "open"
    BY <1>1, OutcomeOfStatus DEF IInv
  <1>3. run'[r].turns = 1
    BY <1>1, <1>2
  <1> QED
    BY <1>1, <1>2, <1>3, OutcomeAfter DEF IInv, Speaks

\* A step of one run is a step of the contract or none.
LEMMA OneMoveRefines ==
  ASSUME IInv, IInv', OnlyOneMoves, UNCHANGED conv
  PROVE  Contract!Next \/ UNCHANGED Contract!cvars
  <1> DEFINE out == [q \in Runs |-> Outcome(q)]
             born == [q \in Runs |-> run[q].gen]
  <1>1. PICK r \in Runs : Others(r) /\ Move(r)
    BY DEF OnlyOneMoves
  <1>2. \A q \in Runs \ {r} : Outcome(q)' = Outcome(q) /\ run'[q].gen = run[q].gen
    BY <1>1 DEF Others, Outcome
  <1>3. out' = [out EXCEPT ![r] = Outcome(r)'] /\ born' = [born EXCEPT ![r] = run'[r].gen]
    BY <1>2
  <1>4. CASE Stays(r) \/ Claims(r) \/ Requeues(r) \/ Parks(r) \/ Decides(r)
    <2>1. \A q \in Runs : Outcome(q)' = Outcome(q) /\ run'[q].gen = run[q].gen
      BY <1>2, <1>4, QuietMove
    <2>2. out' = out /\ born' = born
      BY <2>1
    <2> QED
      BY <2>2 DEF Contract!cvars
  <1>5. CASE Submits(r)
    <2>1. Contract!Submit(r)
      BY <1>3, <1>5, SubmitMove DEF Contract!Submit
    <2> QED
      BY <2>1 DEF Contract!Next
  <1>6. CASE Closes(r) \/ Voids(r)
    <2>1. Outcome(r) = "open" /\ Outcome(r)' = "closed" /\ run'[r].gen = run[r].gen
      BY <1>6, CloseMove
    <2>2. born' = born
      BY <1>3, <2>1
    <2>3. Contract!Close(r)
      BY <1>3, <2>1, <2>2 DEF Contract!Close
    <2> QED
      BY <2>3 DEF Contract!Next
  <1>7. CASE Speaks(r)
    <2>1. /\ Outcome(r) = "open" /\ Outcome(r)' \in {"answered", "refused"}
          /\ conv.holder = Bot /\ run[r].gen = conv.gen /\ run'[r].gen = run[r].gen
      BY <1>7, SpeakMove
    <2>2. born' = born
      BY <1>3, <2>1
    <2>3. Contract!Speak(r)
      BY <1>3, <2>1, <2>2 DEF Contract!Speak
    <2> QED
      BY <2>3 DEF Contract!Next
  <1> QED
    BY <1>1, <1>4, <1>5, <1>6, <1>7 DEF Move

LEMMA TakeControlRefines ==
  ASSUME IInv, IInv', NEW h \in Humans, TakeControl(h)
  PROVE  Contract!Next
  <1> DEFINE out == [q \in Runs |-> Outcome(q)]
             born == [q \in Runs |-> run[q].gen]
             S == {q \in Runs : Closes(q) \/ Voids(q)}
  <1>1. /\ \A r \in Runs : Stays(r) \/ Closes(r) \/ Voids(r)
        /\ conv.holder # h /\ conv'.holder = h /\ conv'.gen = conv.gen + 1
    BY TakeControlMoves
  <1>2. \A r \in Runs : /\ run'[r].gen = run[r].gen
                        /\ IF r \in S THEN Outcome(r) = "open" /\ Outcome(r)' = "closed"
                                      ELSE Outcome(r)' = Outcome(r)
    BY <1>1, CloseMove, QuietMove
  <1>3. S \in SUBSET {r \in Runs : out[r] = "open"}
    BY <1>2
  <1>4. out' = [r \in Runs |-> IF r \in S THEN "closed" ELSE out[r]] /\ born' = born
    BY <1>2
  <1> HIDE DEF S
  <1>5. Contract!Take(h)
    BY <1>1, <1>3, <1>4 DEF Contract!Take
  <1> QED
    BY <1>5 DEF Contract!Next

LEMMA StepRefines ==
  ASSUME IInv, IInv', [Next]_vars
  PROVE  Contract!Next \/ UNCHANGED Contract!cvars
  <1> DEFINE out == [q \in Runs |-> Outcome(q)]
             born == [q \in Runs |-> run[q].gen]
  <1>1. ASSUME UNCHANGED <<run, conv>>
        PROVE  UNCHANGED Contract!cvars
    BY <1>1 DEF Contract!cvars, Outcome
  <1>2. CASE UNCHANGED vars
    BY <1>1, <1>2 DEF vars
  <1>3. ASSUME NEW w \in Workers, ClaimDueBatch(w)
        PROVE  UNCHANGED Contract!cvars
    <2>1. \A q \in Runs : Outcome(q)' = Outcome(q) /\ run'[q].gen = run[q].gen
      BY <1>3, ClaimMoves, QuietMove
    <2>2. out' = out /\ born' = born /\ UNCHANGED conv
      BY <1>3, <2>1, ClaimMoves
    <2> QED
      BY <2>2 DEF Contract!cvars
  <1>4. ASSUME Sound
        PROVE  Contract!Next \/ UNCHANGED Contract!cvars
    BY <1>1, <1>4, OneMoveRefines DEF Sound, OneStep
  <1>5. ASSUME NEW h \in Humans, ReleaseControl(h)
        PROVE  Contract!Next
    <2>1. UNCHANGED run /\ conv.holder # Bot /\ conv'.holder = Bot /\ conv'.gen = conv.gen + 1
      BY <1>5, ReleaseControlMoves
    <2>2. out' = out /\ born' = born
      BY <2>1 DEF Outcome
    <2>3. Contract!Release
      BY <2>1, <2>2 DEF Contract!Release
    <2> QED
      BY <2>3 DEF Contract!Next
  <1> QED
    BY <1>2, <1>3, <1>4, <1>5, WorkerSound, RowActionSound, TakeControlRefines DEF Next

\* The detailed runs implement the contract: leases, crashes, retries, tools, approvals and
\* stale workers are all invisible to the conversation.
THEOREM RunsImplementContract == Spec => ImplementsContract
  <1>1. Init => Contract!Init
    <2> SUFFICES ASSUME Init PROVE Contract!Init
      OBVIOUS
    <2>1. \A r \in Runs : Outcome(r) = "none"
      BY InitInv, OutcomeOfStatus DEF IInv, Init
    <2> QED
      BY <2>1 DEF Init, Contract!Init
  <1>2. IInv /\ IInv' /\ [Next]_vars => [Contract!Next]_(Contract!cvars)
    BY StepRefines
  <1> QED
    BY <1>1, <1>2, InductiveInvariant, PTL DEF Spec, ImplementsContract, Contract!Spec
=============================================================================
