------------------------ MODULE NotificationDelivery ------------------------
(***************************************************************************)
(* The durable dispatch of notifications to one user's Telegram chat: the  *)
(* producer that materialises deliveries, the drain loops that lease them, *)
(* call the Bot API and finalize, the reaper, and the link, unlink and     *)
(* destination-error fence of the connection the deliveries are aimed at.  *)
(*                                                                         *)
(* One action is one transaction or one answer of the provider.  A call    *)
(* that the ten-second timer gives up on is not cancelled: it goes on in   *)
(* the background and may still reach the fence.                           *)
(***************************************************************************)
EXTENDS Integers, FiniteSets

CONSTANTS
  Deliveries,   \* one external delivery for each notification
  Workers,      \* concurrent drain loops, over all worker replicas
  NoWorker,     \* leaseToken IS NULL
  NoDelivery,   \* an idle drain loop works on no delivery
  MaxAttempts,  \* NOTIFICATION_EXTERNAL_MAX_ATTEMPTS
  BatchLimit,   \* NOTIFICATION_CLAIM_BATCH_LIMIT
  MaxLinks      \* bound: connections the user ever makes

ASSUME ConstantsAssumption ==
  /\ NoWorker \notin Workers
  /\ NoDelivery \notin Deliveries
  /\ MaxAttempts \in Nat \ {0}
  /\ BatchLimit \in Nat \ {0}
  /\ MaxLinks \in Nat

VARIABLES
  delivery,  \* notification_deliveries rows
  attempt,   \* notification_delivery_attempts of each delivery, by attemptNumber
  conn,      \* telegram_connections, by the order in which they were made
  producer,  \* progress of the notify transaction of each delivery
  worker,    \* what each drain loop holds in memory
  orphan,    \* connections with a timed-out provider call still running
  refused    \* connections whose chat the provider has ever refused

vars == <<delivery, attempt, conn, producer, worker, orphan, refused>>

Links == 1 .. MaxLinks
Numbers == 1 .. MaxAttempts

Due == {"PENDING", "RETRY_SCHEDULED"}
Terminal == {"SKIPPED", "DELIVERED", "FAILED", "CANCELLED"}
Status == {"NONE", "PROCESSING"} \cup Due \cup Terminal
Outcome == {"none", "open", "DELIVERED", "TRANSIENT_FAILURE", "PERMANENT_FAILURE", "ABANDONED"}
Pc == {"idle", "deliver", "call", "fence", "delivered", "transient", "permanent"}

\* Until the row is inserted, target is what notify holds in memory; 0 is no usable chat.
Delivery == [status : Status, target : Links \cup {0}, count : Nat,
             lease : Workers \cup {NoWorker},
             live : BOOLEAN,  \* leaseExpiresAt is in the future
             sends : Nat]     \* calls made to the Bot API

\* A claim is handed out with the attempt number it was given.
Worker == [pc : Pc, d : Deliveries \cup {NoDelivery}, n : Nat,
           todo : SUBSET (Deliveries \X Nat)]

TypeOK ==
  /\ delivery \in [Deliveries -> Delivery]
  /\ attempt \in [Deliveries -> [Numbers -> Outcome]]
  /\ conn \in [Links -> {"free", "ACTIVE", "BLOCKED", "deleted"}]
  /\ producer \in [Deliveries -> {"none", "reading", "done"}]
  /\ worker \in [Workers -> Worker]
  /\ orphan \subseteq Links
  /\ refused \subseteq Links

Idle == [pc |-> "idle", d |-> NoDelivery, n |-> 0, todo |-> {}]

Init ==
  /\ delivery = [d \in Deliveries |->
                   [status |-> "NONE", target |-> 0, count |-> 0, lease |-> NoWorker,
                    live |-> FALSE, sends |-> 0]]
  /\ attempt = [d \in Deliveries |-> [n \in Numbers |-> "none"]]
  /\ conn = [c \in Links |-> "free"]
  /\ producer = [d \in Deliveries |-> "none"]
  /\ worker = [w \in Workers |-> Idle]
  /\ orphan = {} /\ refused = {}

-----------------------------------------------------------------------------
(* The connection and the producer.                                        *)

\* telegram_connections is unique on userId.
Current == {c \in Links : conn[c] \in {"ACTIVE", "BLOCKED"}}

\* Slip: every delivery of the connection is cancelled, whatever its status.
AllAimedAt(C) == {d \in Deliveries : delivery[d].target \in C}

\* What an unlink, a relink and the fence cancel: PENDING and RETRY_SCHEDULED only.
DueAt(C) == {d \in Deliveries : delivery[d].target \in C /\ delivery[d].status \in Due}

CancelDue(C) ==
  delivery' = [d \in Deliveries |-> IF d \in DueAt(C)
                                    THEN [delivery[d] EXCEPT !.status = "CANCELLED"]
                                    ELSE delivery[d]]

\* bindFromUpdate: relinking cancels and deletes the old connection, then inserts a new id.
Link ==
  /\ \E c \in Links :
       /\ conn[c] = "free" /\ \A b \in Links : b < c => conn[b] # "free"
       /\ conn' = [b \in Links |-> IF b = c THEN "ACTIVE"
                                   ELSE IF b \in Current THEN "deleted" ELSE conn[b]]
  /\ CancelDue(Current)
  /\ UNCHANGED <<attempt, producer, worker, orphan, refused>>

Unlink ==
  /\ Current # {}
  /\ conn' = [c \in Links |-> IF c \in Current THEN "deleted" ELSE conn[c]]
  /\ CancelDue(Current)
  /\ UNCHANGED <<attempt, producer, worker, orphan, refused>>

\* buildPlan reads the connection, if it is usable, in the transaction of notify ...
NotifyRead(d) ==
  /\ producer[d] = "none"
  /\ producer' = [producer EXCEPT ![d] = "reading"]
  /\ delivery' = [delivery EXCEPT
       ![d].target = IF \E c \in Links : conn[c] = "ACTIVE"
                     THEN CHOOSE c \in Links : conn[c] = "ACTIVE" ELSE 0]
  /\ UNCHANGED <<attempt, conn, worker, orphan, refused>>

\* ... and a later statement inserts the delivery for what was read.
NotifyWrite(d) ==
  /\ producer[d] = "reading"
  /\ producer' = [producer EXCEPT ![d] = "done"]
  /\ delivery' = [delivery EXCEPT
       ![d].status = IF delivery[d].target = 0 THEN "SKIPPED" ELSE "PENDING"]
  /\ UNCHANGED <<attempt, conn, worker, orphan, refused>>

-----------------------------------------------------------------------------
(* Claim and recovery.                                                     *)

\* A delivery leaves PROCESSING for status s and its lease is released.
Released(rec, s) == [rec EXCEPT !.status = s, !.lease = NoWorker, !.live = FALSE]

\* Slip: the claim does not count the attempt when the delivery was tried before.
LeasedAgain(rec, w) ==
  [rec EXCEPT !.status = "PROCESSING", !.lease = w, !.live = TRUE,
              !.count = IF rec.count > 0 THEN rec.count ELSE 1]

Leased(rec, w) == [rec EXCEPT !.status = "PROCESSING", !.lease = w, !.live = TRUE,
                              !.count = rec.count + 1]

\* Leases a batch and opens one attempt for each delivery in it.
ClaimDueBatch(w) ==
  /\ worker[w].pc = "idle" /\ worker[w].todo = {}
  /\ \E S \in SUBSET {d \in Deliveries : delivery[d].status \in Due} :
       /\ S # {} /\ Cardinality(S) <= BatchLimit
       /\ delivery' = [d \in Deliveries |-> IF d \in S THEN Leased(delivery[d], w)
                                            ELSE delivery[d]]
       /\ attempt' = [d \in Deliveries |->
                        IF d \in S
                        THEN [attempt[d] EXCEPT ![Leased(delivery[d], w).count] = "open"]
                        ELSE attempt[d]]
       /\ worker' = [worker EXCEPT ![w].todo =
                       {<<d, Leased(delivery[d], w).count>> : d \in S}]
  /\ UNCHANGED <<conn, producer, orphan, refused>>

\* The lease TTL elapses: the worker died, or its batch takes longer than two minutes.
LeaseExpires(d) ==
  /\ delivery[d].status = "PROCESSING" /\ delivery[d].live
  /\ delivery' = [delivery EXCEPT ![d].live = FALSE]
  /\ UNCHANGED <<attempt, conn, producer, worker, orphan, refused>>

\* Where a failed attempt leaves the delivery.
AfterFailure(n) == IF n >= MaxAttempts THEN "FAILED" ELSE "RETRY_SCHEDULED"

\* Slip: an exhausted delivery is not reaped.
ReapUnexhausted(d) ==
  LET n == delivery[d].count IN
  /\ delivery[d].status = "PROCESSING" /\ ~delivery[d].live /\ n < MaxAttempts
  /\ delivery' = [delivery EXCEPT ![d] = Released(@, AfterFailure(n))]
  /\ attempt' = [attempt EXCEPT ![d][n] = "ABANDONED"]
  /\ UNCHANGED <<conn, producer, worker, orphan, refused>>

ReapExpiredLease(d) ==
  LET n == delivery[d].count IN
  /\ delivery[d].status = "PROCESSING" /\ ~delivery[d].live
  /\ delivery' = [delivery EXCEPT ![d] = Released(@, AfterFailure(n))]
  /\ attempt' = [attempt EXCEPT ![d][n] = IF @ = "open" THEN "ABANDONED" ELSE @]
  /\ UNCHANGED <<conn, producer, worker, orphan, refused>>

-----------------------------------------------------------------------------
(* One claimed delivery.                                                   *)

At(w, pc) == worker[w].pc = pc /\ worker[w].d \in Deliveries
Goto(w, pc) == worker' = [worker EXCEPT ![w].pc = pc]
Target(w) == delivery[worker[w].d].target

\* drainDueBatches processes its batch one delivery at a time.
ProcessClaim(w) ==
  /\ worker[w].pc = "idle"
  /\ \E p \in worker[w].todo :
       worker' = [worker EXCEPT ![w] = [pc |-> "deliver", d |-> p[1], n |-> p[2],
                                        todo |-> @.todo \ {p}]]
  /\ UNCHANGED <<delivery, attempt, conn, producer, orphan, refused>>

\* The deliverer refuses the content, or calls the Bot API; it looks at neither the lease
\* nor the connection.
Deliver(w) ==
  /\ At(w, "deliver")
  /\ \/ Goto(w, "permanent") /\ UNCHANGED delivery
     \/ /\ Goto(w, "call")
        /\ delivery' = [delivery EXCEPT ![worker[w].d].sends = @ + 1]
  /\ UNCHANGED <<attempt, conn, producer, orphan, refused>>

\* The Bot API answers; only a destination error leads to the fence.
Answer(w) ==
  /\ At(w, "call")
  /\ \/ \E pc \in {"delivered", "transient", "permanent"} : Goto(w, pc) /\ UNCHANGED refused
     \/ Goto(w, "fence") /\ refused' = refused \cup {Target(w)}
  /\ UNCHANGED <<delivery, attempt, conn, producer, orphan>>

\* deliverWithTimeout resolves first; the call, or the fence, goes on without its worker.
Timeout(w) ==
  /\ At(w, "call") \/ At(w, "fence")
  /\ Goto(w, "transient")
  /\ orphan' = orphan \cup {Target(w)}
  /\ UNCHANGED <<delivery, attempt, conn, producer, refused>>

\* Slip: the fence looks the connection up by its chat, which survives a relink.
FenceByChat(c) ==
  /\ conn' = [b \in Links |-> IF conn[b] = "ACTIVE" THEN "BLOCKED" ELSE conn[b]]
  /\ CancelDue({b \in Links : conn[b] = "ACTIVE"})

\* fenceConnection: keyed by connection id, chat and status ACTIVE.
FenceConnection(c) ==
  IF conn[c] = "ACTIVE"
  THEN conn' = [conn EXCEPT ![c] = "BLOCKED"] /\ CancelDue({c})
  ELSE UNCHANGED <<conn, delivery>>

\* A fence transaction that fails is an error thrown by the deliverer, hence transient.
Fence(w) ==
  /\ At(w, "fence")
  /\ \/ FenceConnection(Target(w)) /\ Goto(w, "permanent")
     \/ UNCHANGED <<conn, delivery>> /\ Goto(w, "transient")
  /\ UNCHANGED <<attempt, producer, orphan, refused>>

\* The call whose worker has moved on meets a destination error.
LateFence(c) ==
  /\ c \in orphan
  /\ FenceConnection(c)
  /\ orphan' = orphan \ {c}
  /\ refused' = refused \cup {c}
  /\ UNCHANGED <<attempt, producer, worker>>

\* The CAS predicate of finalizeInTx: status PROCESSING and this lease token.
Owns(w, d) == delivery[d].status = "PROCESSING" /\ delivery[d].lease = w

\* Slip: the attempt is closed although the CAS matched no row.
FinalizeBoth(w, s, o) ==
  LET d == worker[w].d IN
  /\ delivery' = IF Owns(w, d) THEN [delivery EXCEPT ![d] = Released(@, s)] ELSE delivery
  /\ attempt' = [attempt EXCEPT ![d][worker[w].n] = o]

\* Delivery and attempt change together, or neither does.
FinalizeInTx(w, s, o) ==
  LET d == worker[w].d IN
  IF Owns(w, d)
  THEN /\ delivery' = [delivery EXCEPT ![d] = Released(@, s)]
       /\ attempt' = [attempt EXCEPT ![d][worker[w].n] = o]
  ELSE UNCHANGED <<delivery, attempt>>

\* Slip: the attempt takes the status meant for the delivery.
ApplyResultByStatus(w) ==
  /\ worker[w].d \in Deliveries /\ worker[w].pc = "transient"
  /\ FinalizeInTx(w, AfterFailure(worker[w].n), AfterFailure(worker[w].n))
  /\ worker' = [worker EXCEPT ![w] = [Idle EXCEPT !.todo = worker[w].todo]]
  /\ UNCHANGED <<conn, producer, orphan, refused>>

\* applyResult: a transient failure spends the budget of the attempt that was claimed.
ApplyResult(w) ==
  /\ worker[w].d \in Deliveries
  /\ \/ worker[w].pc = "delivered" /\ FinalizeInTx(w, "DELIVERED", "DELIVERED")
     \/ worker[w].pc = "transient" /\ FinalizeInTx(w, AfterFailure(worker[w].n), "TRANSIENT_FAILURE")
     \/ worker[w].pc = "permanent" /\ FinalizeInTx(w, "FAILED", "PERMANENT_FAILURE")
  /\ worker' = [worker EXCEPT ![w] = [Idle EXCEPT !.todo = worker[w].todo]]
  /\ UNCHANGED <<conn, producer, orphan, refused>>

\* The process dies, or a failed transaction ends the drain: the whole batch is dropped.
Crash(w) ==
  /\ worker[w] # Idle
  /\ worker' = [worker EXCEPT ![w] = Idle]
  /\ UNCHANGED <<delivery, attempt, conn, producer, orphan, refused>>

-----------------------------------------------------------------------------
Process(w) ==
  \/ ClaimDueBatch(w) \/ ProcessClaim(w) \/ Deliver(w) \/ Answer(w) \/ Timeout(w)
  \/ Fence(w) \/ ApplyResult(w)

Next ==
  \/ Link \/ Unlink
  \/ \E d \in Deliveries :
       NotifyRead(d) \/ NotifyWrite(d) \/ LeaseExpires(d) \/ ReapExpiredLease(d)
  \/ \E w \in Workers : Process(w) \/ Crash(w)
  \/ \E c \in Links : LateFence(c)

Spec == Init /\ [][Next]_vars

\* The wake job and the 30 s cron of every worker replica drain and reap, a provider call
\* is bounded by its timer, and time passes; the user, the provider and the faults are free.
Fairness ==
  /\ \A w \in Workers : WF_vars(Process(w))
  /\ \A d \in Deliveries : WF_vars(LeaseExpires(d)) /\ WF_vars(ReapExpiredLease(d))

LiveSpec == Spec /\ Fairness

-----------------------------------------------------------------------------
(* Properties.                                                             *)

\* The attempt history tells the truth about the delivery: attempts are numbered without
\* gaps up to attemptCount, only the last may be open and it is open exactly while the row
\* is PROCESSING, and a delivery is DELIVERED exactly when its last attempt is, and no
\* earlier one was.
AttemptHistory ==
  \A d \in Deliveries : LET last == delivery[d].count IN
    /\ \A n \in Numbers : attempt[d][n] # "none" <=> n <= last
    /\ \A n \in Numbers : attempt[d][n] = "open" <=>
                            n = last /\ delivery[d].status = "PROCESSING"
    /\ \A n \in Numbers : attempt[d][n] = "DELIVERED" <=>
                            n = last /\ delivery[d].status = "DELIVERED"

\* However leases expire, batches stall and stale workers go on, a delivery is sent at most
\* once per attempt and within maxAttempts, and one that says it arrived was sent.
SendBudget ==
  \A d \in Deliveries :
    /\ delivery[d].sends <= delivery[d].count
    /\ delivery[d].count <= MaxAttempts
    /\ delivery[d].status \in Due => delivery[d].count < MaxAttempts
    /\ delivery[d].status = "DELIVERED" => delivery[d].sends > 0

\* A connection is blocked only for a refusal of a message that was aimed at it: the late
\* refusal of an old send never disables the connection of a fresh link.
BlockedWasRefused ==
  \A c \in Links : conn[c] = "BLOCKED" => c \in refused

\* A delivery that has ended is never sent, cancelled or failed again by a finalizer, a
\* reaper or a fence that comes late.
TerminalIsForever ==
  [][\A d \in Deliveries : delivery[d].status \in Terminal =>
       delivery'[d].status = delivery[d].status]_vars

\* What the dispatch promises of a delivery: its rows, leases and loops implement
\* DeliveryContract, however the loops overlap, stall and die.
Fate(s) == IF s \in Due \cup {"PROCESSING"} THEN "OPEN" ELSE s

Contract ==
  INSTANCE DeliveryContract WITH
    state <- [d \in Deliveries |-> Fate(delivery[d].status)],
    tries <- [d \in Deliveries |-> delivery[d].count],
    sent <- [d \in Deliveries |-> delivery[d].sends]

ImplementsContract == Contract!Spec

\* Every delivery that was produced ends, although wakes are lost and workers crash.
EveryDeliveryEnds ==
  \A d \in Deliveries : delivery[d].status # "NONE" ~> delivery[d].status \in Terminal

-----------------------------------------------------------------------------
(* What a comment says and the code does not do.                           *)

\* "No in-flight delivery survives to message a torn-down chat", a send that is already
\* PROCESSING aside: no delivery is claimed for a connection that has been deleted.
NoClaimAfterUnlink ==
  [][\A d \in Deliveries :
       /\ delivery[d].status \in Due /\ delivery'[d].status = "PROCESSING"
       => conn[delivery[d].target] # "deleted"]_vars
=============================================================================
