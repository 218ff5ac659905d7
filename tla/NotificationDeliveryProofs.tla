--------------------- MODULE NotificationDeliveryProofs ---------------------
(***************************************************************************)
(* Safety of NotificationDelivery for any number of deliveries, drain      *)
(* loops, attempts and links.                                              *)
(*                                                                         *)
(* A finalizer tests the lease and not the attempt, so what makes the      *)
(* history true is that a loop that owns a delivery holds its current      *)
(* attempt (HandSound).  What bounds the sends is that an attempt is in    *)
(* one hand only (HeldOnce), however many stale loops go on: every call    *)
(* still to come is then paid for by an attempt of its own (Paid).         *)
(***************************************************************************)
EXTENDS NotificationDelivery, FiniteSetTheorems, TLAPS

\* Drain loop w holds the claim of delivery d that was given attempt number n.
Holds(w, d, n) == <<d, n>> \in worker[w].todo \/ (worker[w].d = d /\ worker[w].n = n)

\* A row is inserted by its producer, is aimed at a link unless it was skipped, and counts an
\* attempt exactly when it was ever claimed.
Born ==
  \A d \in Deliveries :
    /\ producer[d] # "done" => delivery[d].status = "NONE"
    /\ delivery[d].status \in {"NONE", "SKIPPED", "PENDING"} => delivery[d].count = 0
    /\ delivery[d].status \in {"PROCESSING", "RETRY_SCHEDULED"} => delivery[d].count > 0
    /\ delivery[d].status \notin {"NONE", "SKIPPED"} => delivery[d].target \in Links

\* What a drain loop has in hand was claimed, and is the current attempt while the lease is its.
HandSound ==
  \A w \in Workers :
    /\ worker[w].pc = "idle" <=> worker[w].d = NoDelivery
    /\ worker[w].pc \in {"call", "fence", "delivered"} => delivery[worker[w].d].sends > 0
    /\ worker[w].pc = "fence" => Target(w) \in refused
    /\ \A d \in Deliveries, n \in Nat : Holds(w, d, n) =>
         n \in 1 .. delivery[d].count /\ (Owns(w, d) => n = delivery[d].count)

\* An attempt is in one hand only, and there once.
HeldOnce ==
  \A v, w \in Workers, d \in Deliveries, n \in Nat :
    /\ Holds(v, d, n) /\ Holds(w, d, n) => v = w
    /\ ~(<<d, n>> \in worker[w].todo /\ worker[w].d = d /\ worker[w].n = n)

\* The attempts of d that may still call the provider.
WillSend(w, d, n) ==
  <<d, n>> \in worker[w].todo \/ (worker[w].pc = "deliver" /\ worker[w].d = d /\ worker[w].n = n)
Unsent(d) == {n \in 1 .. delivery[d].count : \E w \in Workers : WillSend(w, d, n)}

\* Every call to come is paid for by an attempt of its own.
Paid == \A d \in Deliveries : delivery[d].sends + Cardinality(Unsent(d)) <= delivery[d].count

Budget ==
  \A d \in Deliveries :
    /\ delivery[d].count <= MaxAttempts
    /\ delivery[d].status \in Due => delivery[d].count < MaxAttempts
    /\ delivery[d].status = "DELIVERED" => delivery[d].sends > 0

IInv ==
  /\ TypeOK /\ Born /\ HandSound /\ HeldOnce /\ Paid
  /\ AttemptHistory /\ Budget /\ BlockedWasRefused

-----------------------------------------------------------------------------
(* What a step does to one delivery.                                       *)

Keeps(d) ==
  /\ delivery'[d].count = delivery[d].count /\ delivery'[d].lease = delivery[d].lease
  /\ attempt'[d] = attempt[d]

\* Nothing, or its lease runs out.
Stays(d) ==
  /\ Keeps(d) /\ producer'[d] = producer[d]
  /\ delivery'[d].status = delivery[d].status /\ delivery'[d].target = delivery[d].target
  /\ delivery'[d].sends = delivery[d].sends

\* A loop that was about to deliver its current attempt calls the provider.
Sends(d) ==
  /\ \E w \in Workers : /\ worker[w].pc = "deliver" /\ worker[w].d = d
                        /\ worker'[w].pc # "deliver" /\ worker'[w].todo = worker[w].todo
  /\ Keeps(d) /\ producer'[d] = producer[d]
  /\ delivery'[d].status = delivery[d].status /\ delivery'[d].target = delivery[d].target
  /\ delivery'[d].sends = delivery[d].sends + 1

Reads(d) ==
  /\ Keeps(d) /\ producer[d] = "none" /\ producer'[d] = "reading"
  /\ delivery'[d].status = delivery[d].status /\ delivery'[d].sends = delivery[d].sends

Writes(d) ==
  /\ Keeps(d) /\ producer[d] = "reading" /\ producer'[d] = "done"
  /\ delivery'[d].status = IF delivery[d].target = 0 THEN "SKIPPED" ELSE "PENDING"
  /\ delivery'[d].target = delivery[d].target /\ delivery'[d].sends = delivery[d].sends

Cancels(d) ==
  /\ Keeps(d) /\ producer'[d] = producer[d]
  /\ delivery[d].status \in Due /\ delivery'[d].status = "CANCELLED"
  /\ delivery'[d].target = delivery[d].target /\ delivery'[d].sends = delivery[d].sends

\* By a loop that has nothing in hand.
IsClaimed(w, d) ==
  /\ worker[w].todo = {} /\ worker[w].d = NoDelivery
  /\ producer'[d] = producer[d] /\ delivery[d].status \in Due
  /\ delivery'[d].status = "PROCESSING" /\ delivery'[d].lease = w
  /\ delivery'[d].count = delivery[d].count + 1
  /\ delivery'[d].target = delivery[d].target /\ delivery'[d].sends = delivery[d].sends
  /\ attempt'[d] = [attempt[d] EXCEPT ![delivery[d].count + 1] = "open"]

\* It leaves PROCESSING, and its current attempt is closed with outcome o.
IsReleased(d, s, o) ==
  /\ producer'[d] = producer[d] /\ delivery[d].status = "PROCESSING"
  /\ delivery'[d].status = s /\ delivery'[d].lease = NoWorker
  /\ delivery'[d].count = delivery[d].count
  /\ delivery'[d].target = delivery[d].target /\ delivery'[d].sends = delivery[d].sends
  /\ attempt'[d] = [attempt[d] EXCEPT ![delivery[d].count] = o]
  /\ \/ s = "DELIVERED" /\ o = "DELIVERED" /\ delivery[d].sends > 0
     \/ s = "FAILED" /\ o = "PERMANENT_FAILURE"
     \/ s = AfterFailure(delivery[d].count) /\ o \in {"TRANSIENT_FAILURE", "ABANDONED"}

Move(d) ==
  \/ Stays(d) \/ Sends(d) \/ Reads(d) \/ Writes(d) \/ Cancels(d)
  \/ \E w \in Workers : IsClaimed(w, d)
  \/ \E s \in Status, o \in Outcome : IsReleased(d, s, o)

-----------------------------------------------------------------------------
(* What a step does to one drain loop, and to the connections.             *)

Batches(w) ==
  /\ worker'[w].pc = "idle" /\ worker'[w].d = NoDelivery
  /\ \A d \in Deliveries, n \in Nat :
       <<d, n>> \in worker'[w].todo => IsClaimed(w, d) /\ n = delivery[d].count + 1

Takes(w) ==
  /\ worker[w].pc = "idle" /\ worker'[w].pc = "deliver"
  /\ worker'[w].d \in Deliveries /\ <<worker'[w].d, worker'[w].n>> \in worker[w].todo
  /\ worker'[w].todo = worker[w].todo \ {<<worker'[w].d, worker'[w].n>>}

MovesOn(w) ==
  /\ worker[w].pc # "idle" /\ worker'[w].pc \notin {"idle", "deliver"}
  /\ worker'[w].d = worker[w].d /\ worker'[w].n = worker[w].n /\ worker'[w].todo = worker[w].todo
  /\ worker'[w].pc \in {"call", "fence", "delivered"} => delivery'[worker[w].d].sends > 0
  /\ worker'[w].pc = "fence" => Target(w) \in refused'

Drops(w) ==
  /\ worker'[w].pc = "idle" /\ worker'[w].d = NoDelivery
  /\ worker'[w].todo \subseteq worker[w].todo

HandMove(w) == worker'[w] = worker[w] \/ Batches(w) \/ Takes(w) \/ MovesOn(w) \/ Drops(w)

ConnMove ==
  /\ refused \subseteq refused'
  /\ \A c \in Links : conn'[c] = "BLOCKED" => conn[c] = "BLOCKED" \/ c \in refused'

Step ==
  /\ TypeOK' /\ ConnMove
  /\ \A d \in Deliveries : Move(d)
  /\ \A w \in Workers : HandMove(w)

-----------------------------------------------------------------------------
(* What the moves keep, delivery by delivery.                              *)

LEMMA RowType ==
  ASSUME TypeOK, NEW d \in Deliveries
  PROVE  /\ delivery[d] \in Delivery /\ attempt[d] \in [Numbers -> Outcome]
         /\ delivery[d].status \in Status /\ delivery[d].count \in Nat
         /\ delivery[d].target \in Links \cup {0} /\ delivery[d].sends \in Nat
         /\ delivery[d].lease \in Workers \cup {NoWorker}
         /\ producer[d] \in {"none", "reading", "done"}
BY DEF TypeOK, Delivery

LEMMA BornKept ==
  ASSUME IInv, TypeOK', \A d \in Deliveries : Move(d)
  PROVE  Born'
<1> SUFFICES ASSUME NEW d \in Deliveries
             PROVE  /\ producer'[d] # "done" => delivery'[d].status = "NONE"
                    /\ delivery'[d].status \in {"NONE", "SKIPPED", "PENDING"} => delivery'[d].count = 0
                    /\ delivery'[d].status \in {"PROCESSING", "RETRY_SCHEDULED"} => delivery'[d].count > 0
                    /\ delivery'[d].status \notin {"NONE", "SKIPPED"} => delivery'[d].target \in Links
  BY DEF Born
<1>1. /\ Move(d)
      /\ producer[d] # "done" => delivery[d].status = "NONE"
      /\ delivery[d].status \in {"NONE", "SKIPPED", "PENDING"} => delivery[d].count = 0
      /\ delivery[d].status \in {"PROCESSING", "RETRY_SCHEDULED"} => delivery[d].count > 0
      /\ delivery[d].status \notin {"NONE", "SKIPPED"} => delivery[d].target \in Links
  BY DEF IInv, Born
<1>2. /\ delivery[d].count \in Nat /\ delivery[d].target \in Links \cup {0}
      /\ delivery[d].status \in Status /\ producer[d] \in {"none", "reading", "done"}
  BY RowType DEF IInv
<1>3. CASE Stays(d) \/ Sends(d) \/ Reads(d)
  BY <1>1, <1>2, <1>3 DEF Stays, Sends, Reads, Keeps
<1>4. CASE Writes(d)
  BY <1>1, <1>2, <1>4 DEF Writes, Keeps
<1>5. CASE Cancels(d)
  BY <1>1, <1>2, <1>5 DEF Cancels, Keeps, Due
<1>6. CASE \E w \in Workers : IsClaimed(w, d)
  BY <1>1, <1>2, <1>6 DEF IsClaimed, Due
<1>7. CASE \E s \in Status, o \in Outcome : IsReleased(d, s, o)
  BY <1>1, <1>2, <1>7 DEF IsReleased, AfterFailure
<1> QED
  BY <1>1, <1>3, <1>4, <1>5, <1>6, <1>7 DEF Move

LEMMA BudgetKept ==
  ASSUME IInv, TypeOK', \A d \in Deliveries : Move(d)
  PROVE  Budget'
<1> SUFFICES ASSUME NEW d \in Deliveries
             PROVE  /\ delivery'[d].count <= MaxAttempts
                    /\ delivery'[d].status \in Due => delivery'[d].count < MaxAttempts
                    /\ delivery'[d].status = "DELIVERED" => delivery'[d].sends > 0
  BY DEF Budget
<1>1. /\ Move(d)
      /\ delivery[d].count <= MaxAttempts
      /\ delivery[d].status \in Due => delivery[d].count < MaxAttempts
      /\ delivery[d].status = "DELIVERED" => delivery[d].sends > 0
      /\ delivery[d].count \in Nat /\ delivery[d].sends \in Nat /\ MaxAttempts \in Nat \ {0}
      /\ producer[d] # "done" => delivery[d].status = "NONE"
      /\ delivery[d].status \in {"NONE", "SKIPPED", "PENDING"} => delivery[d].count = 0
  BY RowType, ConstantsAssumption DEF IInv, Budget, Born
<1>2. CASE Stays(d) \/ Sends(d) \/ Reads(d) \/ Cancels(d)
  BY <1>1, <1>2 DEF Stays, Sends, Reads, Cancels, Keeps, Due
<1>3. CASE Writes(d)
  BY <1>1, <1>3 DEF Writes, Keeps, Due
<1>4. CASE \E w \in Workers : IsClaimed(w, d)
  BY <1>1, <1>4 DEF IsClaimed, Due
<1>5. CASE \E s \in Status, o \in Outcome : IsReleased(d, s, o)
  BY <1>1, <1>5 DEF IsReleased, AfterFailure, Due
<1> QED
  BY <1>1, <1>2, <1>3, <1>4, <1>5 DEF Move

LEMMA HistoryKept ==
  ASSUME IInv, TypeOK', \A d \in Deliveries : Move(d)
  PROVE  AttemptHistory'
<1> SUFFICES ASSUME NEW d \in Deliveries, NEW n \in Numbers
             PROVE  /\ attempt'[d][n] # "none" <=> n <= delivery'[d].count
                    /\ attempt'[d][n] = "open" <=>
                         n = delivery'[d].count /\ delivery'[d].status = "PROCESSING"
                    /\ attempt'[d][n] = "DELIVERED" <=>
                         n = delivery'[d].count /\ delivery'[d].status = "DELIVERED"
  BY DEF AttemptHistory
<1>1. /\ Move(d)
      /\ attempt[d][n] # "none" <=> n <= delivery[d].count
      /\ attempt[d][n] = "open" <=> n = delivery[d].count /\ delivery[d].status = "PROCESSING"
      /\ attempt[d][n] = "DELIVERED" <=> n = delivery[d].count /\ delivery[d].status = "DELIVERED"
      /\ producer[d] # "done" => delivery[d].status = "NONE"
      /\ delivery[d].count \in Nat /\ delivery[d].count <= MaxAttempts
      /\ delivery[d].status \in Due => delivery[d].count < MaxAttempts
  BY RowType DEF IInv, AttemptHistory, Born, Budget
<1>2. attempt[d] \in [Numbers -> Outcome] /\ n \in Nat /\ n >= 1 /\ n <= MaxAttempts
      /\ MaxAttempts \in Nat
  BY RowType, ConstantsAssumption DEF IInv, Numbers
<1>3. CASE Stays(d) \/ Sends(d) \/ Reads(d) \/ Cancels(d) \/ Writes(d)
  BY <1>1, <1>3 DEF Stays, Sends, Reads, Cancels, Writes, Keeps, Due
<1>4. ASSUME NEW w \in Workers, IsClaimed(w, d)
      PROVE  /\ attempt'[d][n] # "none" <=> n <= delivery'[d].count
             /\ attempt'[d][n] = "open" <=>
                  n = delivery'[d].count /\ delivery'[d].status = "PROCESSING"
             /\ attempt'[d][n] = "DELIVERED" <=>
                  n = delivery'[d].count /\ delivery'[d].status = "DELIVERED"
  <2>1. attempt'[d][n] = IF n = delivery[d].count + 1 THEN "open" ELSE attempt[d][n]
    BY <1>2, <1>4 DEF IsClaimed
  <2> QED
    BY <1>1, <1>2, <1>4, <2>1 DEF IsClaimed, Due
<1>5. ASSUME NEW s \in Status, NEW o \in Outcome, IsReleased(d, s, o)
      PROVE  /\ attempt'[d][n] # "none" <=> n <= delivery'[d].count
             /\ attempt'[d][n] = "open" <=>
                  n = delivery'[d].count /\ delivery'[d].status = "PROCESSING"
             /\ attempt'[d][n] = "DELIVERED" <=>
                  n = delivery'[d].count /\ delivery'[d].status = "DELIVERED"
  <2>1. attempt'[d][n] = IF n = delivery[d].count THEN o ELSE attempt[d][n]
    BY <1>2, <1>5 DEF IsReleased
  <2> QED
    BY <1>1, <1>2, <1>5, <2>1 DEF IsReleased, AfterFailure
<1> QED
  BY <1>1, <1>3, <1>4, <1>5 DEF Move

-----------------------------------------------------------------------------
(* What the moves keep, hand by hand.                                      *)

\* Counters only grow, and a delivery that was ever claimed keeps its target.
LEMMA Monotone ==
  ASSUME IInv, TypeOK', \A d \in Deliveries : Move(d), NEW d \in Deliveries
  PROVE  /\ delivery[d].count \in Nat /\ delivery'[d].count \in Nat
         /\ delivery[d].sends \in Nat /\ delivery'[d].sends \in Nat
         /\ delivery'[d].count >= delivery[d].count /\ delivery'[d].sends >= delivery[d].sends
         /\ delivery[d].count > 0 => delivery'[d].target = delivery[d].target
<1>1. /\ delivery[d].count \in Nat /\ delivery[d].sends \in Nat
      /\ delivery'[d].count \in Nat /\ delivery'[d].sends \in Nat
  <2>1. delivery'[d] \in Delivery
    BY DEF TypeOK
  <2> QED
    BY <2>1, RowType DEF IInv, Delivery
<1>2. /\ Move(d)
      /\ producer[d] # "done" => delivery[d].status = "NONE"
      /\ delivery[d].status \in {"NONE", "SKIPPED", "PENDING"} => delivery[d].count = 0
  BY DEF IInv, Born
<1>3. CASE Stays(d) \/ Sends(d) \/ Writes(d) \/ Cancels(d)
  BY <1>1, <1>3 DEF Stays, Sends, Writes, Cancels, Keeps
<1>4. CASE Reads(d)
  BY <1>1, <1>2, <1>4 DEF Reads, Keeps
<1>5. CASE \E w \in Workers : IsClaimed(w, d)
  BY <1>1, <1>5 DEF IsClaimed
<1>6. CASE \E s \in Status, o \in Outcome : IsReleased(d, s, o)
  BY <1>1, <1>6 DEF IsReleased
<1> QED
  BY <1>2, <1>3, <1>4, <1>5, <1>6 DEF Move

LEMMA HandType ==
  ASSUME TypeOK, NEW w \in Workers
  PROVE  /\ worker[w].pc \in Pc /\ worker[w].d \in Deliveries \cup {NoDelivery}
         /\ worker[w].n \in Nat /\ worker[w].todo \subseteq Deliveries \X Nat
BY DEF TypeOK, Worker

\* What is in hand after a step was in hand before, or was just claimed.
LEMMA HoldsKept ==
  ASSUME IInv, Step, NEW w \in Workers, NEW d \in Deliveries, NEW n \in Nat
  PROVE  /\ Holds(w, d, n)' => Holds(w, d, n) \/ (IsClaimed(w, d) /\ n = delivery[d].count + 1)
         /\ WillSend(w, d, n)' =>
              WillSend(w, d, n) \/ (IsClaimed(w, d) /\ n = delivery[d].count + 1)
<1>1. HandMove(w) /\ d # NoDelivery
  BY ConstantsAssumption DEF Step
<1> QED
  BY <1>1 DEF HandMove, Holds, WillSend, Batches, Takes, MovesOn, Drops

\* Who owns a delivery after a step owned it at the same attempt, or has just claimed it.
LEMMA OwnsKept ==
  ASSUME IInv, Step, NEW w \in Workers, NEW d \in Deliveries, Owns(w, d)'
  PROVE  \/ Owns(w, d) /\ delivery'[d].count = delivery[d].count
         \/ IsClaimed(w, d) /\ delivery'[d].count = delivery[d].count + 1
<1>1. /\ Move(d) /\ w # NoWorker
      /\ producer[d] # "done" => delivery[d].status = "NONE"
  BY ConstantsAssumption DEF Step, IInv, Born
<1>2. delivery'[d].status = "PROCESSING" /\ delivery'[d].lease = w
  BY DEF Owns
<1> QED
  BY <1>1, <1>2 DEF Move, Stays, Sends, Reads, Writes, Cancels, IsClaimed, IsReleased, Keeps, Owns

LEMMA HandSoundKept ==
  ASSUME IInv, Step
  PROVE  HandSound'
<1> SUFFICES ASSUME NEW w \in Workers
             PROVE  /\ worker'[w].pc = "idle" <=> worker'[w].d = NoDelivery
                    /\ worker'[w].pc \in {"call", "fence", "delivered"} =>
                         delivery'[worker'[w].d].sends > 0
                    /\ worker'[w].pc = "fence" => Target(w)' \in refused'
                    /\ \A d \in Deliveries, n \in Nat : Holds(w, d, n)' =>
                         /\ n \in 1 .. delivery'[d].count
                         /\ Owns(w, d)' => n = delivery'[d].count
  BY DEF HandSound
<1>1. /\ worker[w].pc = "idle" <=> worker[w].d = NoDelivery
      /\ worker[w].pc \in {"call", "fence", "delivered"} => delivery[worker[w].d].sends > 0
      /\ worker[w].pc = "fence" => Target(w) \in refused
      /\ \A d \in Deliveries, n \in Nat : Holds(w, d, n) =>
           n \in 1 .. delivery[d].count /\ (Owns(w, d) => n = delivery[d].count)
  BY DEF IInv, HandSound
<1>2. /\ worker[w].pc \in Pc /\ worker[w].d \in Deliveries \cup {NoDelivery}
      /\ worker[w].n \in Nat /\ worker[w].todo \subseteq Deliveries \X Nat
      /\ NoDelivery \notin Deliveries
  BY HandType, ConstantsAssumption DEF IInv
<1>3. HandMove(w) /\ refused \subseteq refused'
  BY DEF Step, ConnMove
<1>4. worker'[w].pc = "idle" <=> worker'[w].d = NoDelivery
  BY <1>1, <1>2, <1>3 DEF HandMove, Batches, Takes, MovesOn, Drops
<1>5. worker[w].pc # "idle" =>
        /\ worker[w].d \in Deliveries /\ delivery[worker[w].d].count > 0
        /\ delivery'[worker[w].d].sends >= delivery[worker[w].d].sends
        /\ delivery[worker[w].d].sends \in Nat /\ delivery'[worker[w].d].sends \in Nat
        /\ delivery'[worker[w].d].target = delivery[worker[w].d].target
  <2> SUFFICES ASSUME worker[w].pc # "idle"
               PROVE  /\ worker[w].d \in Deliveries /\ delivery[worker[w].d].count > 0
                      /\ delivery'[worker[w].d].sends >= delivery[worker[w].d].sends
                      /\ delivery[worker[w].d].sends \in Nat /\ delivery'[worker[w].d].sends \in Nat
                      /\ delivery'[worker[w].d].target = delivery[worker[w].d].target
    OBVIOUS
  <2>1. worker[w].d \in Deliveries
    BY <1>1, <1>2
  <2>2. Holds(w, worker[w].d, worker[w].n)
    BY DEF Holds
  <2>3. delivery[worker[w].d].count \in Nat
    BY <2>1, RowType DEF IInv
  <2>4. delivery[worker[w].d].count > 0
    BY <1>1, <1>2, <2>1, <2>2, <2>3
  <2> QED
    BY <2>1, <2>4, Monotone DEF Step
<1>6. worker'[w].pc \in {"call", "fence", "delivered"} => delivery'[worker'[w].d].sends > 0
  BY <1>1, <1>3, <1>5 DEF HandMove, Batches, Takes, MovesOn, Drops
<1>7. worker'[w].pc = "fence" => Target(w)' \in refused'
  BY <1>1, <1>3, <1>5 DEF HandMove, Batches, Takes, MovesOn, Drops, Target
<1>8. ASSUME NEW d \in Deliveries, NEW n \in Nat, Holds(w, d, n)'
      PROVE  n \in 1 .. delivery'[d].count /\ (Owns(w, d)' => n = delivery'[d].count)
  <2>1. /\ delivery[d].count \in Nat /\ delivery'[d].count \in Nat
        /\ delivery'[d].count >= delivery[d].count
    BY Monotone DEF Step
  <2>2. CASE IsClaimed(w, d) /\ n = delivery[d].count + 1
    BY <2>1, <2>2 DEF IsClaimed
  <2>3. CASE Holds(w, d, n) /\ ~(IsClaimed(w, d) /\ n = delivery[d].count + 1)
    <3>1. n \in 1 .. delivery[d].count /\ (Owns(w, d) => n = delivery[d].count)
      BY <1>1, <2>3
    <3>2. ~ IsClaimed(w, d)
      BY <2>3, ConstantsAssumption DEF IsClaimed, Holds
    <3> QED
      BY <2>1, <3>1, <3>2, OwnsKept
  <2> QED
    BY <1>8, <2>2, <2>3, HoldsKept
<1> QED
  BY <1>4, <1>6, <1>7, <1>8

LEMMA HeldOnceKept ==
  ASSUME IInv, Step
  PROVE  HeldOnce'
<1> SUFFICES ASSUME NEW v \in Workers, NEW w \in Workers, NEW d \in Deliveries, NEW n \in Nat
             PROVE  /\ Holds(v, d, n)' /\ Holds(w, d, n)' => v = w
                    /\ ~(<<d, n>> \in worker'[w].todo /\ worker'[w].d = d /\ worker'[w].n = n)
  BY DEF HeldOnce
<1>1. \A u \in {v, w} : Holds(u, d, n)' =>
        Holds(u, d, n) \/ (IsClaimed(u, d) /\ n = delivery[d].count + 1)
  BY HoldsKept
<1>2. /\ Holds(v, d, n) /\ Holds(w, d, n) => v = w
      /\ ~(<<d, n>> \in worker[w].todo /\ worker[w].d = d /\ worker[w].n = n)
  BY DEF IInv, HeldOnce
<1>3. /\ \A u \in {v, w} : Holds(u, d, n) => n \in 1 .. delivery[d].count
      /\ delivery[d].count \in Nat
  BY RowType DEF IInv, HandSound
<1>4. IsClaimed(v, d) /\ IsClaimed(w, d) => v = w
  BY DEF IsClaimed
<1>5. Holds(v, d, n)' /\ Holds(w, d, n)' => v = w
  BY <1>1, <1>2, <1>3, <1>4
<1>6. HandMove(w) /\ d # NoDelivery
  BY ConstantsAssumption DEF Step
<1>7. ~(<<d, n>> \in worker'[w].todo /\ worker'[w].d = d /\ worker'[w].n = n)
  BY <1>2, <1>6 DEF HandMove, Batches, Takes, MovesOn, Drops
<1> QED
  BY <1>5, <1>7

-----------------------------------------------------------------------------
(* Counting the calls to come.                                             *)

LEMMA UnsentFinite ==
  ASSUME TypeOK, NEW d \in Deliveries
  PROVE  IsFiniteSet(Unsent(d)) /\ Cardinality(Unsent(d)) \in Nat
<1>1. IsFiniteSet(1 .. delivery[d].count)
  BY RowType, FS_Interval
<1>2. Unsent(d) \in SUBSET (1 .. delivery[d].count)
  BY DEF Unsent
<1>3. IsFiniteSet(Unsent(d))
  BY <1>1, <1>2, FS_Subset
<1> QED
  BY <1>3, FS_CardinalityType

LEMMA PaidKept ==
  ASSUME IInv, Step
  PROVE  Paid'
<1> SUFFICES ASSUME NEW d \in Deliveries
             PROVE  delivery'[d].sends + Cardinality(Unsent(d)') <= delivery'[d].count
  BY DEF Paid
<1>1. /\ delivery[d].sends + Cardinality(Unsent(d)) <= delivery[d].count
      /\ IsFiniteSet(Unsent(d)) /\ Cardinality(Unsent(d)) \in Nat
  BY UnsentFinite DEF IInv, Paid
<1>2. IsFiniteSet(Unsent(d)') /\ Cardinality(Unsent(d)') \in Nat
  <2>1. IsFiniteSet(1 .. delivery'[d].count)
    BY Monotone, FS_Interval DEF Step
  <2>2. Unsent(d)' \in SUBSET (1 .. delivery'[d].count)
    BY DEF Unsent
  <2>3. IsFiniteSet(Unsent(d)')
    BY <2>1, <2>2, FS_Subset
  <2> QED
    BY <2>3, FS_CardinalityType
<1>3. /\ delivery[d].count \in Nat /\ delivery'[d].count \in Nat
      /\ delivery[d].sends \in Nat /\ delivery'[d].sends \in Nat
      /\ delivery'[d].count >= delivery[d].count /\ Move(d)
      /\ producer[d] # "done" => delivery[d].status = "NONE"
  BY Monotone DEF Step, IInv, Born
<1>4. ASSUME NEW n \in Unsent(d)'
      PROVE  n \in Unsent(d) \/ ((\E w \in Workers : IsClaimed(w, d)) /\ n = delivery[d].count + 1)
  <2>1. PICK w \in Workers : WillSend(w, d, n)'
    BY DEF Unsent
  <2>2. n \in Nat
    BY <1>3 DEF Unsent
  <2>3. WillSend(w, d, n) \/ (IsClaimed(w, d) /\ n = delivery[d].count + 1)
    BY <2>1, <2>2, HoldsKept
  <2>4. WillSend(w, d, n) => n \in 1 .. delivery[d].count
    BY <2>2 DEF WillSend, Holds, IInv, HandSound
  <2> QED
    BY <2>3, <2>4 DEF Unsent
<1>5. CASE \E w \in Workers : IsClaimed(w, d)
  <2>1. delivery'[d].sends = delivery[d].sends /\ delivery'[d].count = delivery[d].count + 1
    BY <1>5 DEF IsClaimed
  <2> DEFINE more == Unsent(d) \cup {delivery[d].count + 1}
  <2>2. Unsent(d)' \in SUBSET more
    BY <1>4
  <2>3. IsFiniteSet(more) /\ Cardinality(more) <= Cardinality(Unsent(d)) + 1
        /\ Cardinality(more) \in Nat
    <3>1. IsFiniteSet(more)
      BY <1>1, FS_AddElement
    <3>2. CASE delivery[d].count + 1 \in Unsent(d)
      <4>1. more = Unsent(d)
        BY <3>2
      <4> QED
        BY <1>1, <4>1
    <3>3. CASE delivery[d].count + 1 \notin Unsent(d)
      <4>1. Cardinality(more) = Cardinality(Unsent(d)) + 1
        BY <1>1, <3>3, FS_AddElement
      <4> QED
        BY <1>1, <3>1, <4>1
    <3> QED
      BY <3>2, <3>3
  <2>4. Cardinality(Unsent(d)') <= Cardinality(more)
    BY <2>2, <2>3, FS_Subset
  <2> HIDE DEF more
  <2> QED
    BY <1>1, <1>2, <1>3, <2>1, <2>3, <2>4
<1>6. CASE ~ \E w \in Workers : IsClaimed(w, d)
  <2>1. Unsent(d)' \in SUBSET Unsent(d)
    BY <1>4, <1>6
  <2>2. Cardinality(Unsent(d)') <= Cardinality(Unsent(d))
    BY <1>1, <2>1, FS_Subset
  <2>3. CASE ~ Sends(d)
    <3>1. delivery'[d].sends = delivery[d].sends
      BY <1>3, <1>6, <2>3 DEF Move, Stays, Reads, Writes, Cancels, IsReleased
    <3> QED
      BY <1>1, <1>2, <1>3, <2>2, <3>1
  <2>4. CASE Sends(d)
    <3>1. PICK w \in Workers : /\ worker[w].pc = "deliver" /\ worker[w].d = d
                               /\ worker'[w].pc # "deliver"
                               /\ worker'[w].todo = worker[w].todo
      BY <2>4 DEF Sends
    <3>0. PICK m \in Nat : m = worker[w].n
      BY HandType DEF IInv
    <3>2. Holds(w, d, m) /\ WillSend(w, d, m) /\ m \in Unsent(d)
      BY <3>0, <3>1, HandType DEF IInv, HandSound, Holds, WillSend, Unsent
    <3>3. m \notin Unsent(d)'
      <4> SUFFICES ASSUME m \in Unsent(d)'
                   PROVE  FALSE
        OBVIOUS
      <4>0. PICK v \in Workers : WillSend(v, d, m)'
        BY <3>2 DEF Unsent
      <4>1. WillSend(v, d, m)
        BY <1>6, <3>2, <4>0, HoldsKept
      <4>2. v = w
        BY <3>2, <4>1 DEF IInv, HeldOnce, Holds, WillSend
      <4>3. <<d, m>> \in worker[w].todo
        BY <3>1, <4>0, <4>2 DEF WillSend
      <4> QED
        BY <3>0, <3>1, <3>2, <4>3 DEF IInv, HeldOnce
    <3>4. Unsent(d)' \in SUBSET (Unsent(d) \ {m})
      BY <2>1, <3>3
    <3>5. IsFiniteSet(Unsent(d) \ {m}) /\ Cardinality(Unsent(d) \ {m}) = Cardinality(Unsent(d)) - 1
      BY <1>1, <3>2, FS_RemoveElement
    <3>6. Cardinality(Unsent(d)') <= Cardinality(Unsent(d)) - 1
      BY <3>4, <3>5, FS_Subset
    <3>7. delivery'[d].sends = delivery[d].sends + 1 /\ delivery'[d].count = delivery[d].count
      BY <2>4 DEF Sends, Keeps
    <3> QED
      BY <1>1, <1>2, <1>3, <3>6, <3>7
  <2> QED
    BY <2>3, <2>4
<1> QED
  BY <1>5, <1>6

LEMMA StepKeeps ==
  ASSUME IInv, Step
  PROVE  IInv'
<1>1. BlockedWasRefused'
  BY DEF IInv, Step, ConnMove, BlockedWasRefused
<1> QED
  BY <1>1, BornKept, BudgetKept, HistoryKept, HandSoundKept, HeldOnceKept, PaidKept
  DEF IInv, Step

-----------------------------------------------------------------------------
(* Rows, hands and connections after the updates the actions make.         *)

LEMMA RowSet ==
  ASSUME TypeOK, NEW d \in Deliveries, NEW r \in Delivery, delivery' = [delivery EXCEPT ![d] = r]
  PROVE  /\ delivery' \in [Deliveries -> Delivery] /\ delivery'[d] = r
         /\ \A e \in Deliveries \ {d} : delivery'[e] = delivery[e]
BY DEF TypeOK

LEMMA ReleasedRow ==
  ASSUME NEW r \in Delivery, NEW s \in Status
  PROVE  /\ Released(r, s) \in Delivery
         /\ Released(r, s).status = s /\ Released(r, s).lease = NoWorker
         /\ Released(r, s).count = r.count /\ Released(r, s).target = r.target
         /\ Released(r, s).sends = r.sends
BY DEF Released, Delivery

LEMMA LeasedRow ==
  ASSUME NEW r \in Delivery, NEW w \in Workers
  PROVE  /\ Leased(r, w) \in Delivery
         /\ Leased(r, w).status = "PROCESSING" /\ Leased(r, w).lease = w
         /\ Leased(r, w).count = r.count + 1 /\ Leased(r, w).target = r.target
         /\ Leased(r, w).sends = r.sends
<1> DEFINE k == r.count + 1
           l == [r EXCEPT !.status = "PROCESSING", !.lease = w, !.live = TRUE, !.count = k]
<1>1. k \in Nat
  BY DEF Delivery
<1>2. Leased(r, w) = l /\ k = r.count + 1
  BY DEF Leased
<1> HIDE DEF k
<1>3. /\ l \in Delivery /\ l.status = "PROCESSING" /\ l.lease = w /\ l.count = k
      /\ l.target = r.target /\ l.sends = r.sends
  BY <1>1 DEF Delivery, Status
<1> QED
  BY <1>2, <1>3

LEMMA CancelMoves ==
  ASSUME IInv, NEW C \in SUBSET Links, CancelDue(C), attempt' = attempt, producer' = producer
  PROVE  delivery' \in [Deliveries -> Delivery] /\ \A d \in Deliveries : Move(d)
<1>1. ASSUME NEW d \in Deliveries
      PROVE  delivery'[d] \in Delivery /\ Move(d)
  <2> DEFINE r == [delivery[d] EXCEPT !.status = "CANCELLED"]
  <2>1. delivery[d] \in Delivery
    BY RowType DEF IInv
  <2>2. /\ r \in Delivery /\ r.status = "CANCELLED" /\ r.lease = delivery[d].lease
        /\ r.count = delivery[d].count /\ r.target = delivery[d].target
        /\ r.sends = delivery[d].sends
    BY <2>1 DEF Delivery, Status, Terminal
  <2>3. delivery'[d] = IF d \in DueAt(C) THEN r ELSE delivery[d]
    BY DEF CancelDue
  <2> HIDE DEF r
  <2>4. CASE d \in DueAt(C)
    <3>1. Cancels(d)
      BY <2>2, <2>3, <2>4 DEF Cancels, Keeps, DueAt
    <3> QED
      BY <2>2, <2>3, <2>4, <3>1 DEF Move
  <2>5. CASE d \notin DueAt(C)
    <3>1. Stays(d)
      BY <2>3, <2>5 DEF Stays, Keeps
    <3> QED
      BY <2>1, <2>3, <2>5, <3>1 DEF Move
  <2> QED
    BY <2>4, <2>5
<1>2. delivery' = [d \in Deliveries |-> delivery'[d]]
  BY DEF CancelDue
<1> QED
  BY <1>1, <1>2

LEMMA Untouched ==
  ASSUME delivery' = delivery, attempt' = attempt, producer' = producer
  PROVE  \A d \in Deliveries : Move(d)
BY DEF Move, Stays, Keeps

\* The rest of the step when only the row of delivery d is written.
LEMMA OneRow ==
  ASSUME TypeOK, NEW d \in Deliveries, Move(d), attempt' = attempt, producer' = producer,
         \A e \in Deliveries \ {d} : delivery'[e] = delivery[e]
  PROVE  \A e \in Deliveries : Move(e)
<1> SUFFICES ASSUME NEW e \in Deliveries, e # d
             PROVE  Move(e)
  OBVIOUS
<1> QED
  BY DEF Move, Stays, Keeps

LEMMA GotoHand ==
  ASSUME TypeOK, NEW w \in Workers, NEW pc \in Pc, Goto(w, pc)
  PROVE  /\ worker' \in [Workers -> Worker]
         /\ worker'[w].pc = pc /\ worker'[w].d = worker[w].d /\ worker'[w].n = worker[w].n
         /\ worker'[w].todo = worker[w].todo
         /\ \A v \in Workers \ {w} : worker'[v] = worker[v]
<1> DEFINE r == [worker[w] EXCEPT !.pc = pc]
<1>1. worker[w] \in Worker
  BY DEF TypeOK
<1>2. /\ r \in Worker /\ r.pc = pc /\ r.d = worker[w].d /\ r.n = worker[w].n
      /\ r.todo = worker[w].todo
  BY <1>1 DEF Worker
<1>3. worker' = [worker EXCEPT ![w] = r]
  BY DEF Goto
<1> HIDE DEF r
<1> QED
  BY <1>2, <1>3 DEF TypeOK

-----------------------------------------------------------------------------
(* Each action is such a step.                                             *)

LEMMA CurrentLinks == Current \in SUBSET Links
BY DEF Current

LEMMA LinkStep ==
  ASSUME IInv, Link
  PROVE  Step
<1>1. delivery' \in [Deliveries -> Delivery] /\ \A d \in Deliveries : Move(d)
  BY CancelMoves, CurrentLinks DEF Link
<1>2. PICK c \in Links : conn' = [b \in Links |-> IF b = c THEN "ACTIVE"
                                   ELSE IF b \in Current THEN "deleted" ELSE conn[b]]
  BY DEF Link
<1>3. conn' \in [Links -> {"free", "ACTIVE", "BLOCKED", "deleted"}] /\ ConnMove
  BY <1>2 DEF IInv, TypeOK, ConnMove, Link
<1> QED
  BY <1>1, <1>3 DEF IInv, TypeOK, Step, HandMove, Link

LEMMA UnlinkStep ==
  ASSUME IInv, Unlink
  PROVE  Step
<1>1. delivery' \in [Deliveries -> Delivery] /\ \A d \in Deliveries : Move(d)
  BY CancelMoves, CurrentLinks DEF Unlink
<1>2. conn' \in [Links -> {"free", "ACTIVE", "BLOCKED", "deleted"}] /\ ConnMove
  BY DEF IInv, TypeOK, ConnMove, Unlink
<1> QED
  BY <1>1, <1>2 DEF IInv, TypeOK, Step, HandMove, Unlink

LEMMA NotifyReadStep ==
  ASSUME IInv, NEW d \in Deliveries, NotifyRead(d)
  PROVE  Step
<1> DEFINE t == IF \E c \in Links : conn[c] = "ACTIVE"
                THEN CHOOSE c \in Links : conn[c] = "ACTIVE" ELSE 0
           r == [delivery[d] EXCEPT !.target = t]
<1>1. t \in Links \cup {0}
  OBVIOUS
<1>2. delivery' = [delivery EXCEPT ![d] = r]
  BY DEF NotifyRead
<1> HIDE DEF t
<1>3. /\ r \in Delivery /\ r.status = delivery[d].status /\ r.lease = delivery[d].lease
      /\ r.count = delivery[d].count /\ r.sends = delivery[d].sends
  BY <1>1, RowType DEF IInv, Delivery
<1> HIDE DEF r
<1>4. /\ delivery' \in [Deliveries -> Delivery] /\ delivery'[d] = r
      /\ \A e \in Deliveries \ {d} : delivery'[e] = delivery[e]
  BY <1>2, <1>3, RowSet DEF IInv
<1>5. /\ producer' \in [Deliveries -> {"none", "reading", "done"}] /\ producer'[d] = "reading"
      /\ \A e \in Deliveries \ {d} : producer'[e] = producer[e]
  BY DEF NotifyRead, IInv, TypeOK
<1>6. Move(d)
  BY <1>3, <1>4, <1>5 DEF Move, Reads, Keeps, NotifyRead
<1>7. \A e \in Deliveries \ {d} : Move(e)
  BY <1>4, <1>5 DEF Move, Stays, Keeps, NotifyRead
<1> QED
  BY <1>4, <1>5, <1>6, <1>7 DEF IInv, TypeOK, Step, HandMove, ConnMove, NotifyRead

LEMMA NotifyWriteStep ==
  ASSUME IInv, NEW d \in Deliveries, NotifyWrite(d)
  PROVE  Step
<1> DEFINE s == IF delivery[d].target = 0 THEN "SKIPPED" ELSE "PENDING"
           r == [delivery[d] EXCEPT !.status = s]
<1>1. s \in Status
  BY DEF Status, Due, Terminal
<1>2. delivery' = [delivery EXCEPT ![d] = r]
  BY DEF NotifyWrite
<1>3. s = IF delivery[d].target = 0 THEN "SKIPPED" ELSE "PENDING"
  OBVIOUS
<1> HIDE DEF s
<1>4. /\ r \in Delivery /\ r.status = s /\ r.lease = delivery[d].lease
      /\ r.count = delivery[d].count /\ r.sends = delivery[d].sends
      /\ r.target = delivery[d].target
  BY <1>1, RowType DEF IInv, Delivery
<1> HIDE DEF r
<1>5. /\ delivery' \in [Deliveries -> Delivery] /\ delivery'[d] = r
      /\ \A e \in Deliveries \ {d} : delivery'[e] = delivery[e]
  BY <1>2, <1>4, RowSet DEF IInv
<1>6. /\ producer' \in [Deliveries -> {"none", "reading", "done"}] /\ producer'[d] = "done"
      /\ \A e \in Deliveries \ {d} : producer'[e] = producer[e]
  BY DEF NotifyWrite, IInv, TypeOK
<1>7. Move(d)
  BY <1>3, <1>4, <1>5, <1>6 DEF Move, Writes, Keeps, NotifyWrite
<1>8. \A e \in Deliveries \ {d} : Move(e)
  BY <1>5, <1>6 DEF Move, Stays, Keeps, NotifyWrite
<1> QED
  BY <1>5, <1>6, <1>7, <1>8 DEF IInv, TypeOK, Step, HandMove, ConnMove, NotifyWrite

LEMMA LeaseExpiresStep ==
  ASSUME IInv, NEW d \in Deliveries, LeaseExpires(d)
  PROVE  Step
<1> DEFINE r == [delivery[d] EXCEPT !.live = FALSE]
<1>1. delivery' = [delivery EXCEPT ![d] = r]
  BY DEF LeaseExpires
<1>2. /\ r \in Delivery /\ r.status = delivery[d].status /\ r.lease = delivery[d].lease
      /\ r.count = delivery[d].count /\ r.sends = delivery[d].sends
      /\ r.target = delivery[d].target
  BY RowType DEF IInv, Delivery
<1> HIDE DEF r
<1>3. /\ delivery' \in [Deliveries -> Delivery] /\ delivery'[d] = r
      /\ \A e \in Deliveries \ {d} : delivery'[e] = delivery[e]
  BY <1>1, <1>2, RowSet DEF IInv
<1>4. Move(d)
  BY <1>2, <1>3 DEF Move, Stays, Keeps, LeaseExpires
<1>5. \A e \in Deliveries : Move(e)
  BY <1>3, <1>4, OneRow DEF IInv, LeaseExpires
<1> QED
  BY <1>3, <1>5 DEF IInv, TypeOK, Step, HandMove, ConnMove, LeaseExpires

\* A row leaves PROCESSING and its current attempt is closed with the outcome that fits.
LEMMA ReleaseMoves ==
  ASSUME IInv, NEW d \in Deliveries, NEW s \in Status, NEW o \in Outcome,
         delivery[d].status = "PROCESSING", producer' = producer,
         delivery' = [delivery EXCEPT ![d] = Released(@, s)],
         attempt' = [attempt EXCEPT ![d][delivery[d].count] = o],
         \/ s = "DELIVERED" /\ o = "DELIVERED" /\ delivery[d].sends > 0
         \/ s = "FAILED" /\ o = "PERMANENT_FAILURE"
         \/ s = AfterFailure(delivery[d].count) /\ o \in {"TRANSIENT_FAILURE", "ABANDONED"}
  PROVE  /\ delivery' \in [Deliveries -> Delivery] /\ attempt' \in [Deliveries -> [Numbers -> Outcome]]
         /\ \A e \in Deliveries : Move(e)
         /\ \A e \in Deliveries : delivery'[e].sends = delivery[e].sends
<1> DEFINE r == Released(delivery[d], s)
           a == [attempt[d] EXCEPT ![delivery[d].count] = o]
<1>1. delivery' = [delivery EXCEPT ![d] = r] /\ attempt' = [attempt EXCEPT ![d] = a]
  OBVIOUS
<1>2. /\ r \in Delivery /\ r.status = s /\ r.lease = NoWorker /\ r.count = delivery[d].count
      /\ r.target = delivery[d].target /\ r.sends = delivery[d].sends
  BY RowType, ReleasedRow DEF IInv
<1>3. a \in [Numbers -> Outcome]
  BY RowType DEF IInv
<1> HIDE DEF r
<1>4. /\ delivery' \in [Deliveries -> Delivery] /\ delivery'[d] = r
      /\ \A e \in Deliveries \ {d} : delivery'[e] = delivery[e]
  BY <1>1, <1>2, RowSet DEF IInv
<1>5. /\ attempt' \in [Deliveries -> [Numbers -> Outcome]]
      /\ attempt'[d] = [attempt[d] EXCEPT ![delivery[d].count] = o]
      /\ \A e \in Deliveries \ {d} : attempt'[e] = attempt[e]
  BY <1>1, <1>3 DEF IInv, TypeOK
<1>6. IsReleased(d, s, o)
  BY <1>2, <1>4, <1>5 DEF IsReleased
<1>7. \A e \in Deliveries \ {d} : Move(e)
  BY <1>4, <1>5 DEF Move, Stays, Keeps
<1> QED
  BY <1>2, <1>4, <1>5, <1>6, <1>7 DEF Move

LEMMA ReapExpiredLeaseStep ==
  ASSUME IInv, NEW d \in Deliveries, ReapExpiredLease(d)
  PROVE  Step
<1> DEFINE n == delivery[d].count
<1>1. /\ n \in Numbers /\ attempt[d][n] = "open" /\ attempt \in [Deliveries -> [Numbers -> Outcome]]
      /\ delivery[d].status = "PROCESSING"
  BY RowType, ConstantsAssumption
  DEF ReapExpiredLease, IInv, TypeOK, Born, Budget, AttemptHistory, Numbers
<1>2. attempt' = [attempt EXCEPT ![d][n] = "ABANDONED"]
  BY <1>1 DEF ReapExpiredLease
<1>3. AfterFailure(n) \in Status
  BY DEF AfterFailure, Status, Terminal, Due
<1>4. /\ delivery' = [delivery EXCEPT ![d] = Released(@, AfterFailure(n))]
      /\ producer' = producer /\ "ABANDONED" \in Outcome
  BY DEF ReapExpiredLease, Outcome
<1>5. /\ delivery' \in [Deliveries -> Delivery] /\ attempt' \in [Deliveries -> [Numbers -> Outcome]]
      /\ \A e \in Deliveries : Move(e)
  BY <1>1, <1>2, <1>3, <1>4, ReleaseMoves
<1> QED
  BY <1>5 DEF IInv, TypeOK, Step, HandMove, ConnMove, ReapExpiredLease

LEMMA ClaimDueBatchStep ==
  ASSUME IInv, NEW w \in Workers, ClaimDueBatch(w)
  PROVE  Step
<1> DEFINE L(d) == Leased(delivery[d], w)
<1>1. PICK S \in SUBSET {d \in Deliveries : delivery[d].status \in Due} :
       /\ delivery' = [d \in Deliveries |-> IF d \in S THEN L(d) ELSE delivery[d]]
       /\ attempt' = [d \in Deliveries |->
                        IF d \in S THEN [attempt[d] EXCEPT ![L(d).count] = "open"] ELSE attempt[d]]
       /\ worker' = [worker EXCEPT ![w].todo = {<<d, L(d).count>> : d \in S}]
  BY DEF ClaimDueBatch
<1>2. /\ worker[w].pc = "idle" /\ worker[w].todo = {} /\ worker[w].d = NoDelivery
      /\ worker[w] \in Worker /\ producer' = producer
  BY DEF ClaimDueBatch, IInv, HandSound, TypeOK
<1>3. \A d \in Deliveries :
        /\ delivery[d] \in Delivery /\ delivery[d].count \in Nat
        /\ L(d) \in Delivery /\ L(d).status = "PROCESSING" /\ L(d).lease = w
        /\ L(d).count = delivery[d].count + 1 /\ L(d).target = delivery[d].target
        /\ L(d).sends = delivery[d].sends
  BY RowType, LeasedRow DEF IInv
<1> HIDE DEF L
<1>4. ASSUME NEW d \in S PROVE IsClaimed(w, d)
  <2>1. delivery'[d] = L(d) /\ attempt'[d] = [attempt[d] EXCEPT ![L(d).count] = "open"]
    BY <1>1
  <2> QED
    BY <1>1, <1>2, <1>3, <2>1 DEF IsClaimed
<1>5. ASSUME NEW d \in Deliveries \ S PROVE Stays(d)
  BY <1>1, <1>2 DEF Stays, Keeps
<1>6. delivery' \in [Deliveries -> Delivery]
  BY <1>1, <1>3
<1>7. attempt' \in [Deliveries -> [Numbers -> Outcome]]
  <2>1. \A d \in Deliveries : [attempt[d] EXCEPT ![L(d).count] = "open"] \in [Numbers -> Outcome]
    BY DEF IInv, TypeOK, Outcome
  <2> QED
    BY <1>1, <2>1 DEF IInv, TypeOK
<1> DEFINE T == {<<d, L(d).count>> : d \in S}
           r == [worker[w] EXCEPT !.todo = T]
<1>8. worker' = [worker EXCEPT ![w] = r]
  BY <1>1
<1>9. T \subseteq Deliveries \X Nat
  BY <1>3
<1>10. \A d \in Deliveries, n \in Nat : <<d, n>> \in T => d \in S /\ n = delivery[d].count + 1
  BY <1>3
<1> HIDE DEF T
<1>11. r \in Worker /\ r.pc = "idle" /\ r.d = NoDelivery /\ r.todo = T
  BY <1>2, <1>9 DEF Worker
<1> HIDE DEF r
<1>12. /\ worker' \in [Workers -> Worker] /\ worker'[w] = r
       /\ \A v \in Workers \ {w} : worker'[v] = worker[v]
  BY <1>8, <1>11 DEF IInv, TypeOK
<1>13. Batches(w)
  BY <1>4, <1>10, <1>11, <1>12 DEF Batches
<1>14. \A v \in Workers : HandMove(v)
  BY <1>12, <1>13 DEF HandMove
<1>15. \A d \in Deliveries : Move(d)
  BY <1>4, <1>5 DEF Move
<1> QED
  BY <1>6, <1>7, <1>12, <1>14, <1>15 DEF IInv, TypeOK, Step, ConnMove, ClaimDueBatch

LEMMA ProcessClaimStep ==
  ASSUME IInv, NEW w \in Workers, ProcessClaim(w)
  PROVE  Step
<1>1. PICK p \in worker[w].todo :
        worker' = [worker EXCEPT ![w] = [pc |-> "deliver", d |-> p[1], n |-> p[2],
                                         todo |-> worker[w].todo \ {p}]]
  BY DEF ProcessClaim
<1>2. /\ worker[w].pc = "idle" /\ worker[w].todo \subseteq Deliveries \X Nat
      /\ p \in Deliveries \X Nat /\ p = <<p[1], p[2]>> /\ p[1] \in Deliveries /\ p[2] \in Nat
  BY HandType DEF ProcessClaim, IInv
<1> DEFINE r == [pc |-> "deliver", d |-> p[1], n |-> p[2], todo |-> worker[w].todo \ {p}]
<1>3. /\ r \in Worker /\ r.pc = "deliver" /\ r.d = p[1] /\ r.n = p[2]
      /\ r.todo = worker[w].todo \ {p}
  BY <1>2 DEF Worker, Pc
<1> HIDE DEF r
<1>4. /\ worker' \in [Workers -> Worker] /\ worker'[w] = r
      /\ \A v \in Workers \ {w} : worker'[v] = worker[v]
  BY <1>1, <1>3 DEF IInv, TypeOK, r
<1>5. Takes(w)
  BY <1>2, <1>3, <1>4 DEF Takes
<1>6. \A v \in Workers : HandMove(v)
  BY <1>4, <1>5 DEF HandMove
<1>7. \A d \in Deliveries : Move(d)
  BY Untouched DEF ProcessClaim
<1> QED
  BY <1>4, <1>6, <1>7 DEF IInv, TypeOK, Step, ConnMove, ProcessClaim

\* A loop that has a delivery in hand, and what is known of it.
LEMMA InHand ==
  ASSUME IInv, NEW w \in Workers, worker[w].pc # "idle"
  PROVE  /\ worker[w].d \in Deliveries /\ Target(w) \in Links
         /\ worker[w].n \in 1 .. delivery[worker[w].d].count
         /\ Owns(w, worker[w].d) => worker[w].n = delivery[worker[w].d].count
         /\ worker[w].pc \in {"call", "fence", "delivered"} => delivery[worker[w].d].sends > 0
<1>1. /\ worker[w].d \in Deliveries /\ worker[w].n \in Nat
      /\ worker[w].pc \in {"call", "fence", "delivered"} => delivery[worker[w].d].sends > 0
  BY HandType DEF IInv, HandSound
<1>2. Holds(w, worker[w].d, worker[w].n)
  BY DEF Holds
<1>3. /\ worker[w].n \in 1 .. delivery[worker[w].d].count
      /\ Owns(w, worker[w].d) => worker[w].n = delivery[worker[w].d].count
  BY <1>1, <1>2 DEF IInv, HandSound
<1>4. /\ delivery[worker[w].d].count \in Nat /\ delivery[worker[w].d].count > 0
      /\ delivery[worker[w].d].status \in {"NONE", "SKIPPED"} => delivery[worker[w].d].count = 0
      /\ delivery[worker[w].d].status \notin {"NONE", "SKIPPED"} => Target(w) \in Links
  BY <1>1, <1>3, RowType DEF IInv, Born, Target
<1> QED
  BY <1>1, <1>3, <1>4

\* The rest of the step when loop w goes on to pc.
LEMMA HandGoes ==
  ASSUME IInv, NEW w \in Workers, worker[w].pc # "idle", NEW pc \in Pc \ {"idle", "deliver"},
         Goto(w, pc),
         pc \in {"call", "fence", "delivered"} => delivery'[worker[w].d].sends > 0,
         pc = "fence" => Target(w) \in refused'
  PROVE  worker' \in [Workers -> Worker] /\ \A v \in Workers : HandMove(v)
<1>1. /\ worker' \in [Workers -> Worker]
      /\ worker'[w].pc = pc /\ worker'[w].d = worker[w].d /\ worker'[w].n = worker[w].n
      /\ worker'[w].todo = worker[w].todo
      /\ \A v \in Workers \ {w} : worker'[v] = worker[v]
  BY GotoHand DEF IInv
<1>2. MovesOn(w)
  BY <1>1 DEF MovesOn
<1> QED
  BY <1>1, <1>2 DEF HandMove

LEMMA DeliverStep ==
  ASSUME IInv, NEW w \in Workers, Deliver(w)
  PROVE  Step
<1>1. worker[w].pc = "deliver" /\ worker[w].d \in Deliveries
  BY DEF Deliver, At
<1>2. {"permanent", "call"} \subseteq Pc \ {"idle", "deliver"}
  BY DEF Pc
<1>3. CASE Goto(w, "permanent") /\ UNCHANGED delivery
  <2>1. worker' \in [Workers -> Worker] /\ \A v \in Workers : HandMove(v)
    BY <1>1, <1>2, <1>3, HandGoes
  <2>2. \A d \in Deliveries : Move(d)
    BY <1>3, Untouched DEF Deliver
  <2> QED
    BY <1>3, <2>1, <2>2 DEF IInv, TypeOK, Step, ConnMove, Deliver
<1>4. CASE /\ Goto(w, "call")
           /\ delivery' = [delivery EXCEPT ![worker[w].d].sends = @ + 1]
  <2>1. PICK d \in Deliveries : d = worker[w].d
    BY <1>1
  <2> DEFINE k == delivery[d].sends + 1
             r == [delivery[d] EXCEPT !.sends = k]
  <2>2. k \in Nat /\ k > 0 /\ k = delivery[d].sends + 1
    BY RowType DEF IInv
  <2>3. delivery' = [delivery EXCEPT ![d] = r]
    BY <1>4, <2>1
  <2> HIDE DEF k
  <2>4. /\ r \in Delivery /\ r.status = delivery[d].status /\ r.lease = delivery[d].lease
        /\ r.count = delivery[d].count /\ r.sends = k /\ r.target = delivery[d].target
    BY <2>2, RowType DEF IInv, Delivery
  <2> HIDE DEF r
  <2>5. /\ delivery' \in [Deliveries -> Delivery] /\ delivery'[d] = r
        /\ \A e \in Deliveries \ {d} : delivery'[e] = delivery[e]
    BY <2>3, <2>4, RowSet DEF IInv
  <2>6. worker' \in [Workers -> Worker] /\ \A v \in Workers : HandMove(v)
    BY <1>1, <1>2, <1>4, <2>1, <2>2, <2>4, <2>5, HandGoes
  <2>7. worker'[w].pc # "deliver" /\ worker'[w].todo = worker[w].todo
    BY <1>2, <1>4, GotoHand DEF IInv
  <2>8. Move(d)
    BY <1>1, <2>1, <2>2, <2>4, <2>5, <2>7 DEF Move, Sends, Keeps, Deliver
  <2>9. \A e \in Deliveries : Move(e)
    BY <2>5, <2>8, OneRow DEF IInv, Deliver
  <2> QED
    BY <2>5, <2>6, <2>9 DEF IInv, TypeOK, Step, ConnMove, Deliver
<1> QED
  BY <1>3, <1>4 DEF Deliver

LEMMA AnswerStep ==
  ASSUME IInv, NEW w \in Workers, Answer(w)
  PROVE  Step
<1>1. worker[w].pc = "call" /\ worker[w].d \in Deliveries
  BY DEF Answer, At
<1>2. delivery'[worker[w].d].sends > 0 /\ Target(w) \in Links
  BY <1>1, InHand DEF Answer
<1>3. PICK pc \in Pc \ {"idle", "deliver"} :
        /\ Goto(w, pc)
        /\ \/ pc # "fence" /\ refused' = refused
           \/ refused' = refused \cup {Target(w)}
  BY DEF Answer, Pc
<1>4. worker' \in [Workers -> Worker] /\ \A v \in Workers : HandMove(v)
  BY <1>1, <1>2, <1>3, HandGoes
<1>5. \A d \in Deliveries : Move(d)
  BY Untouched DEF Answer
<1> QED
  BY <1>2, <1>3, <1>4, <1>5 DEF IInv, TypeOK, Step, ConnMove, Answer

LEMMA TimeoutStep ==
  ASSUME IInv, NEW w \in Workers, Timeout(w)
  PROVE  Step
<1>1. worker[w].pc # "idle" /\ Goto(w, "transient") /\ "transient" \in Pc \ {"idle", "deliver"}
  BY DEF Timeout, At, Pc
<1>2. worker' \in [Workers -> Worker] /\ \A v \in Workers : HandMove(v)
  BY <1>1, HandGoes
<1>3. \A d \in Deliveries : Move(d)
  BY Untouched DEF Timeout
<1>4. orphan' \subseteq Links
  BY <1>1, InHand DEF Timeout, IInv, TypeOK
<1> QED
  BY <1>2, <1>3, <1>4 DEF IInv, TypeOK, Step, ConnMove, Timeout

\* The fence of a connection whose refusal has been recorded.
LEMMA FenceMoves ==
  ASSUME IInv, NEW c \in Links, FenceConnection(c), c \in refused', refused \subseteq refused',
         attempt' = attempt, producer' = producer
  PROVE  /\ delivery' \in [Deliveries -> Delivery] /\ \A d \in Deliveries : Move(d)
         /\ conn' \in [Links -> {"free", "ACTIVE", "BLOCKED", "deleted"}] /\ ConnMove
<1>1. CASE conn[c] = "ACTIVE"
  <2>1. conn' = [conn EXCEPT ![c] = "BLOCKED"] /\ CancelDue({c})
    BY <1>1 DEF FenceConnection
  <2>2. delivery' \in [Deliveries -> Delivery] /\ \A d \in Deliveries : Move(d)
    BY <2>1, CancelMoves
  <2> QED
    BY <2>1, <2>2 DEF IInv, TypeOK, ConnMove
<1>2. CASE conn[c] # "ACTIVE"
  <2>1. conn' = conn /\ delivery' = delivery
    BY <1>2 DEF FenceConnection
  <2> QED
    BY <2>1, Untouched DEF IInv, TypeOK, ConnMove
<1> QED
  BY <1>1, <1>2

LEMMA FenceStep ==
  ASSUME IInv, NEW w \in Workers, Fence(w)
  PROVE  Step
<1>1. /\ worker[w].pc = "fence" /\ worker[w].d \in Deliveries /\ Target(w) \in refused
      /\ refused' = refused /\ {"permanent", "transient"} \subseteq Pc \ {"idle", "deliver"}
  BY DEF Fence, At, IInv, HandSound, Pc
<1>2. Target(w) \in Links
  BY <1>1, InHand
<1>3. worker' \in [Workers -> Worker] /\ \A v \in Workers : HandMove(v)
  BY <1>1, HandGoes DEF Fence
<1>4. /\ delivery' \in [Deliveries -> Delivery] /\ \A d \in Deliveries : Move(d)
      /\ conn' \in [Links -> {"free", "ACTIVE", "BLOCKED", "deleted"}] /\ ConnMove
  <2>1. CASE FenceConnection(Target(w))
    BY <1>1, <1>2, <2>1, FenceMoves DEF Fence
  <2>2. CASE UNCHANGED <<conn, delivery>>
    BY <1>1, <2>2, Untouched DEF Fence, IInv, TypeOK, ConnMove
  <2> QED
    BY <2>1, <2>2 DEF Fence
<1> QED
  BY <1>1, <1>3, <1>4 DEF IInv, TypeOK, Step, Fence

LEMMA LateFenceStep ==
  ASSUME IInv, NEW c \in Links, LateFence(c)
  PROVE  Step
<1>1. /\ delivery' \in [Deliveries -> Delivery] /\ \A d \in Deliveries : Move(d)
      /\ conn' \in [Links -> {"free", "ACTIVE", "BLOCKED", "deleted"}] /\ ConnMove
  BY FenceMoves DEF LateFence
<1> QED
  BY <1>1 DEF IInv, TypeOK, Step, HandMove, LateFence

\* The CAS of the finalizer, with the outcome that fits the status.
LEMMA FinalizeMoves ==
  ASSUME IInv, NEW w \in Workers, worker[w].pc # "idle", producer' = producer,
         NEW s \in Status, NEW o \in Outcome, FinalizeInTx(w, s, o),
         \/ s = "DELIVERED" /\ o = "DELIVERED" /\ worker[w].pc = "delivered"
         \/ s = "FAILED" /\ o = "PERMANENT_FAILURE"
         \/ s = AfterFailure(worker[w].n) /\ o = "TRANSIENT_FAILURE"
  PROVE  /\ delivery' \in [Deliveries -> Delivery] /\ attempt' \in [Deliveries -> [Numbers -> Outcome]]
         /\ \A e \in Deliveries : Move(e)
<1>1. PICK d \in Deliveries : d = worker[w].d
  BY InHand
<1>2. /\ Owns(w, d) => worker[w].n = delivery[d].count
      /\ worker[w].pc = "delivered" => delivery[d].sends > 0
  BY <1>1, InHand
<1>3. CASE Owns(w, d)
  <2>1. /\ delivery[d].status = "PROCESSING"
        /\ delivery' = [delivery EXCEPT ![d] = Released(@, s)]
        /\ attempt' = [attempt EXCEPT ![d][delivery[d].count] = o]
    BY <1>1, <1>2, <1>3 DEF FinalizeInTx, Owns
  <2> QED
    BY <1>2, <1>3, <2>1, ReleaseMoves
<1>4. CASE ~Owns(w, d)
  BY <1>1, <1>4, Untouched DEF FinalizeInTx, IInv, TypeOK
<1> QED
  BY <1>3, <1>4

LEMMA ApplyResultStep ==
  ASSUME IInv, NEW w \in Workers, ApplyResult(w)
  PROVE  Step
<1>1. /\ worker[w].pc # "idle" /\ producer' = producer
      /\ {"DELIVERED", "FAILED", AfterFailure(worker[w].n)} \subseteq Status
      /\ {"DELIVERED", "PERMANENT_FAILURE", "TRANSIENT_FAILURE"} \subseteq Outcome
  BY DEF ApplyResult, AfterFailure, Status, Terminal, Due, Outcome
<1>2. /\ delivery' \in [Deliveries -> Delivery] /\ attempt' \in [Deliveries -> [Numbers -> Outcome]]
      /\ \A e \in Deliveries : Move(e)
  <2>1. CASE worker[w].pc = "delivered" /\ FinalizeInTx(w, "DELIVERED", "DELIVERED")
    BY <1>1, <2>1, FinalizeMoves
  <2>2. CASE FinalizeInTx(w, AfterFailure(worker[w].n), "TRANSIENT_FAILURE")
    BY <1>1, <2>2, FinalizeMoves
  <2>3. CASE FinalizeInTx(w, "FAILED", "PERMANENT_FAILURE")
    BY <1>1, <2>3, FinalizeMoves
  <2> QED
    BY <2>1, <2>2, <2>3 DEF ApplyResult
<1> DEFINE r == [Idle EXCEPT !.todo = worker[w].todo]
<1>3. worker' = [worker EXCEPT ![w] = r]
  BY DEF ApplyResult
<1>4. r \in Worker /\ r.pc = "idle" /\ r.d = NoDelivery /\ r.todo = worker[w].todo
  BY HandType DEF IInv, Idle, Worker, Pc
<1> HIDE DEF r
<1>5. /\ worker' \in [Workers -> Worker] /\ worker'[w] = r
      /\ \A v \in Workers \ {w} : worker'[v] = worker[v]
  BY <1>3, <1>4 DEF IInv, TypeOK
<1>6. \A v \in Workers : HandMove(v)
  BY <1>4, <1>5 DEF HandMove, Drops
<1> QED
  BY <1>2, <1>5, <1>6 DEF IInv, TypeOK, Step, ConnMove, ApplyResult

LEMMA CrashStep ==
  ASSUME IInv, NEW w \in Workers, Crash(w)
  PROVE  Step
<1>1. Idle \in Worker /\ Idle.pc = "idle" /\ Idle.d = NoDelivery /\ Idle.todo = {}
  BY DEF Idle, Worker, Pc
<1>2. /\ worker' \in [Workers -> Worker] /\ worker'[w] = Idle
      /\ \A v \in Workers \ {w} : worker'[v] = worker[v]
  BY <1>1 DEF IInv, TypeOK, Crash
<1>3. \A v \in Workers : HandMove(v)
  BY <1>1, <1>2 DEF HandMove, Drops
<1>4. \A d \in Deliveries : Move(d)
  BY Untouched DEF Crash
<1> QED
  BY <1>2, <1>3, <1>4 DEF IInv, TypeOK, Step, ConnMove, Crash

-----------------------------------------------------------------------------
(* The invariant, and what follows from it.                                *)

LEMMA InitInv == Init => IInv
<1> SUFFICES ASSUME Init PROVE IInv
  OBVIOUS
<1> DEFINE r == [status |-> "NONE", target |-> 0, count |-> 0, lease |-> NoWorker,
                 live |-> FALSE, sends |-> 0]
<1>1. /\ r \in Delivery /\ r.status = "NONE" /\ r.target = 0 /\ r.count = 0 /\ r.sends = 0
      /\ r.lease = NoWorker
  BY DEF Delivery, Status
<1>2. Idle \in Worker /\ Idle.pc = "idle" /\ Idle.d = NoDelivery /\ Idle.todo = {}
  BY DEF Idle, Worker, Pc
<1>3. /\ delivery = [d \in Deliveries |-> r] /\ worker = [w \in Workers |-> Idle]
      /\ attempt = [d \in Deliveries |-> [n \in Numbers |-> "none"]]
      /\ conn = [c \in Links |-> "free"] /\ producer = [d \in Deliveries |-> "none"]
      /\ orphan = {} /\ refused = {}
  BY DEF Init
<1> HIDE DEF r
<1>4. TypeOK
  <2>1. attempt \in [Deliveries -> [Numbers -> Outcome]]
    BY <1>3 DEF Outcome
  <2> QED
    BY <1>1, <1>2, <1>3, <2>1 DEF TypeOK
<1>5. Born /\ Budget
  BY <1>1, <1>3, ConstantsAssumption DEF Born, Budget, Due
<1>6. \A w \in Workers, d \in Deliveries, n \in Nat : ~Holds(w, d, n) /\ ~WillSend(w, d, n)
  BY <1>2, <1>3, ConstantsAssumption DEF Holds, WillSend
<1>7. HandSound
  BY <1>2, <1>3, <1>6 DEF HandSound
<1>8. HeldOnce
  BY <1>2, <1>3, <1>6 DEF HeldOnce
<1>9. Paid
  <2> SUFFICES ASSUME NEW d \in Deliveries
               PROVE  delivery[d].sends + Cardinality(Unsent(d)) <= delivery[d].count
    BY DEF Paid
  <2>1. Unsent(d) = {}
    BY <1>1, <1>3 DEF Unsent
  <2> QED
    BY <1>1, <1>3, <2>1, FS_EmptySet
<1>10. AttemptHistory
  BY <1>1, <1>3 DEF AttemptHistory, Numbers
<1>11. BlockedWasRefused
  BY <1>3 DEF BlockedWasRefused
<1> QED
  BY <1>4, <1>5, <1>7, <1>8, <1>9, <1>10, <1>11 DEF IInv

LEMMA NextIsStep ==
  ASSUME IInv, Next
  PROVE  Step
BY LinkStep, UnlinkStep, NotifyReadStep, NotifyWriteStep, LeaseExpiresStep, ReapExpiredLeaseStep,
   ClaimDueBatchStep, ProcessClaimStep, DeliverStep, AnswerStep, TimeoutStep, FenceStep,
   ApplyResultStep, CrashStep, LateFenceStep
DEF Next, Process

LEMMA StutterIsStep ==
  ASSUME IInv, UNCHANGED vars
  PROVE  Step
BY Untouched DEF IInv, TypeOK, Step, ConnMove, HandMove, vars

LEMMA Inductive == Spec => []IInv
<1>1. IInv /\ [Next]_vars => IInv'
  BY NextIsStep, StutterIsStep, StepKeeps
<1> QED
  BY <1>1, InitInv, PTL DEF Spec

\* Every variable keeps to its column's domain: a batch hands out numbers of real attempts, and
\* no delivery is aimed at a connection that was never made.
THEOREM TypeCorrect == Spec => []TypeOK
<1>1. IInv => TypeOK
  BY DEF IInv
<1> QED
  BY <1>1, Inductive, PTL

\* The attempts tell the truth about the delivery, whatever stale loops and reapers do.
THEOREM HistoryIsTrue == Spec => []AttemptHistory
<1>1. IInv => AttemptHistory
  BY DEF IInv
<1> QED
  BY <1>1, Inductive, PTL

\* A connection is blocked only for a refusal of a message aimed at it.
THEOREM OnlyRefusedIsBlocked == Spec => []BlockedWasRefused
<1>1. IInv => BlockedWasRefused
  BY DEF IInv
<1> QED
  BY <1>1, Inductive, PTL

\* Paid for now or still to come, no call goes beyond the attempts.
Within == \A d \in Deliveries : delivery[d].sends <= delivery[d].count

LEMMA SendsWithin == IInv => Within
<1> SUFFICES ASSUME IInv, NEW d \in Deliveries
             PROVE  delivery[d].sends <= delivery[d].count
  BY DEF Within
<1>1. /\ Cardinality(Unsent(d)) \in Nat /\ delivery[d].sends \in Nat /\ delivery[d].count \in Nat
      /\ delivery[d].sends + Cardinality(Unsent(d)) <= delivery[d].count
  BY UnsentFinite, RowType DEF IInv, Paid
<1> QED
  BY <1>1

\* A delivery is sent at most once per attempt and tried at most MaxAttempts times.
THEOREM SendsAreBudgeted == Spec => []SendBudget
<1>1. IInv => SendBudget
  BY SendsWithin DEF Within, IInv, Budget, SendBudget
<1> QED
  BY <1>1, Inductive, PTL

\* A delivery that has ended is never touched again.
THEOREM TerminalStays == Spec => TerminalIsForever
<1>1. ASSUME IInv, Step, NEW d \in Deliveries, delivery[d].status \in Terminal
      PROVE  delivery'[d].status = delivery[d].status
  <2>1. Move(d) /\ (producer[d] # "done" => delivery[d].status = "NONE")
    BY <1>1 DEF Step, IInv, Born
  <2>2. delivery[d].status \notin Due \cup {"NONE", "PROCESSING"}
    BY <1>1 DEF Terminal, Due
  <2> QED
    BY <2>1, <2>2 DEF Move, Stays, Sends, Reads, Writes, Cancels, IsClaimed, IsReleased
<1>2. IInv /\ [Next]_vars =>
        [\A d \in Deliveries : delivery[d].status \in Terminal =>
           delivery'[d].status = delivery[d].status]_vars
  BY <1>1, NextIsStep, StutterIsStep
<1> QED
  BY <1>2, Inductive, PTL DEF Spec, TerminalIsForever
-----------------------------------------------------------------------------
(* The contract.                                                           *)

\* A move of the rows and loops is a move the contract allows, or none it can see.
LEMMA MoveIsPromised ==
  ASSUME IInv, IInv', NEW d \in Deliveries, Move(d)
  PROVE  \/ Contract!Rest(d) \/ Contract!Produce(d) \/ Contract!Try(d)
         \/ Contract!Send(d) \/ Contract!Settle(d) \/ Contract!Cancel(d)
<1> DEFINE s == delivery[d].status
           t == delivery'[d].status
<1>1. /\ Contract!Counted(d) <=> /\ delivery'[d].count = delivery[d].count
                                 /\ delivery'[d].sends = delivery[d].sends
      /\ Contract!Rest(d) <=> Fate(t) = Fate(s) /\ Contract!Counted(d)
      /\ Contract!Produce(d) <=> /\ Fate(s) = "NONE" /\ Fate(t) \in {"OPEN", "SKIPPED"}
                                 /\ Contract!Counted(d)
      /\ Contract!Cancel(d) <=> Fate(s) = "OPEN" /\ Fate(t) = "CANCELLED" /\ Contract!Counted(d)
  BY DEF Contract!Counted, Contract!Rest, Contract!Produce, Contract!Cancel
<1>2. /\ Contract!Try(d) <=> /\ Fate(s) = "OPEN" /\ Fate(t) = "OPEN"
                             /\ delivery'[d].count = delivery[d].count + 1
                             /\ delivery'[d].sends = delivery[d].sends
      /\ Contract!Send(d) <=> /\ delivery[d].sends < delivery[d].count
                              /\ delivery'[d].sends = delivery[d].sends + 1
                              /\ delivery'[d].count = delivery[d].count /\ Fate(t) = Fate(s)
      /\ Contract!Settle(d) <=> /\ Fate(s) = "OPEN" /\ delivery[d].count > 0
                                /\ Fate(t) = "FAILED" \/ (Fate(t) = "DELIVERED" /\ delivery[d].sends > 0)
                                /\ Contract!Counted(d)
  BY DEF Contract!Try, Contract!Send, Contract!Settle
<1> HIDE DEF s, t
<1>3. /\ producer[d] # "done" => s = "NONE"
      /\ s \in {"PROCESSING", "RETRY_SCHEDULED"} => delivery[d].count > 0
      /\ delivery[d].count \in Nat /\ delivery[d].sends \in Nat
  BY RowType DEF IInv, Born, s
<1>4. CASE Stays(d)
  BY <1>1, <1>4 DEF Stays, Keeps, s, t
<1>5. CASE Sends(d)
  <2>1. Within'
    BY SendsWithin, PTL
  <2> QED
    BY <1>2, <1>3, <1>5, <2>1 DEF Within, Sends, Keeps, s, t
<1>6. CASE Reads(d)
  BY <1>1, <1>6 DEF Reads, Keeps, s, t
<1>7. CASE Writes(d)
  BY <1>1, <1>3, <1>7 DEF Writes, Keeps, Fate, Due, t
<1>8. CASE Cancels(d)
  BY <1>1, <1>8 DEF Cancels, Keeps, Fate, Due, s, t
<1>9. CASE \E w \in Workers : IsClaimed(w, d)
  BY <1>2, <1>9 DEF IsClaimed, Fate, s, t
<1>10. CASE \E r \in Status, o \in Outcome : IsReleased(d, r, o)
  BY <1>1, <1>2, <1>3, <1>10 DEF IsReleased, AfterFailure, Fate, Due, s, t
<1> QED
  BY <1>4, <1>5, <1>6, <1>7, <1>8, <1>9, <1>10 DEF Move

\* What the rows show is in the domains of the contract.
LEMMA ShownTypes == IInv => Contract!ContractTypeOK
<1> SUFFICES ASSUME IInv, NEW d \in Deliveries
             PROVE  /\ Fate(delivery[d].status) \in Contract!DeliveryStates
                    /\ delivery[d].count \in 0 .. MaxAttempts
                    /\ delivery[d].sends \in 0 .. MaxAttempts
  BY DEF Contract!ContractTypeOK
<1>1. /\ delivery[d].status \in Status /\ delivery[d].count \in Nat /\ delivery[d].sends \in Nat
      /\ delivery[d].count <= MaxAttempts /\ MaxAttempts \in Nat
      /\ delivery[d].sends <= delivery[d].count
  BY RowType, SendsWithin, ConstantsAssumption DEF Within, IInv, Budget
<1> QED
  BY <1>1 DEF Fate, Contract!DeliveryStates, Status, Due, Terminal

\* However drain loops overlap, stall and die and connections come and go, every delivery keeps
\* the contract: a bounded number of tries, at most one message for each, one ending, and no
\* DELIVERED that nothing was sent for.
THEOREM DeliveriesKeepContract == Spec => ImplementsContract
<1>1. Init => Contract!Init
  BY DEF Init, Contract!Init, Fate, Due
<1>2. IInv /\ IInv' /\ [Next]_vars => [Contract!Next]_Contract!promised
  <2> SUFFICES ASSUME IInv, IInv', [Next]_vars
               PROVE  Contract!Next
    OBVIOUS
  <2>1. \A d \in Deliveries : Move(d)
    BY NextIsStep, StutterIsStep DEF Step
  <2>2. Contract!ContractTypeOK'
    BY ShownTypes, PTL
  <2> QED
    BY <2>1, <2>2, MoveIsPromised DEF Contract!Next
<1> QED
  BY <1>1, <1>2, Inductive, PTL DEF Spec, ImplementsContract, Contract!Spec

=============================================================================
