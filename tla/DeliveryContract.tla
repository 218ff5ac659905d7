-------------------------- MODULE DeliveryContract --------------------------
(***************************************************************************)
(* What the dispatch of notifications promises of each delivery, leases,   *)
(* batches, connections and stale workers aside: it is tried a bounded     *)
(* number of times and only while it is open, every try sends at most one  *)
(* message, and it ends once, as delivered only if something was sent.     *)
(* The message of a try may go out after the delivery has ended.  One step *)
(* may move several deliveries: a batch is claimed, an unlink cancels.     *)
(***************************************************************************)
EXTENDS Naturals

CONSTANTS
  Deliveries,  \* deliveries that may be produced
  MaxAttempts  \* tries of one delivery

VARIABLES
  state,  \* NONE, OPEN, or how each delivery ended
  tries,  \* attempts made
  sent    \* messages sent

promised == <<state, tries, sent>>

DeliveryStates == {"NONE", "OPEN", "SKIPPED", "DELIVERED", "FAILED", "CANCELLED"}

ContractTypeOK ==
  /\ state \in [Deliveries -> DeliveryStates]
  /\ tries \in [Deliveries -> 0 .. MaxAttempts]
  /\ sent \in [Deliveries -> 0 .. MaxAttempts]

Init ==
  /\ state = [d \in Deliveries |-> "NONE"]
  /\ tries = [d \in Deliveries |-> 0]
  /\ sent = [d \in Deliveries |-> 0]

Counted(d) == tries'[d] = tries[d] /\ sent'[d] = sent[d]

\* A notification asks for the delivery, or finds no chat to deliver to.
Produce(d) == state[d] = "NONE" /\ state'[d] \in {"OPEN", "SKIPPED"} /\ Counted(d)

\* It is taken up in a batch.
Try(d) ==
  /\ state[d] = "OPEN" /\ state'[d] = "OPEN"
  /\ tries'[d] = tries[d] + 1 /\ sent'[d] = sent[d]

\* A try that has not sent yet does.
Send(d) ==
  /\ sent[d] < tries[d]
  /\ sent'[d] = sent[d] + 1 /\ tries'[d] = tries[d] /\ state'[d] = state[d]

\* A try, or the last of them, settles it.
Settle(d) ==
  /\ state[d] = "OPEN" /\ tries[d] > 0
  /\ state'[d] = "FAILED" \/ (state'[d] = "DELIVERED" /\ sent[d] > 0)
  /\ Counted(d)

\* The user unlinks or relinks, or the chat has gone.
Cancel(d) == state[d] = "OPEN" /\ state'[d] = "CANCELLED" /\ Counted(d)

Rest(d) == state'[d] = state[d] /\ Counted(d)

Next ==
  /\ ContractTypeOK'
  /\ \A d \in Deliveries :
       Rest(d) \/ Produce(d) \/ Try(d) \/ Send(d) \/ Settle(d) \/ Cancel(d)

Spec == Init /\ [][Next]_promised
=============================================================================
