--------------------------- MODULE AiRunContract ---------------------------
(***************************************************************************)
(* What the run subsystem promises a conversation, leases, retries, tools  *)
(* and approvals aside: a submitted run ends exactly once, it speaks at    *)
(* most once, and it speaks only while the bot has held the conversation   *)
(* ever since the run was submitted.                                       *)
(***************************************************************************)
EXTENDS Naturals

CONSTANTS
  Runs,    \* run ids that may be submitted
  Humans,  \* users able to take the conversation over
  Bot      \* the holder when no human has control

VARIABLES
  outcome,  \* none, open, answered, refused or closed, for each run
  born,     \* ownership generation at which each run was submitted
  holder,   \* who controls the conversation
  gen       \* ownership generation of the conversation

cvars == <<outcome, born, holder, gen>>

Outcomes == {"none", "open", "answered", "refused", "closed"}

ContractTypeOK ==
  /\ outcome \in [Runs -> Outcomes]
  /\ born \in [Runs -> Nat]
  /\ holder \in Humans \cup {Bot}
  /\ gen \in Nat

Init ==
  /\ outcome = [r \in Runs |-> "none"]
  /\ born = [r \in Runs |-> 0]
  /\ holder = Bot
  /\ gen = 0

\* A run may be submitted only while the bot holds the conversation.
Submit(r) ==
  /\ outcome[r] = "none" /\ holder = Bot
  /\ outcome' = [outcome EXCEPT ![r] = "open"]
  /\ born' = [born EXCEPT ![r] = gen]
  /\ UNCHANGED <<holder, gen>>

\* The run writes its one turn: the answer, or a canned refusal.
Speak(r) ==
  /\ outcome[r] = "open" /\ holder = Bot /\ born[r] = gen
  /\ \E o \in {"answered", "refused"} : outcome' = [outcome EXCEPT ![r] = o]
  /\ UNCHANGED <<born, holder, gen>>

\* The run ends without a turn: failed, cancelled, expired or superseded.
Close(r) ==
  /\ outcome[r] = "open"
  /\ outcome' = [outcome EXCEPT ![r] = "closed"]
  /\ UNCHANGED <<born, holder, gen>>

\* A human takes over; the runs that are not being executed are closed with it.
Take(h) ==
  /\ holder # h
  /\ \E S \in SUBSET {r \in Runs : outcome[r] = "open"} :
       outcome' = [r \in Runs |-> IF r \in S THEN "closed" ELSE outcome[r]]
  /\ holder' = h /\ gen' = gen + 1
  /\ UNCHANGED born

Release ==
  /\ holder # Bot
  /\ holder' = Bot /\ gen' = gen + 1
  /\ UNCHANGED <<outcome, born>>

Next ==
  \/ \E r \in Runs : Submit(r) \/ Speak(r) \/ Close(r)
  \/ \E h \in Humans : Take(h)
  \/ Release

Spec == Init /\ [][Next]_cvars
=============================================================================
