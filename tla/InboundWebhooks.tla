-------------------------- MODULE InboundWebhooks --------------------------
(***************************************************************************)
(* Signed webhooks: the guard checks the signature and the timestamp of a  *)
(* delivery, and sets a mark in Redis by which a second delivery of the    *)
(* event is refused while the mark lasts.  The sender may deliver an event *)
(* as often as it likes, the same request again or one signed anew.        *)
(*                                                                         *)
(* stripe finds the identifier of an event in its body, generic in a       *)
(* header it signs; an event without one is not marked.  A delivery with a *)
(* wrong signature changes nothing and is left out.                        *)
(***************************************************************************)
EXTENDS Integers

CONSTANTS
  Events,         \* events of one provider
  Nameless,       \* those without an identifier
  HookDeliveries, \* deliveries: those handed over on a mark, and those under way
  MaxTime,        \* bound: the clock
  Tolerance,      \* WEBHOOK_TIMESTAMP_TOLERANCE_SECONDS
  MarkTtl,        \* WEBHOOK_REPLAY_DEDUPE_TTL_SECONDS: Tolerance, if it is not given
  Lag             \* WEBHOOK_REDIS_TIMEOUT_MS

ASSUME WebhookAssumption == Events # {} /\ {MaxTime, Tolerance, MarkTtl, Lag} \subseteq Nat

VARIABLES
  clock,    \* this server's clock
  delivery, \* the deliveries
  mark      \* webhook:v1:{provider}:{id}: when it expires, or -1

hookVars == <<clock, delivery, mark>>

Time == 0 .. MaxTime
Stamp == 0 .. MaxTime + Tolerance   \* a sender's clock is its own

\* The request and its signature, then where the guard is with it.
Delivery == [event : Events, stamp : Stamp,
             at : {"free", "guard", "replied", "late", "handed"},
             verified : Time,   \* when the guard began to wait for Redis
             won : BOOLEAN,     \* Redis has set the mark for it, ...
             marked : Time]     \* ... then

HookTypeOK ==
  /\ clock \in Time
  /\ delivery \in [HookDeliveries -> Delivery]
  /\ mark \in [Events -> -1 .. MaxTime + MarkTtl]

AnyEvent == CHOOSE e \in Events : TRUE
Free == [event |-> AnyEvent, stamp |-> 0, at |-> "free", verified |-> 0, won |-> FALSE,
         marked |-> 0]

HookInit ==
  /\ clock = 0
  /\ delivery = [d \in HookDeliveries |-> Free]
  /\ mark = [e \in Events |-> -1]

AtRedis(d) == delivery[d].at \in {"guard", "replied"}

\* A guard waits no longer than Lag for Redis.
HookTick ==
  /\ clock < MaxTime /\ clock' = clock + 1
  /\ \A d \in HookDeliveries : AtRedis(d) => clock - delivery[d].verified < Lag
  /\ UNCHANGED <<delivery, mark>>

\* Slip: the distance without Math.abs.
NotOld(s) == clock - s <= Tolerance

\* timestampAllowed: the distance in either direction.
TimestampAllowed(s) == clock - s \in (0 - Tolerance) .. Tolerance

\* A delivery passes the verifier; one that does not is answered 401 and changes nothing.
Verify(d) ==
  /\ delivery[d].at = "free"
  /\ \E e \in Events, s \in Stamp :
       /\ TimestampAllowed(s)
       /\ delivery' = [delivery EXCEPT ![d] = [Free EXCEPT !.event = e, !.stamp = s,
                                                           !.at = "guard", !.verified = clock]]
  /\ UNCHANGED <<clock, mark>>

\* SET NX EX: the mark an event e has afterwards.
Marked(e) == [mark EXCEPT ![e] = IF @ < clock THEN clock + MarkTtl ELSE @]

\* Redis executes the SET of a waiting guard ...
MarkFirst(d) ==
  LET e == delivery[d].event IN
  /\ delivery[d].at = "guard" /\ e \notin Nameless
  /\ mark' = Marked(e)
  /\ delivery' = [delivery EXCEPT ![d].at = "replied", ![d].won = mark[e] < clock,
                                  ![d].marked = IF mark[e] < clock THEN clock ELSE 0]
  /\ UNCHANGED clock

\* ... and its reply arrives: the event goes to its handler, or is refused.
Reply(d) ==
  /\ delivery[d].at = "replied"
  /\ delivery' = [delivery EXCEPT ![d] = IF delivery[d].won
                                         THEN [delivery[d] EXCEPT !.at = "handed", !.verified = 0]
                                         ELSE Free]
  /\ UNCHANGED <<clock, mark>>

\* checkAndMark answers true for an event without an identifier, and when Redis fails or does
\* not answer in time: the event goes to its handler unchecked.  The SET may have been executed,
\* may be executed later, or never.
LetThrough(d) ==
  /\ AtRedis(d)
  /\ \E at \in {"free"} \cup
              (IF delivery[d].at = "guard" /\ delivery[d].event \notin Nameless
               THEN {"late"} ELSE {}) :
       delivery' = [delivery EXCEPT ![d] = IF at = "free" THEN Free
                                           ELSE [delivery[d] EXCEPT !.at = at, !.verified = 0]]
  /\ UNCHANGED <<clock, mark>>

\* Redis executes a SET nobody waits for any more.
LateMark(d) ==
  /\ delivery[d].at = "late"
  /\ mark' = Marked(delivery[d].event)
  /\ delivery' = [delivery EXCEPT ![d] = Free]
  /\ UNCHANGED clock

HookNext ==
  \/ HookTick
  \/ \E d \in HookDeliveries :
       Verify(d) \/ MarkFirst(d) \/ Reply(d) \/ LetThrough(d) \/ LateMark(d)

HookSpec == HookInit /\ [][HookNext]_hookVars

-----------------------------------------------------------------------------
(* Properties.                                                             *)

Twice(c, d) ==
  /\ c # d /\ delivery[c].at = "handed" /\ delivery[d].at = "handed"
  /\ delivery[c].event = delivery[d].event

Distance(c, d) == delivery[d].marked - delivery[c].marked

\* Two deliveries of one event that were both checked reach the handler only if the mark of the
\* first had expired; and if they are the same signed request, only within the time both ends of
\* the tolerance and the wait for Redis span.  A mark that lasts as long as that lets no request
\* through twice (webhook.guard.ts, webhook-replay.service.ts).
DuplicateIsCaught ==
  \A c, d \in HookDeliveries : Twice(c, d) =>
     /\ Distance(c, d) > MarkTtl \/ Distance(d, c) > MarkTtl
     /\ delivery[c].stamp = delivery[d].stamp => Distance(c, d) <= 2 * Tolerance + Lag

\* docs/operations/webhooks.md:194: a duplicate event id is answered 401.  It need not be, even
\* for the same signed request and with a healthy Redis, if a mark lasts no longer than the
\* tolerance, its default.
DuplicateIsRefused ==
  \A c, d \in HookDeliveries : ~(Twice(c, d) /\ delivery[c].stamp = delivery[d].stamp)

=============================================================================
