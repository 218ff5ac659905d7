-------------------------- MODULE ChannelDelivery --------------------------
(***************************************************************************)
(* What one notification says outside and what an answer does: the         *)
(* definition of its type in the release that sends it, the e-mail and     *)
(* Telegram deliverers, the taxonomy of provider answers, the retry floor  *)
(* and the fence of the chat that refused.  Workers are restarted under    *)
(* other releases while deliveries wait.  The claims of many deliveries,   *)
(* their attempts and the drain loops are in NotificationDelivery.         *)
(***************************************************************************)
EXTENDS Naturals, FiniteSets

CONSTANTS
  Senders,      \* worker processes
  Chats,
  Definitions,  \* what a release may register for the type of the notification
  Unknown,      \* the release does not know the type
  PayloadShapes,
  SendAttempts, \* NOTIFICATION_EXTERNAL_MAX_ATTEMPTS
  Waits,        \* retry_after of an answer, in ticks; 0 is absent or unusable
  WaitMax,      \* NOTIFICATION_RETRY_AFTER_MAX_MS
  BackoffCap,   \* NOTIFICATION_BACKOFF_CAP_MS
  MaxBinds,     \* bound: connections the user makes
  LastTick      \* bound on the clock

External == {"email", "telegram"}
ContentClass == {"PUBLIC", "PERSONAL", "SENSITIVE", "SECRET"}
TypeDefinition == [class : ContentClass, supported : SUBSET External,
                   override : [External -> {"none", "detailed", "generic"}],
                   projects : BOOLEAN, templates : SUBSET External,
                   accepts : SUBSET PayloadShapes] \* what payloadSchema parses

ASSUME DeliveryAssumption ==
  /\ Definitions \subseteq TypeDefinition
  /\ Chats # {} /\ PayloadShapes # {} /\ SendAttempts \in Nat \ {0}
  /\ {WaitMax, BackoffCap, MaxBinds, LastTick} \subseteq Nat
  /\ Waits \subseteq Nat /\ 0 \in Waits

VARIABLES
  sender,     \* the delivery in a worker's hands, and its release's definition
  parcel,     \* the notification_deliveries row
  connection, \* the user's telegram_connections row
  chat,       \* what the Bot API thinks of a chat
  late,       \* provider calls whose worker gave up on them
  mails,      \* what the e-mail provider sent out, under which key
  refused,    \* history: connections the Bot API has refused
  floor,      \* history: the end of the last wait an owner was told
  clock

deliveryVars == <<sender, parcel, connection, chat, late, mails, refused, floor, clock>>

-----------------------------------------------------------------------------
(* Content.                                                                 *)

\* Slip: only SENSITIVE content is kept generic.
OpenUnlessSensitive(class) ==
  IF class = "SECRET" THEN "forbidden" ELSE IF class = "SENSITIVE" THEN "generic" ELSE "detailed"

DefaultExternalMode(class) ==
  CASE class = "PUBLIC" -> "detailed"
    [] class \in {"PERSONAL", "SENSITIVE"} -> "generic"
    [] class = "SECRET" -> "forbidden"

ResolveExternalMode(def, ch) ==
  IF def.class = "SECRET" THEN "forbidden"
  ELSE IF def.override[ch] # "none" THEN def.override[ch] ELSE DefaultExternalMode(def.class)

ValidDefinition(def) ==
  /\ def.class # "SECRET"
  /\ \A ch \in def.supported : ResolveExternalMode(def, ch) = "detailed" => def.projects

\* The definitions of this release.
NoOverride == [ch \in External |-> "none"]
AccountPasswordChanged(v) ==
  [class |-> "SENSITIVE", supported |-> External, override |-> [NoOverride EXCEPT !["email"] = "detailed"],
   projects |-> TRUE, templates |-> {"email"}, accepts |-> {v}]
AccountProfileUpdated(v) ==
  [class |-> "PUBLIC", supported |-> {}, override |-> NoOverride,
   projects |-> FALSE, templates |-> {}, accepts |-> {v}]
AccountTelegramLinked(v) ==
  [class |-> "PERSONAL", supported |-> {"telegram"}, override |-> NoOverride,
   projects |-> FALSE, templates |-> {}, accepts |-> {v}]

\* A release whose registry refuses a definition does not start.
RegisteredDefinitions == {def \in Definitions : ValidDefinition(def)} \cup {Unknown}

\* Both deliverers; neither looks at the schemaVersion of the stored notification.
ResolveContent(def, ch, shape) ==
  IF def = Unknown THEN "generic"
  ELSE LET mode == ResolveExternalMode(def, ch) IN
       CASE mode = "forbidden" -> "content_forbidden"
         [] mode = "detailed" /\ ch \in def.templates /\ def.projects ->
              IF shape \in def.accepts THEN "detail" ELSE "payload_invalid"
         [] OTHER -> "generic"

-----------------------------------------------------------------------------
(* Answers of the Bot API.                                                  *)

BotAnswer == [http : {200, 302, 400, 401, 403, 408, 429, 500}, ok : BOOLEAN,
              says : {"nothing", "chat not found", "migrate"}, wait : Waits]
Refusal(state) ==
  CASE state = "open" -> {}
    [] state = "blocked" -> {a \in BotAnswer : a.http = 403}
    [] state = "gone" -> {a \in BotAnswer : a.http = 400 /\ a.says = "chat not found"}
    [] state = "migrated" -> {a \in BotAnswer : a.http = 400 /\ a.says = "migrate"}
ChatState == {"open", "blocked", "gone", "migrated"}
\* It refuses a chat for what the chat is; every other answer may come at any time.
Possible(state) == BotAnswer \ UNION {Refusal(other) : other \in ChatState \ {state}}

\* Slip: every refusal of the request is taken for one of the chat.
ClassifyByFamily(a) ==
  CASE a.http = 200 /\ a.ok -> "delivered"
    [] a.http = 429 -> "telegram_rate_limited"
    [] a.http \in {400, 401, 403} -> "telegram_blocked"
    [] OTHER -> "telegram_provider_transient"

ClassifySend(a) ==
  CASE a.http = 200 /\ a.ok -> "delivered"
    [] a.http = 429 -> "telegram_rate_limited"
    [] a.http = 403 -> "telegram_blocked"
    [] a.http = 400 /\ a.says = "migrate" -> "telegram_migrated"
    [] a.http = 400 /\ a.says = "chat not found" -> "telegram_chat_not_found"
    [] a.http = 408 \/ a.http >= 500 -> "telegram_provider_transient"
    [] a.http \in {400, 401} -> "telegram_provider_permanent"
    [] OTHER -> "telegram_provider_transient"

Fencing == {"telegram_blocked", "telegram_chat_not_found", "telegram_migrated"}
ResultStatus(code) ==
  CASE code = "delivered" -> "delivered"
    [] code \in {"telegram_rate_limited", "telegram_provider_transient"} -> "transient"
    [] OTHER -> "permanent"
RetryAfter(a) == IF a.http = 429 THEN a.wait ELSE 0

\* What sendMessage may return, and whether the chat itself was refused.
SendOutcomes == [state \in ChatState |->
               {[code |-> ClassifySend(a), wait |-> RetryAfter(a), gone |-> a \in Refusal(state)] :
                 a \in Possible(state)}]

-----------------------------------------------------------------------------
DueStatus == {"PENDING", "RETRY_SCHEDULED"}
ParcelStatus == {"NONE", "PROCESSING", "SKIPPED", "DELIVERED", "FAILED", "CANCELLED"} \cup DueStatus
Binds == 0 .. MaxBinds
\* A retry is due within the backoff's cap and the longest wait a provider may ask for.
DueTime == 0 .. LastTick + (IF WaitMax < BackoffCap THEN BackoffCap ELSE WaitMax)
Parcel == [status : ParcelStatus, channel : External, shape : PayloadShapes, ref : Binds,
           chat : Chats, count : 0 .. SendAttempts, due : DueTime]
SenderRecord == [pc : {"idle", "deliver", "call", "fence", "delivered", "transient", "permanent"},
                 n : Nat, at : Nat, def : RegisteredDefinitions,
                 content : {"none", "generic", "detail"}, wait : Waits]
CallRecord == [channel : External, ref : Binds, chat : Chats, key : Nat,
               content : {"generic", "detail"}]
Resting == [pc |-> "idle", n |-> 0, at |-> 0, def |-> Unknown, content |-> "none", wait |-> 0]

DeliveryTypeOK ==
  /\ sender \in [Senders -> SenderRecord]
  /\ parcel \in Parcel
  /\ connection \in [id : Binds, chat : Chats, status : {"none", "ACTIVE", "BLOCKED"}]
  /\ chat \in [Chats -> ChatState]
  /\ late \subseteq CallRecord /\ mails \subseteq [key : Nat, content : {"generic", "detail"}]
  /\ refused \subseteq Binds /\ floor \in Nat /\ clock \in 0 .. LastTick

SomeChat == CHOOSE c \in Chats : TRUE

DeliveryInit ==
  /\ sender = [s \in Senders |-> Resting]
  /\ parcel = [status |-> "NONE", channel |-> "email", shape |-> CHOOSE v \in PayloadShapes : TRUE,
               ref |-> 0, chat |-> SomeChat, count |-> 0, due |-> 0]
  /\ connection = [id |-> 0, chat |-> SomeChat, status |-> "none"]
  /\ chat = [c \in Chats |-> "open"]
  /\ late = {} /\ mails = {} /\ refused = {} /\ floor = 0 /\ clock = 0

-----------------------------------------------------------------------------
(* The user, the producer and the providers' side of the world.             *)

CancelDueOf(id) ==
  parcel' = IF parcel.status \in DueStatus /\ parcel.channel = "telegram" /\ parcel.ref = id
            THEN [parcel EXCEPT !.status = "CANCELLED"] ELSE parcel

\* Only somebody who can write to the bot links a chat; the old row is deleted.
Rebind(c) ==
  /\ connection.id < MaxBinds /\ chat[c] = "open"
  /\ connection' = [id |-> connection.id + 1, chat |-> c, status |-> "ACTIVE"]
  /\ CancelDueOf(connection.id)
  /\ UNCHANGED <<sender, chat, late, mails, refused, floor, clock>>

ChatTurns(c, state) ==
  /\ chat[c] # state
  /\ chat' = [chat EXCEPT ![c] = state]
  /\ UNCHANGED <<sender, parcel, connection, late, mails, refused, floor, clock>>

\* resolveTargets: nothing usable to aim at is SKIPPED at once.
Reachable(ch, verified) == IF ch = "email" THEN verified ELSE connection.status = "ACTIVE"

Materialize(ch, verified, shape) ==
  /\ parcel.status = "NONE"
  /\ parcel' = [parcel EXCEPT !.status = IF Reachable(ch, verified) THEN "PENDING" ELSE "SKIPPED",
                              !.channel = ch, !.shape = shape,
                              !.ref = IF ch = "telegram" THEN connection.id ELSE 0,
                              !.chat = connection.chat, !.due = clock]
  /\ UNCHANGED <<sender, connection, chat, late, mails, refused, floor, clock>>

\* A crash: what the worker held is gone.
SenderDies(s) ==
  /\ sender[s] # Resting
  /\ sender' = [sender EXCEPT ![s] = Resting]
  /\ UNCHANGED <<parcel, connection, chat, late, mails, refused, floor, clock>>

ClockTicks ==
  /\ clock < LastTick /\ clock' = clock + 1
  /\ UNCHANGED <<sender, parcel, connection, chat, late, mails, refused, floor>>

-----------------------------------------------------------------------------
(* One delivery in the hands of a worker.                                   *)

Doubled(n) == 2 ^ (n - 1)
BackoffOf(n) == IF Doubled(n) \in 1 .. BackoffCap THEN Doubled(n) ELSE BackoffCap
\* Slip: the provider's floor replaces the backoff only when it is shorter.
EarlierOf(at, wait) == IF wait > 0 /\ clock + wait < at THEN clock + wait ELSE at
\* Slip: a provider may ask for any wait.
AnyFloor(at, wait) == IF wait > 0 /\ clock + wait > at THEN clock + wait ELSE at
\* applyRetryAfterFloor: the later of the two, the floor clamped.
RetryFloor(at, wait) ==
  LET until == clock + (IF wait <= WaitMax THEN wait ELSE WaitMax) IN
  IF wait > 0 /\ until > at THEN until ELSE at

\* The worker may have been restarted under any release since it last had a delivery.
TakeDue(s, def) ==
  /\ sender[s] = Resting /\ parcel.status \in DueStatus /\ parcel.due <= clock
  /\ parcel' = [parcel EXCEPT !.status = "PROCESSING", !.count = @ + 1]
  /\ sender' = [sender EXCEPT ![s] = [Resting EXCEPT !.pc = "deliver", !.n = parcel.count + 1,
                                                     !.at = clock, !.def = def]]
  /\ UNCHANGED <<connection, chat, late, mails, refused, floor, clock>>

Goes(s, pc, wait) == sender' = [sender EXCEPT ![s].pc = pc, ![s].wait = wait]

\* deliver up to the call; a template that does not render is permanent too.
Compose(s) ==
  LET content == ResolveContent(sender[s].def, parcel.channel, parcel.shape) IN
  /\ sender[s].pc = "deliver"
  /\ \/ /\ content \in {"content_forbidden", "payload_invalid"} \/ parcel.channel = "email"
        /\ Goes(s, "permanent", 0)
     \/ /\ content \in {"generic", "detail"}
        /\ sender' = [sender EXCEPT ![s].pc = "call", ![s].content = content]
  /\ UNCHANGED <<parcel, connection, chat, late, mails, refused, floor, clock>>

\* Slip: the key names the attempt.
AttemptKey(n) == n
\* notification-delivery:<id>, whatever the attempt.
DeliveryKey(n) == 0

CallOf(s) == [channel |-> parcel.channel, ref |-> parcel.ref, chat |-> parcel.chat,
              key |-> DeliveryKey(sender[s].n), content |-> sender[s].content]

\* The provider sends one mail under a key, and refuses the key for other content.
Posted(call) == IF \E m \in mails : m.key = call.key THEN mails
                ELSE mails \cup {[key |-> call.key, content |-> call.content]}
Clashes(call) == \E m \in mails : m.key = call.key /\ m.content # call.content

\* EmailService.send: success, a deterministic refusal, or anything else; a mail that went
\* out may still be answered by a transport error.
MailAnswered(s) ==
  LET call == CallOf(s) IN
  /\ sender[s].pc = "call" /\ call.channel = "email"
  /\ \/ ~Clashes(call) /\ mails' = Posted(call)
        /\ \E pc \in {"delivered", "transient"} : Goes(s, pc, 0)
     \/ \E pc \in {"transient", "permanent"} : Goes(s, pc, 0) /\ UNCHANGED mails
  /\ UNCHANGED <<parcel, connection, chat, late, refused, floor, clock>>

\* The Bot API gives one of the answers the chat has for it.
SendMessage(call, o) ==
  /\ o \in SendOutcomes[chat[call.chat]]
  /\ refused' = IF o.gone THEN refused \cup {call.ref} ELSE refused

BotAnswered(s) ==
  LET call == CallOf(s) IN
  /\ sender[s].pc = "call" /\ call.channel = "telegram"
  /\ \E o \in SendOutcomes[chat[call.chat]] :
       /\ SendMessage(call, o)
       /\ Goes(s, IF o.code \in Fencing THEN "fence" ELSE ResultStatus(o.code), o.wait)
  /\ UNCHANGED <<parcel, connection, chat, late, mails, floor, clock>>

\* Slip: the user's connection is blocked, whichever the delivery was aimed at.
FenceCurrent(id, c) ==
  /\ connection' = [connection EXCEPT !.status = "BLOCKED"]
  /\ CancelDueOf(connection.id)

\* fenceConnection: by id, chat and ACTIVE.
FenceDestination(id, c) ==
  IF connection.id = id /\ connection.chat = c /\ connection.status = "ACTIVE"
  THEN connection' = [connection EXCEPT !.status = "BLOCKED"] /\ CancelDueOf(id)
  ELSE UNCHANGED <<connection, parcel>>

\* A fence that throws makes the attempt transient.
FenceStep(s) ==
  /\ sender[s].pc = "fence"
  /\ \/ FenceDestination(parcel.ref, parcel.chat) /\ Goes(s, "permanent", 0)
     \/ UNCHANGED <<connection, parcel>> /\ Goes(s, "transient", 0)
  /\ UNCHANGED <<chat, late, mails, refused, floor, clock>>

\* deliverWithTimeout resolves and the call goes on.
GivesUp(s) ==
  /\ sender[s].pc = "call"
  /\ late' = late \cup {CallOf(s)} /\ Goes(s, "transient", 0)
  /\ UNCHANGED <<parcel, connection, chat, mails, refused, floor, clock>>

LateAnswer(call) ==
  /\ call \in late /\ late' = late \ {call}
  /\ \/ /\ call.channel = "email" /\ mails' = Posted(call)
        /\ UNCHANGED <<connection, parcel, refused>>
     \/ /\ call.channel = "telegram" /\ UNCHANGED mails
        /\ \E o \in SendOutcomes[chat[call.chat]] :
             /\ SendMessage(call, o)
             /\ IF o.code \in Fencing THEN FenceDestination(call.ref, call.chat)
                ELSE UNCHANGED <<connection, parcel>>
  /\ UNCHANGED <<sender, chat, floor, clock>>

\* The lease token of a claim is as unique as its attempt number.
OwnsParcel(s) == parcel.status = "PROCESSING" /\ parcel.count = sender[s].n

\* applyResult: a permanent failure is never retried, a transient one within the budget.
SettleParcel(s) ==
  LET result == sender[s].pc
      wait == sender[s].wait
      spent == sender[s].n >= SendAttempts IN
  /\ result \in {"delivered", "transient", "permanent"}
  /\ IF ~OwnsParcel(s) THEN UNCHANGED <<parcel, floor>>
     ELSE IF result = "transient" /\ ~spent
     THEN /\ parcel' = [parcel EXCEPT !.status = "RETRY_SCHEDULED",
                                      !.due = RetryFloor(clock + BackoffOf(sender[s].n), wait)]
          /\ floor' = clock + (IF wait <= WaitMax THEN wait ELSE WaitMax)
     ELSE /\ parcel' = [parcel EXCEPT !.status = IF result = "delivered" THEN "DELIVERED"
                                                ELSE "FAILED"]
          /\ UNCHANGED floor
  /\ sender' = [sender EXCEPT ![s] = Resting]
  /\ UNCHANGED <<connection, chat, late, mails, refused, clock>>

\* reapExpiredLeases, once the two minutes of the lease are over.
ReapParcel ==
  /\ parcel.status = "PROCESSING"
  /\ parcel' = IF parcel.count >= SendAttempts THEN [parcel EXCEPT !.status = "FAILED"]
               ELSE [parcel EXCEPT !.status = "RETRY_SCHEDULED",
                                   !.due = clock + BackoffOf(parcel.count)]
  /\ UNCHANGED <<sender, connection, chat, late, mails, refused, floor, clock>>

-----------------------------------------------------------------------------
DeliveryNext ==
  \/ \E c \in Chats : Rebind(c) \/ \E state \in ChatState : ChatTurns(c, state)
  \/ \E ch \in External, verified \in BOOLEAN, v \in PayloadShapes : Materialize(ch, verified, v)
  \/ \E s \in Senders :
       \/ SenderDies(s) \/ Compose(s) \/ MailAnswered(s) \/ BotAnswered(s) \/ FenceStep(s)
       \/ GivesUp(s) \/ SettleParcel(s)
       \/ \E def \in RegisteredDefinitions : TakeDue(s, def)
  \/ \E call \in late : LateAnswer(call)
  \/ ReapParcel \/ ClockTicks

DeliverySpec == DeliveryInit /\ [][DeliveryNext]_deliveryVars

-----------------------------------------------------------------------------
(* Properties.                                                              *)

\* What a provider is told: the generic sentence, unless the definition of the release that
\* sends it opens the channel, by an override or by PUBLIC content, and the stored payload is
\* of a shape that definition reads.
OnlyOpenContentLeaves ==
  \A s \in Senders : sender[s].pc = "call" /\ sender[s].content = "detail" =>
    LET def == sender[s].def IN
    /\ def # Unknown /\ def.projects /\ parcel.shape \in def.accepts
    /\ \/ def.override[parcel.channel] = "detailed"
       \/ def.class = "PUBLIC" /\ def.override[parcel.channel] = "none"

\* However many attempts, lost answers and late ones, the e-mail provider sends one mail.
OneMailPerDelivery == Cardinality(mails) <= 1

\* Whoever holds the delivery took it up after the wait the provider last asked for.
WaitsAreKept == \A s \in Senders : sender[s].pc # "idle" /\ OwnsParcel(s) => sender[s].at >= floor

\* A connection is blocked only if the Bot API refused its own chat, through it: neither a
\* defect of our request nor the late refusal of an earlier connection disables it.
OnlyRefusedIsBlocked == connection.status = "BLOCKED" => connection.id \in refused

DeliveryIsSound ==
  OnlyOpenContentLeaves /\ OneMailPerDelivery /\ WaitsAreKept /\ OnlyRefusedIsBlocked
=============================================================================
