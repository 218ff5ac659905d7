---------------------------- MODULE TelegramLink ----------------------------
(***************************************************************************)
(* Linking a Telegram chat: link tokens, the webhook that receives the     *)
(* updates of the bot, and the transaction that keeps a receipt of an      *)
(* update and links the chat of a /start command to the user whose token   *)
(* it carries.  Telegram delivers an update again until it is answered     *)
(* 200.                                                                    *)
(***************************************************************************)
EXTENDS Integers, FiniteSets

CONSTANTS
  Updates,     \* updates of the bot
  Chats,
  LinkTokens,  \* link tokens, each of the user who asked for it
  TgUsers,
  NoChat       \* not linked

ASSUME TelegramLinkAssumption ==
  NoChat \notin Chats /\ IsFiniteSet(Updates) /\ LinkTokens # {} /\ TgUsers # {}

VARIABLES
  link,      \* telegram_link_tokens: the user of each, and its state
  chatOf,    \* telegram_connections: the chat of each user
  receipts,  \* telegram_update_receipts
  update,    \* each update: what it carries, and its transaction
  bindings,  \* per link token: the transactions that have linked a chat with it
  moved      \* chats that have gone from one user to another without an unlink between

linkVars == <<link, chatOf, receipts, update, bindings, moved>>

UpdateRecord == [chat : Chats \cup {NoChat}, token : LinkTokens,
                 pc : {"unsent", "sent", "begun", "locked", "bound", "acked"},
                 decided : BOOLEAN]

LinkTypeOK ==
  /\ link \in [LinkTokens -> [user : TgUsers, state : {"none", "open", "consumed", "expired"}]]
  /\ chatOf \in [TgUsers -> Chats \cup {NoChat}]
  /\ receipts \subseteq Updates
  /\ update \in [Updates -> UpdateRecord]
  /\ bindings \in [LinkTokens -> 0 .. Cardinality(Updates)]
  /\ moved \subseteq Chats

LinkInit ==
  /\ link = [t \in LinkTokens |-> [user |-> CHOOSE u \in TgUsers : TRUE, state |-> "none"]]
  /\ chatOf = [u \in TgUsers |-> NoChat]
  /\ receipts = {}
  /\ update = [m \in Updates |-> [chat |-> NoChat, token |-> CHOOSE t \in LinkTokens : TRUE,
                                  pc |-> "unsent", decided |-> FALSE]]
  /\ bindings = [t \in LinkTokens |-> 0]
  /\ moved = {}

-----------------------------------------------------------------------------
(* Link tokens and connections.                                            *)

Owner(c) == {u \in TgUsers : chatOf[u] = c}
InTx(m) == update[m].pc \in {"begun", "locked", "bound"}

\* issueLink
IssueLink(u, t) ==
  /\ link[t].state = "none"
  /\ link' = [link EXCEPT ![t] = [user |-> u, state |-> "open"]]
  /\ UNCHANGED <<chatOf, receipts, update, bindings, moved>>

LinkExpires(t) ==
  /\ link[t].state = "open" /\ link' = [link EXCEPT ![t].state = "expired"]
  /\ UNCHANGED <<chatOf, receipts, update, bindings, moved>>

\* unlink deletes the connection, which waits for a transaction that is replacing it; what
\* becomes of the deliveries is NotificationDelivery's.
Unlink(u) ==
  /\ chatOf[u] # NoChat
  /\ \A m \in Updates : update[m].pc = "bound" => link[update[m].token].user # u
  /\ chatOf' = [chatOf EXCEPT ![u] = NoChat]
  /\ UNCHANGED <<link, receipts, update, bindings, moved>>

\* A user sends /start with a token to the bot, from any chat; an update without a command,
\* or one parseStartCommand refuses, carries no chat.
Send(m) ==
  /\ update[m].pc = "unsent"
  /\ \E t \in LinkTokens, c \in Chats \cup {NoChat} :
       /\ link[t].state # "none"
       /\ update' = [update EXCEPT ![m].chat = c, ![m].token = t, ![m].pc = "sent"]
  /\ UNCHANGED <<link, chatOf, receipts, bindings, moved>>

-----------------------------------------------------------------------------
(* bindFromUpdate, one transaction per delivery.                           *)

\* A delivery that finds the receipt of a committed one is answered 200 at once.
Redelivered(m) ==
  /\ update[m].pc = "sent" /\ m \in receipts
  /\ update' = [update EXCEPT ![m].pc = "acked"]
  /\ UNCHANGED <<link, chatOf, receipts, bindings, moved>>

\* insertReceipt: the row is the transaction's, and a delivery of the same update beside it
\* waits for its end.
InsertReceipt(m) ==
  /\ update[m].pc = "sent" /\ m \notin receipts
  /\ update' = [update EXCEPT ![m].pc = "begun"]
  /\ UNCHANGED <<link, chatOf, receipts, bindings, moved>>

\* Slip: the token is read without FOR UPDATE.
ReadToken(m) == link[update[m].token].state = "open"

\* lockToken: FOR UPDATE waits for the transaction that holds the row, and reads what it left.
LockToken(m) ==
  /\ link[update[m].token].state = "open"
  /\ \A n \in Updates \ {m} : update[n].pc \in {"locked", "bound"} => update[n].token # update[m].token

\* The row is locked and the chat is free, or the token's owner's; a chat is never moved.
LockEligibleToken(m) ==
  /\ update[m].pc = "begun" /\ update[m].chat # NoChat /\ LockToken(m)
  /\ Owner(update[m].chat) \subseteq {link[update[m].token].user}
  /\ update' = [update EXCEPT ![m].pc = "locked"]
  /\ UNCHANGED <<link, chatOf, receipts, bindings, moved>>

\* Nothing to do for this update: the receipt is committed, the token is kept.
CommitNothing(m) ==
  /\ update[m].pc = "begun"
  /\ \/ update[m].chat = NoChat
     \/ link[update[m].token].state # "open"
     \/ LockToken(m) /\ ~(Owner(update[m].chat) \subseteq {link[update[m].token].user})
  /\ receipts' = receipts \cup {m}
  /\ update' = [update EXCEPT ![m].pc = "sent", ![m].decided = TRUE]
  /\ UNCHANGED <<link, chatOf, bindings, moved>>

\* The unique index on chatId: the insert fails when another user's row with it is there.
ChatIsFree(m) == Owner(update[m].chat) \subseteq {link[update[m].token].user}

\* commitBind up to its commit; the insert waits for a transaction with the same chat or user,
\* and fails with P2002 when that has committed: 503, and everything is rolled back.
CommitBind(m) ==
  /\ update[m].pc = "locked"
  /\ \A n \in Updates \ {m} :
       update[n].pc = "bound" =>
         /\ update[n].chat # update[m].chat
         /\ link[update[n].token].user # link[update[m].token].user
  /\ update' = [update EXCEPT ![m].pc = IF ChatIsFree(m) THEN "bound" ELSE "sent"]
  /\ UNCHANGED <<link, chatOf, receipts, bindings, moved>>

\* The commit.
CommitLink(m) ==
  LET t == update[m].token IN
  /\ update[m].pc = "bound"
  /\ chatOf' = [u \in TgUsers |-> IF u = link[t].user THEN update[m].chat
                                  ELSE IF chatOf[u] = update[m].chat THEN NoChat ELSE chatOf[u]]
  /\ moved' = moved \cup {c \in {update[m].chat} : ~(Owner(c) \subseteq {link[t].user})}
  /\ link' = [link EXCEPT ![t].state = "consumed"]
  /\ bindings' = [bindings EXCEPT ![t] = @ + 1]
  /\ receipts' = receipts \cup {m}
  /\ update' = [update EXCEPT ![m].pc = "sent", ![m].decided = TRUE]

\* The process dies, or Postgres refuses; the answer is not 200.
Rollback(m) ==
  /\ InTx(m)
  /\ update' = [update EXCEPT ![m].pc = "sent"]
  /\ UNCHANGED <<link, chatOf, receipts, bindings, moved>>

LinkNext ==
  \/ \E t \in LinkTokens : LinkExpires(t) \/ \E u \in TgUsers : IssueLink(u, t)
  \/ \E u \in TgUsers : Unlink(u)
  \/ \E m \in Updates :
       \/ Send(m) \/ Redelivered(m) \/ InsertReceipt(m) \/ LockEligibleToken(m)
       \/ CommitNothing(m) \/ CommitBind(m) \/ CommitLink(m) \/ Rollback(m)

LinkSpec == LinkInit /\ [][LinkNext]_linkVars

-----------------------------------------------------------------------------
(* Properties.                                                             *)

\* A link token links one chat, however many updates carry it; no chat goes from one user to
\* another; and an update that is answered 200 has been decided on, whichever of its
\* deliveries failed, died or ran beside another.
LinksAreExact ==
  /\ \A t \in LinkTokens : bindings[t] <= 1
  /\ moved = {}
  /\ \A m \in Updates : update[m].pc = "acked" => update[m].decided
=============================================================================
