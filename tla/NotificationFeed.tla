-------------------------- MODULE NotificationFeed --------------------------
(***************************************************************************)
(* One user's notifications: what notify writes for the preferences it     *)
(* reads, the feed that a client pages through while rows come and go,     *)
(* mark-read, archive and the daily retention.                             *)
(*                                                                         *)
(* A note stands for an idempotency key and for the id of its row: the     *)
(* numbers order rows that were created at the same moment.  The type      *)
(* stands for the fingerprint, two payloads of one key for two types.      *)
(***************************************************************************)
EXTENDS Integers, FiniteSets

CONSTANTS
  Notes,      \* idempotency keys
  Types,      \* notification types in use
  Producers,  \* calls of notify
  PageLimit,  \* the limit of a feed query
  LastTime,   \* bound: moments at which rows are created
  MaxChoices  \* bound: changes of preferences

ASSUME FeedAssumption ==
  /\ Notes \subseteq Nat /\ IsFiniteSet(Notes) /\ Notes # {}
  /\ PageLimit \in Nat \ {0} /\ LastTime \in Nat \ {0} /\ MaxChoices \in Nat

VARIABLES
  feedRow,  \* the notifications table, with its deliveries
  master,   \* userSettings.notificationsEnabled
  choices,  \* notificationPreference rows
  changes,  \* how many preference changes there were
  producing,\* calls of notify
  clockNow, \* the database's clock
  pager,    \* a client that reads the whole feed, page by page
  reports   \* what calls of notify have reported for the present row

feedVars == <<feedRow, master, choices, changes, producing, clockNow, pager, reports>>

Channel == {"in_app", "email", "telegram"}
Category == {"account", "security"}

\* The three definitions; every supported channel is a default one.
Definition ==
  [profile  |-> [category |-> "account", supported |-> {"in_app"}, mandatory |-> {}],
   linked   |-> [category |-> "account", supported |-> {"in_app", "telegram"}, mandatory |-> {}],
   password |-> [category |-> "security", supported |-> Channel, mandatory |-> {"in_app", "email"}]]

ASSUME TypesAssumption == Types \subseteq DOMAIN Definition /\ Types # {}

\* capabilities: a channel of a category that some definition leaves to the user.
Overridable ==
  {c \in Category \X Channel :
     \E t \in Types : /\ Definition[t].category = c[1]
                      /\ c[2] \in Definition[t].supported \ Definition[t].mandatory}

Times == 0 .. LastTime

FeedRow == [there : BOOLEAN, type : Types, at : Times,
            deliveries : SUBSET Channel,  \* channels with a delivery row
            open : BOOLEAN,               \* an external delivery is not terminal
            read : BOOLEAN, archived : BOOLEAN]

Producing == [pc : {"new", "planned", "done"}, note : Notes, type : Types, since : Times,
              channels : SUBSET Channel, result : {"none", "created", "replayed", "conflict"}]

Pager == [pc : {"idle", "reading", "done"}, cursor : Times \X Nat,
          got : [Notes -> 0 .. 2], due : SUBSET Notes]

FeedTypeOK ==
  /\ feedRow \in [Notes -> FeedRow]
  /\ master \in BOOLEAN
  /\ choices \in [Overridable -> {"unset", "on", "off"}]
  /\ changes \in 0 .. MaxChoices
  /\ producing \in [Producers -> Producing]
  /\ clockNow \in Times
  /\ pager \in Pager
  /\ reports \in [Notes -> SUBSET SUBSET Channel]

Someone == CHOOSE t \in Types : TRUE
NoRow == [there |-> FALSE, type |-> Someone, at |-> 0, deliveries |-> {},
          open |-> FALSE, read |-> FALSE, archived |-> FALSE]

\* The first page starts after every row there can be.
Newest == <<LastTime, 1 + CHOOSE n \in Notes : \A m \in Notes : m <= n>>

FeedInit ==
  /\ feedRow = [n \in Notes |-> NoRow]
  /\ master = TRUE
  /\ choices = [c \in Overridable |-> "unset"]
  /\ changes = 0
  /\ producing = [p \in Producers |->
                    [pc |-> "new", note |-> CHOOSE n \in Notes : TRUE, type |-> Someone,
                     since |-> 0, channels |-> {}, result |-> "none"]]
  /\ clockNow = 0
  /\ pager = [pc |-> "idle", cursor |-> <<0, 0>>, got |-> [n \in Notes |-> 0], due |-> {}]
  /\ reports = [n \in Notes |-> {}]

There(n) == feedRow[n].there

-----------------------------------------------------------------------------
(* Preferences.                                                            *)

Choose == changes < MaxChoices /\ changes' = changes + 1

\* updatePreference: an upsert, refused for what no definition leaves open.
UpdatePreference(c, choice) ==
  /\ Choose
  /\ choices' = [choices EXCEPT ![c] = choice]
  /\ UNCHANGED <<feedRow, master, producing, clockNow, pager, reports>>

SetMasterToggle(enabled) ==
  /\ Choose
  /\ master' = enabled
  /\ UNCHANGED <<feedRow, choices, producing, clockNow, pager, reports>>

\* NotificationPreferenceResolver.resolve: mandatory, else the master toggle and the choice.
Resolve(t) ==
  LET d == Definition[t] IN
  {ch \in d.supported : ch \in d.mandatory \/ (master /\ choices[<<d.category, ch>>] # "off")}

-----------------------------------------------------------------------------
(* The producer.                                                           *)

\* buildPlan reads the preferences inside the transaction of the insert.
BuildPlan(p) ==
  /\ producing[p].pc = "new"
  /\ \E n \in Notes, t \in Types :
       producing' = [producing EXCEPT ![p] =
         [pc |-> "planned", note |-> n, type |-> t, since |-> clockNow,
          channels |-> Resolve(t), result |-> "none"]]
  /\ UNCHANGED <<feedRow, master, choices, changes, clockNow, pager, reports>>

Finish(p, result) == producing' = [producing EXCEPT ![p].pc = "done", ![p].result = result]
Reported(n, chs) == reports' = [reports EXCEPT ![n] = @ \cup {chs}]

\* Slip: a replay reports the channels it would use now.
ResolvedChannels(p) == producing[p].channels

\* deliveredChannels: what the first call persisted.
DeliveredChannels(p) == feedRow[producing[p].note].deliveries

\* write: insert-if-absent on the key, then the deliveries, in one transaction.
Write(p) ==
  LET n == producing[p].note  t == producing[p].type  chs == producing[p].channels IN
  /\ producing[p].pc = "planned"
  /\ IF There(n)
     THEN /\ UNCHANGED feedRow
          /\ IF feedRow[n].type = t
             THEN Finish(p, "replayed") /\ Reported(n, DeliveredChannels(p))
             ELSE Finish(p, "conflict") /\ UNCHANGED reports
     ELSE \* createdAt is taken between the start of the transaction and its end
          \E at \in producing[p].since .. clockNow :
          \* an unusable destination leaves a SKIPPED delivery
          \E open \in {FALSE} \cup {chs \ {"in_app"} # {}} :
            /\ feedRow' = [feedRow EXCEPT ![n] =
                 [there |-> TRUE, type |-> t, at |-> at, deliveries |-> chs, open |-> open,
                  read |-> FALSE, archived |-> FALSE]]
            /\ Finish(p, "created") /\ Reported(n, chs)
  /\ UNCHANGED <<master, choices, changes, clockNow, pager>>

\* The dispatcher brings the external deliveries to an end.
SettleExternal(n) ==
  /\ There(n) /\ feedRow[n].open
  /\ feedRow' = [feedRow EXCEPT ![n].open = FALSE]
  /\ UNCHANGED <<master, choices, changes, producing, clockNow, pager, reports>>

-----------------------------------------------------------------------------
(* The reader.                                                             *)

Visible(n) == There(n) /\ ~feedRow[n].archived

MarkRead(N) ==
  /\ \E n \in N : There(n) /\ ~feedRow[n].read
  /\ feedRow' = [n \in Notes |-> IF n \in N /\ There(n) THEN [feedRow[n] EXCEPT !.read = TRUE]
                                 ELSE feedRow[n]]
  /\ UNCHANGED <<master, choices, changes, producing, clockNow, pager, reports>>

\* markRead takes one row, read or not archived alike; markAllRead what the feed shows.
MarkOneRead(n) == MarkRead({n})
MarkAllRead == MarkRead({n \in Notes : Visible(n)})

Archive(n) ==
  /\ Visible(n)
  /\ feedRow' = [feedRow EXCEPT ![n].archived = TRUE]
  /\ pager' = [pager EXCEPT !.due = @ \ {n}]
  /\ UNCHANGED <<master, choices, changes, producing, clockNow, reports>>

\* Slip: rows of the cursor's own moment are taken for read.
EarlierMoment(n, c) == feedRow[n].at < c[1]

\* The keyset condition: createdAt DESC, id DESC, strictly after the cursor.
BeforeCursor(n, c) == feedRow[n].at < c[1] \/ (feedRow[n].at = c[1] /\ n < c[2])

\* getFeed without a cursor starts over.
OpenFeed ==
  /\ pager.pc = "idle"
  /\ pager' = [pager EXCEPT !.pc = "reading", !.cursor = Newest,
                            !.due = {n \in Notes : Visible(n)}]
  /\ UNCHANGED <<feedRow, master, choices, changes, producing, clockNow, reports>>

\* The order of the feed, the first rows of a set in it, and the last of those.
Newer(m, n) == feedRow[m].at > feedRow[n].at \/ (feedRow[m].at = feedRow[n].at /\ m > n)
PageOf(rest) == {n \in rest : Cardinality({m \in rest : Newer(m, n)}) < PageLimit}
LastOf(page) == CHOOSE n \in page : \A m \in page : m = n \/ Newer(m, n)

\* getFeed: limit + 1 rows after the cursor tell whether there are more.
GetFeed ==
  LET rest == {n \in Notes : Visible(n) /\ BeforeCursor(n, pager.cursor)}
      page == PageOf(rest)
  IN /\ pager.pc = "reading"
     /\ pager' = [pager EXCEPT
          !.got = [n \in Notes |-> IF n \in page /\ @[n] < 2 THEN @[n] + 1 ELSE @[n]],
          !.cursor = IF page = {} THEN @ ELSE <<feedRow[LastOf(page)].at, LastOf(page)>>,
          !.pc = IF rest = page THEN "done" ELSE @]
     /\ UNCHANGED <<feedRow, master, choices, changes, producing, clockNow, reports>>

-----------------------------------------------------------------------------
\* runRetention: archived, read or merely old, but never with an open delivery.
Retain(n) ==
  /\ There(n) /\ ~feedRow[n].open
  /\ feedRow' = [feedRow EXCEPT ![n] = NoRow]
  /\ pager' = [pager EXCEPT !.due = @ \ {n}]
  /\ reports' = [reports EXCEPT ![n] = {}]
  /\ UNCHANGED <<master, choices, changes, producing, clockNow>>

TimePasses ==
  /\ clockNow < LastTime
  /\ clockNow' = clockNow + 1
  /\ UNCHANGED <<feedRow, master, choices, changes, producing, pager, reports>>

FeedNext ==
  \/ TimePasses \/ MarkAllRead \/ OpenFeed \/ GetFeed
  \/ \E c \in Overridable, e \in {"on", "off"} : UpdatePreference(c, e)
  \/ \E e \in BOOLEAN : SetMasterToggle(e)
  \/ \E p \in Producers : BuildPlan(p) \/ Write(p)
  \/ \E n \in Notes : SettleExternal(n) \/ MarkOneRead(n) \/ Archive(n) \/ Retain(n)

FeedSpec == FeedInit /\ [][FeedNext]_feedVars

-----------------------------------------------------------------------------
\* Whoever pages through the feed gets what was in it all along exactly once, whatever is added,
\* archived or purged between the pages, rows of the same moment included
\* (notification-feed.service.ts, NotificationFeedService.getFeed).
PagesAreExact ==
  pager.pc = "done" => \A n \in pager.due : pager.got[n] = 1

\* A replay says what the first call persisted, though the preferences have changed since
\* (notifications.service.ts, NotificationsService.write).
ReplayReportsThePast == \A n \in Notes : reports[n] \subseteq {feedRow[n].deliveries}

FeedIsSound == PagesAreExact /\ ReplayReportsThePast

\* What the comment of NotificationsService.notify says: "an external-only notification does not
\* touch the feed".
FeedIsInAppOnly == \A n \in Notes : Visible(n) => "in_app" \in feedRow[n].deliveries

=============================================================================
