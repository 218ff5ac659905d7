---------------------------- MODULE BackgroundMC ----------------------------
(***************************************************************************)
(* Small instances of what works behind the requests: the workers of the   *)
(* queues and the schedule, the notification channels, the storage, and an *)
(* AI conversation with the catalogue its runs are admitted by.  They      *)
(* share no state, so a behaviour moves one of them, the focus it begins   *)
(* with, and the others stay where they start: the states of the run are   *)
(* those of the components one by one.                                     *)
(***************************************************************************)
EXTENDS Avatar, SingletonCron, ObjectStorage, NotificationFeed, EmailDelivery, ChannelDelivery,
        AiConversation, AiAdmission, TLC

VARIABLE focus

\* A content of each class that may go out by every channel, and two of the registered types.
Open(class) == [class |-> class, supported |-> External, override |-> NoOverride,
                projects |-> TRUE, templates |-> External, accepts |-> {2}]
SomeDefinitions ==
  {AccountPasswordChanged(1), AccountProfileUpdated(1)}
  \cup {Open(class) : class \in {"PUBLIC", "PERSONAL", "SECRET"}}

\* Two releases that differ in how a tool is classed, and one draft an administrator publishes.
CONSTANTS gpt, opus, mock
SomeReleases == {[t \in Tools |-> "SENSITIVE"], [t \in Tools |-> "SAFE"]}
SomeDrafts == {[pins |-> <<gpt, opus>>, tools |-> {"pay"}, image |-> TRUE]}

\* The jobs one by one: the clean-up with a due row in each table, and the retention with several
\* in one table at a time.
CleanupNext == CronNext /\ job' # "retention" /\ \A b \in Buckets : Cardinality(due'[b]) <= 1
BatchesNext ==
  /\ CronNext /\ job' # "cleanup"
  /\ \E b \in Buckets : \A c \in Buckets \ {b} :
       /\ due'[c] = {}
       /\ \A r \in Replicas : cron'[r].state[c] # "failed"
                             /\ (cron'[r].state[c] = "todo" \/ Settled(cron'[r], b))

\* The channels twice: any definition and two links, or one of each for longer waits.
ChannelsNext == DeliveryNext /\ clock' < LastTick
RetriesNext ==
  /\ DeliveryNext /\ connection'.id <= 1
  /\ \A s \in Senders : sender'[s].def \in {AccountPasswordChanged(1), Unknown}

\* The assistants twice: all of it, or runs of one attempt and one round over fixed models for
\* longer histories.
AssistantNext ==
  AdmissionNext /\ Len(trail') + Cardinality({e \in Editors : editor'[e].pc # "idle"}) < MaxTrail
EditingNext ==
  /\ AdmissionNext /\ edits' = 0
  /\ \A r \in AdRuns : adRun'[r].attempts <= 1 /\ adRun'[r].calls <= 1

BackgroundInit ==
  /\ focus \in {"avatar", "cleanup", "batches", "storage", "feed", "email", "channels",
                "retries", "conversation", "admission", "editing"}
  /\ AvatarInit /\ CronInit /\ StorageInit /\ FeedInit /\ EmailInit /\ DeliveryInit /\ TalkInit
  /\ AdmissionInit

BackgroundNext ==
  /\ UNCHANGED focus
  /\ \/ /\ focus = "avatar" /\ AvatarNext
        /\ UNCHANGED <<cronVars, storageVars, feedVars, emailVars, deliveryVars, talkVars,
                      admissionVars>>
     \/ /\ focus = "cleanup" /\ CleanupNext
        /\ UNCHANGED <<avatarVars, storageVars, feedVars, emailVars, deliveryVars, talkVars,
                      admissionVars>>
     \/ /\ focus = "batches" /\ BatchesNext
        /\ UNCHANGED <<avatarVars, storageVars, feedVars, emailVars, deliveryVars, talkVars,
                      admissionVars>>
     \/ /\ focus = "storage" /\ StorageNext
        /\ UNCHANGED <<avatarVars, cronVars, feedVars, emailVars, deliveryVars, talkVars,
                      admissionVars>>
     \/ /\ focus = "feed" /\ FeedNext
        /\ UNCHANGED <<avatarVars, cronVars, storageVars, emailVars, deliveryVars, talkVars,
                      admissionVars>>
     \/ /\ focus = "email" /\ EmailNext
        /\ UNCHANGED <<avatarVars, cronVars, storageVars, feedVars, deliveryVars, talkVars,
                      admissionVars>>
     \/ /\ focus = "channels" /\ ChannelsNext
        /\ UNCHANGED <<avatarVars, cronVars, storageVars, feedVars, emailVars, talkVars,
                      admissionVars>>
     \/ /\ focus = "retries" /\ RetriesNext
        /\ UNCHANGED <<avatarVars, cronVars, storageVars, feedVars, emailVars, talkVars,
                      admissionVars>>
     \/ /\ focus = "conversation" /\ TalkNext
        /\ UNCHANGED <<avatarVars, cronVars, storageVars, feedVars, emailVars, deliveryVars,
                      admissionVars>>
     \/ /\ focus = "admission" /\ AssistantNext
        /\ UNCHANGED <<avatarVars, cronVars, storageVars, feedVars, emailVars, deliveryVars,
                      talkVars>>
     \/ /\ focus = "editing" /\ EditingNext
        /\ UNCHANGED <<avatarVars, cronVars, storageVars, feedVars, emailVars, deliveryVars,
                      talkVars>>

BackgroundSpec == BackgroundInit /\ [][BackgroundNext]_<<focus, avatarVars, cronVars,
                                                        storageVars, feedVars, emailVars,
                                                        deliveryVars, talkVars, admissionVars>>

\* The records of every component keep the shape their schemas give them.
BackgroundTypesOK ==
  /\ focus = "avatar" => AvatarTypeOK
  /\ focus \in {"cleanup", "batches"} => CronTypeOK
  /\ focus = "storage" => StorageTypeOK
  /\ focus = "feed" => FeedTypeOK
  /\ focus = "email" => EmailTypeOK
  /\ focus \in {"channels", "retries"} => DeliveryTypeOK
  /\ focus = "conversation" => TalkTypeOK
  /\ focus \in {"admission", "editing"} => AdmissionTypeOK

\* The others stand still, so a state is told by the component that moves.
MovingState ==
  CASE focus = "avatar" -> <<focus, avatarVars>>
    [] focus \in {"cleanup", "batches"} -> <<focus, cronVars>>
    [] focus = "storage" -> <<focus, storageVars>>
    [] focus = "feed" -> <<focus, feedVars>>
    [] focus = "email" -> <<focus, emailVars>>
    [] focus \in {"channels", "retries"} -> <<focus, deliveryVars>>
    [] focus = "conversation" -> <<focus, talkVars>>
    [] focus \in {"admission", "editing"} -> <<focus, admissionVars>>

\* What the users row points at is in the storage, and the storage's operations keep their word.
StorageIsSound == AvatarMatchesStorage /\ StorageKeepsItsPromises

\* The feed, the mail queue and the channels' deliverers.
NotificationsAreSound == FeedIsSound /\ EmailIsSound /\ DeliveryIsSound

\* The transcript of a conversation, and what its runs may use.
AssistantIsSound == TalkIsSound /\ AdmissionIsSound

\* Two replicas, callers or transactions are interchangeable in every component.
WorkerSymmetry == Permutations(Replicas)
=============================================================================
