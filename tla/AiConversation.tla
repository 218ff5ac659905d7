--------------------------- MODULE AiConversation ---------------------------
(***************************************************************************)
(* One AI conversation as its transcript sees it: the owner submits runs   *)
(* with an idempotency key and artifacts, workers append the answers, an   *)
(* operator takes the conversation over, posts and gives it back, and      *)
(* readers page through it.                                                *)
(*                                                                         *)
(* Five transactions append a message or move the control: each locks the  *)
(* conversation row, decides, and writes.  The lock is what keeps message  *)
(* numbers, idempotency keys, artifact bindings and the control in step;   *)
(* here a transaction takes three steps, between which the others run.     *)
(* AiRun has the worker's loop; here a run only has its status.            *)
(***************************************************************************)
EXTENDS Naturals, Sequences, FiniteSets

CONSTANTS
  TalkRuns, TalkKeys, Files, People,
  TalkOwner,   \* the owner; the other people are super administrators
  Nobody,      \* controlledBy = BOT; also: no run, no key, no transaction
  Calls,       \* transactions at work
  ReadLimit,   \* query.limit of the transcript
  MaxSaid,     \* bound: messages
  MaxControl   \* bound: ownership generations

ASSUME TalkAssumption ==
  /\ TalkOwner \in People /\ ReadLimit \in Nat \ {0} /\ MaxSaid \in Nat /\ MaxControl \in Nat
  /\ Nobody \notin TalkRuns \cup TalkKeys \cup Files \cup People \cup Calls
  /\ {"user", "bot"} \cap People = {} \* authors of another kind

VARIABLES
  control,  \* the ai_conversations row
  talkRun,  \* ai_runs rows, with the artifacts the input refers to
  said,     \* ai_messages, in the order they were committed
  file,     \* ai_artifacts rows
  call,     \* what each transaction holds
  rowLock,  \* the transaction that holds the conversation row FOR UPDATE
  reader    \* a client paging through the transcript

talkVars == <<control, talkRun, said, file, call, rowLock, reader>>

\* "ENDED" stands for FAILED, CANCELLED and EXPIRED.
TalkStatus == {"NONE", "QUEUED", "RUNNING", "WAITING_APPROVAL", "COMPLETED", "ENDED"}
\* Slip: a run that waits for an approval has not read its artifacts yet.
RebindBlockedOnceRead == {"RUNNING", "COMPLETED"}
\* AI_ARTIFACT_REBIND_BLOCKED_STATUSES
RebindBlocked == {"QUEUED", "RUNNING", "WAITING_APPROVAL", "COMPLETED"}

Control == [by : People \cup {Nobody}, gen : 0 .. MaxControl]
TalkRun == [status : TalkStatus, gen : 0 .. MaxControl, key : TalkKeys \cup {Nobody},
            refs : SUBSET Files]
Message == [sequence : Nat, author : {"user", "bot"} \cup People, run : TalkRuns \cup {Nobody},
            control : Control] \* control: what the row said when the message was committed
ArtifactRow == [exists : BOOLEAN, run : TalkRuns \cup {Nobody}]
Work == {"submit", "answer", "post", "take", "release", "none"}
Call == [pc : {"idle", "begun", "locked", "decided"}, work : Work,
         who : People, run : TalkRuns \cup {Nobody}, key : TalkKeys \cup {Nobody},
         refs : SUBSET Files, sequence : Nat, collided : BOOLEAN]

TalkTypeOK ==
  /\ control \in Control /\ talkRun \in [TalkRuns -> TalkRun] /\ said \in Seq(Message)
  /\ file \in [Files -> ArtifactRow] /\ call \in [Calls -> Call]
  /\ rowLock \in Calls \cup {Nobody}
  /\ reader \in [cursor : Nat, got : Nat]

IdleCall == [pc |-> "idle", work |-> "none", who |-> TalkOwner, run |-> Nobody, key |-> Nobody,
             refs |-> {}, sequence |-> 0, collided |-> FALSE]

TalkInit ==
  /\ control = [by |-> Nobody, gen |-> 0]
  /\ talkRun = [r \in TalkRuns |-> [status |-> "NONE", gen |-> 0, key |-> Nobody, refs |-> {}]]
  /\ said = <<>>
  /\ file = [f \in Files |-> [exists |-> FALSE, run |-> Nobody]]
  /\ call = [c \in Calls |-> IdleCall]
  /\ rowLock = Nobody
  /\ reader = [cursor |-> 0, got |-> 0]

CallAt(c, pc) == call[c].pc = pc
Status(r) == talkRun[r].status
SetStatus(r, s) == talkRun' = [talkRun EXCEPT ![r].status = s]

----------------------------------------------------------------------------
(* Transactions: begin, lock the row, decide, write *)

BeginCall(c, new) ==
  /\ CallAt(c, "idle")
  /\ call' = [call EXCEPT ![c] = [new EXCEPT !.pc = "begun"]]
  /\ UNCHANGED <<control, talkRun, said, file, rowLock, reader>>

Submit(c, key, refs) == BeginCall(c, [IdleCall EXCEPT !.work = "submit", !.key = key, !.refs = refs])
Answer(c, r) == Status(r) = "RUNNING" /\ BeginCall(c, [IdleCall EXCEPT !.work = "answer", !.run = r])
\* authorize: the owner, or a super administrator with a fresh session and a reason.
Operate(c, work, h) == BeginCall(c, [IdleCall EXCEPT !.work = work, !.who = h])

\* Slip: the row is read without FOR UPDATE.
ReadConversation(c) == UNCHANGED rowLock
LockConversation(c) == rowLock = Nobody /\ rowLock' = c
Lock(c) ==
  /\ CallAt(c, "begun") /\ LockConversation(c)
  /\ call' = [call EXCEPT ![c].pc = "locked"]
  /\ UNCHANGED <<control, talkRun, said, file, reader>>

Unlocked(c) == IF rowLock = c THEN Nobody ELSE rowLock
\* The transaction is refused, fails or its process dies: nothing of it stays.
RollbackCall(c) ==
  /\ call[c].pc \in {"locked", "decided"} /\ ~call[c].collided
  /\ call' = [call EXCEPT ![c] = IdleCall] /\ rowLock' = Unlocked(c)
  /\ UNCHANGED <<control, talkRun, said, file, reader>>

NextSequence == Len(said)
Decided(c, r) == /\ call' = [call EXCEPT ![c].pc = "decided", ![c].sequence = NextSequence,
                                         ![c].run = r]
                 /\ UNCHANGED <<control, talkRun, said, file, rowLock, reader>>

Bindable(f) ==
  file[f].exists /\ file[f].run \in {Nobody} \cup {r \in TalkRuns : Status(r) \notin RebindBlocked}
KeyTaken(key) == key # Nobody /\ \E r \in TalkRuns : Status(r) # "NONE" /\ talkRun[r].key = key

\* isBotOwnershipStale
TalkStale(r) == control.by # Nobody \/ control.gen # talkRun[r].gen
\* Slip: whoever may operate may post while some human is in control.
AnyoneHolds(c) == control.by # Nobody
Holds(c) == control.by = call[c].who

DecideCall(c) ==
  /\ CallAt(c, "locked")
  /\ \/ /\ call[c].work = "submit" /\ control.by = Nobody /\ ~KeyTaken(call[c].key)
        /\ \A f \in call[c].refs : Bindable(f)
        /\ \E r \in TalkRuns : Status(r) = "NONE" /\ (\A d \in Calls : call[d].run # r) /\ Decided(c, r)
     \/ /\ call[c].work = "answer" /\ ~TalkStale(call[c].run)
        /\ Decided(c, call[c].run)
     \/ /\ call[c].work = "post" /\ Holds(c)
        /\ Decided(c, Nobody)
     \/ /\ call[c].work = "take" /\ control.by # call[c].who
        /\ control.by = Nobody \/ call[c].who = TalkOwner
        /\ Decided(c, Nobody)
     \/ /\ call[c].work = "release" /\ control.by # Nobody
        /\ control.by = call[c].who \/ call[c].who = TalkOwner
        /\ Decided(c, Nobody)

Append1(c, author, r) ==
  said' = Append(said, [sequence |-> call[c].sequence, author |-> author, run |-> r,
                        control |-> control])

\* runInTx: the run, its input message, and its artifacts bound to it.
WriteSubmit(c) ==
  LET r == call[c].run
  IN /\ talkRun' = [talkRun EXCEPT ![r] = [status |-> "QUEUED", gen |-> control.gen,
                                           key |-> call[c].key, refs |-> call[c].refs]]
     /\ file' = [f \in Files |-> IF f \in call[c].refs THEN [file[f] EXCEPT !.run = r] ELSE file[f]]
     /\ Append1(c, "user", r) /\ UNCHANGED control
\* A run the worker no longer owns is not completed, and nothing is said.
WriteAnswer(c) ==
  /\ Status(call[c].run) = "RUNNING"
  /\ SetStatus(call[c].run, "COMPLETED") /\ Append1(c, "bot", call[c].run)
  /\ UNCHANGED <<control, file>>
WritePost(c) == Append1(c, call[c].who, Nobody) /\ UNCHANGED <<control, talkRun, file>>
\* Queued runs, and those waiting for an approval, are superseded.
WriteTake(c) ==
  /\ control' = [by |-> call[c].who, gen |-> control.gen + 1]
  /\ talkRun' = [r \in TalkRuns |->
                   IF Status(r) \in {"QUEUED", "WAITING_APPROVAL"}
                   THEN [talkRun[r] EXCEPT !.status = "ENDED"] ELSE talkRun[r]]
  /\ UNCHANGED <<said, file>>
WriteRelease(c) ==
  /\ control' = [by |-> Nobody, gen |-> control.gen + 1]
  /\ UNCHANGED <<talkRun, said, file>>

\* The unique indexes on (conversation, sequence) and (conversation, key).
Collides(c) ==
  \/ call[c].work \in {"submit", "answer", "post"}
     /\ \E i \in DOMAIN said : said[i].sequence = call[c].sequence
  \/ call[c].work = "submit" /\ KeyTaken(call[c].key)

WriteCall(c) ==
  /\ CallAt(c, "decided") /\ ~call[c].collided
  /\ IF Collides(c)
     THEN /\ call' = [call EXCEPT ![c].collided = TRUE]
          /\ UNCHANGED <<control, talkRun, said, file, rowLock>>
     ELSE /\ \/ call[c].work = "submit" /\ WriteSubmit(c)
             \/ call[c].work = "answer" /\ WriteAnswer(c)
             \/ call[c].work = "post" /\ WritePost(c)
             \/ call[c].work = "take" /\ WriteTake(c)
             \/ call[c].work = "release" /\ WriteRelease(c)
          /\ call' = [call EXCEPT ![c] = IdleCall] /\ rowLock' = Unlocked(c)
  /\ UNCHANGED reader

----------------------------------------------------------------------------
(* What needs no lock on the conversation *)

\* AiArtifactUploadService.upload: the conversation is looked at before the
\* upload, the row is created after it.
UploadArtifact(f) ==
  /\ ~file[f].exists
  /\ file' = [file EXCEPT ![f].exists = TRUE]
  /\ UNCHANGED <<control, talkRun, said, call, rowLock, reader>>

\* AiRun's statuses, each step of which is one statement there.
MoveRun(r, s) ==
  /\ <<Status(r), s>> \in
       {<<"QUEUED", "RUNNING">>, <<"RUNNING", "QUEUED">>, <<"RUNNING", "WAITING_APPROVAL">>,
        <<"WAITING_APPROVAL", "QUEUED">>}
       \cup {"QUEUED", "RUNNING", "WAITING_APPROVAL"} \X {"ENDED"}
  /\ SetStatus(r, s)
  /\ UNCHANGED <<control, said, file, call, rowLock, reader>>

\* Slip: the page begins at the message the cursor stands for.
AfterOrAt(n) == {i \in DOMAIN said : said[i].sequence + 1 >= n}
\* getTranscript: what comes after the cursor, and one page of it, by number.
After(n) == {i \in DOMAIN said : said[i].sequence >= n}
FirstPage(rest) ==
  {i \in rest : Cardinality({j \in rest : said[j].sequence < said[i].sequence}) < ReadLimit}
ReadTranscript ==
  LET page == FirstPage(After(reader.cursor))
  IN /\ \E i \in page :
          /\ \A j \in page : said[j].sequence <= said[i].sequence
          /\ reader' = [cursor |-> said[i].sequence + 1, got |-> reader.got + Cardinality(page)]
     /\ UNCHANGED <<control, talkRun, said, file, call, rowLock>>

TalkNext ==
  \/ \E c \in Calls :
       \/ \E key \in TalkKeys \cup {Nobody}, refs \in SUBSET Files : Submit(c, key, refs)
       \/ \E r \in TalkRuns : Answer(c, r)
       \/ \E h \in People, work \in {"post", "take", "release"} : Operate(c, work, h)
       \/ Lock(c) \/ DecideCall(c) \/ RollbackCall(c)
       \/ Len(said) < MaxSaid /\ control.gen < MaxControl /\ WriteCall(c)
  \/ \E f \in Files : UploadArtifact(f)
  \/ \E r \in TalkRuns, s \in TalkStatus : MoveRun(r, s)
  \/ ReadTranscript

TalkSpec == TalkInit /\ [][TalkNext]_talkVars

----------------------------------------------------------------------------
(* Correctness *)

\* No writer of the transcript runs into a unique index: a submission, an
\* answer and an operator's message never take the same number, nor two
\* submissions the same key.
NobodyCollides == \A c \in Calls : ~call[c].collided

\* The bot speaks only for a run of the current generation and under nobody's
\* control; an operator's message is from whoever held the control.
SpeakersHadControl ==
  \A i \in DOMAIN said :
    /\ said[i].author = "bot" =>
         said[i].control.by = Nobody /\ said[i].control.gen = talkRun[said[i].run].gen
    /\ said[i].author \in People => said[i].control.by = said[i].author

\* A run that may still run, or that completed, owns every artifact its input
\* refers to: no later submission took one from it.
ArtifactsStayBound ==
  \A r \in TalkRuns : Status(r) \in RebindBlocked => \A f \in talkRun[r].refs : file[f].run = r

\* Who pages through the transcript meets every message before the cursor once.
TranscriptIsReadOnce ==
  reader.got = Cardinality({i \in DOMAIN said : said[i].sequence < reader.cursor})

TalkIsSound == NobodyCollides /\ SpeakersHadControl /\ ArtifactsStayBound /\ TranscriptIsReadOnce

=============================================================================
