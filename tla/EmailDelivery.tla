---------------------------- MODULE EmailDelivery ----------------------------
(***************************************************************************)
(* The email queue: EmailService.queue, the BullMQ queue behind            *)
(* QueueService, the EmailProcessor of the workers, the mail provider with *)
(* its idempotency keys, and the operator's dashboard.                     *)
(*                                                                         *)
(* The queue redelivers: a worker that dies, or that holds its job longer  *)
(* than the lock, loses it to another worker while its own request to the  *)
(* provider may still be under way; and a provider that accepted a mail    *)
(* may still answer with a timeout.  A failure is written to Redis first   *)
(* and told in the worker afterwards, if it lives and Redis has answered.  *)
(***************************************************************************)
EXTENDS Naturals, FiniteSets

CONSTANTS
  Jobs,       \* job ids
  Mailers,    \* workers of the queue, one job at a time each
  NoJob,
  Attempts,   \* DEFAULT_JOB_OPTIONS.attempts
  MaxStalls,  \* maxStalledCount of the queue library
  MaxRetries  \* bound: retries an operator orders, per job

ASSUME EmailAssumption ==
  /\ NoJob \notin Jobs \cup Mailers /\ IsFiniteSet(Mailers)
  /\ Attempts \in Nat \ {0} /\ MaxStalls \in Nat /\ MaxRetries \in Nat

VARIABLES
  mailQueue, \* job id -> what Redis holds of it
  paused,    \* pauseQueue / resumeQueue
  mailer,    \* what each worker does
  mailed,    \* provider: idempotency keys of the mails that really went out
  extra,     \* jobs whose mail went out once more than once
  dead,      \* job id -> email.job.dead_letter events
  unheard    \* job id -> failures that ended it, of which its worker was not told

emailVars == <<mailQueue, paused, mailer, mailed, extra, dead, unheard>>

EmailTemplate == {"welcome", "password-reset", "email-verification", "org-invite", "notification"}
Queueable == {"welcome"}
Secret == {"password-reset", "email-verification", "org-invite"}
\* "foreign": another job name; "broken": a template that does not render.
Payload == {"good", "foreign", "malformed", "broken"}

JobState == {"absent", "waiting", "active", "completed", "failed"}
JobRecord == [state : JobState, template : EmailTemplate, payload : Payload,
              made : Nat, stalls : Nat, doomed : BOOLEAN, lock : Mailers \cup {NoJob},
              retried : Nat]
NoRecord == [state |-> "absent", template |-> "welcome", payload |-> "good", made |-> 0,
             stalls |-> 0, doomed |-> FALSE, lock |-> NoJob, retried |-> 0]
Reply == {"success", "retryable", "deterministic"}
MailerStep == {"idle", "read", "sending", "answered", "retrying", "ended"}
MailerRecord == [step : MailerStep, job : Jobs \cup {NoJob}, attempt : Nat, reply : Reply]
IdleMailer == [step |-> "idle", job |-> NoJob, attempt |-> 0, reply |-> "success"]

EmailTypeOK ==
  /\ mailQueue \in [Jobs -> JobRecord] /\ paused \in BOOLEAN
  /\ mailer \in [Mailers -> MailerRecord]
  /\ extra \subseteq Jobs /\ dead \in [Jobs -> Nat] /\ unheard \in [Jobs -> Nat]

\* Redis may hold jobs of another release: any template, any payload.
Leftover(t, d) == [NoRecord EXCEPT !.state = "waiting", !.template = t, !.payload = d]
Leftovers == {Leftover(t, d) : t \in {"welcome", "password-reset"}, d \in Payload}

EmailInit ==
  /\ mailQueue \in [Jobs -> {NoRecord} \cup Leftovers]
  /\ paused = FALSE /\ mailer = [w \in Mailers |-> IdleMailer]
  /\ mailed = {} /\ extra = {}
  /\ dead = [j \in Jobs |-> 0] /\ unheard = [j \in Jobs |-> 0]

JobIn(j, state) == mailQueue[j].state = state
MailerAt(w, step) == mailer[w].step = step
MailerJob(w) == mailer[w].job

----------------------------------------------------------------------------
(* Producer and operator *)

QueueMail(j, t) ==
  /\ JobIn(j, "absent") /\ t \in Queueable
  /\ mailQueue' = [mailQueue EXCEPT ![j] = [NoRecord EXCEPT !.state = "waiting", !.template = t]]
  /\ UNCHANGED <<paused, mailer, mailed, extra, dead, unheard>>

PauseQueue ==
  ~paused /\ paused' = TRUE /\ UNCHANGED <<mailQueue, mailer, mailed, extra, dead, unheard>>
ResumeQueue ==
  paused /\ paused' = FALSE /\ UNCHANGED <<mailQueue, mailer, mailed, extra, dead, unheard>>

\* The dashboard's cookie: a session's refresh token, and whose session it is.
BoardAccess(session, role) ==
  IF session # "live" THEN "unauthenticated"
  ELSE IF role = "SUPER_ADMIN" THEN "authorized" ELSE "forbidden"

\* A retry sends the failed job back; the attempts it made stay on it.
RetryJob(j) ==
  /\ JobIn(j, "failed") /\ mailQueue[j].retried < MaxRetries
  /\ \E session \in {"live", "revoked"}, role \in {"SUPER_ADMIN", "USER"} :
       BoardAccess(session, role) = "authorized"
  /\ mailQueue' = [mailQueue EXCEPT ![j].state = "waiting", ![j].stalls = 0, ![j].retried = @ + 1]
  /\ UNCHANGED <<paused, mailer, mailed, extra, dead, unheard>>

----------------------------------------------------------------------------
(* The queue library, modelled from how the code uses it *)

\* A worker takes a job; a doomed one it fails without processing it.
TakeJob(w, j) ==
  /\ MailerAt(w, "idle") /\ JobIn(j, "waiting") /\ ~paused
  /\ mailQueue' = [mailQueue EXCEPT ![j].state = "active", ![j].lock = w]
  /\ LET doomed == mailQueue[j].doomed
     IN mailer' = [mailer EXCEPT ![w] =
                     [step |-> IF doomed THEN "answered" ELSE "read", job |-> j,
                      attempt |-> mailQueue[j].made + 1,
                      reply |-> IF doomed THEN "deterministic" ELSE "success"]]
  /\ UNCHANGED <<paused, mailed, extra, dead, unheard>>

\* moveToCompleted and moveToFailed do nothing for a worker that lost the job's lock, and tell
\* it so.
TurnAway(w) ==
  /\ mailQueue[MailerJob(w)].lock # w
  /\ mailer' = [mailer EXCEPT ![w] = IdleMailer] /\ UNCHANGED <<mailQueue, unheard>>
Complete(w) ==
  /\ mailQueue[MailerJob(w)].lock = w
  /\ mailQueue' = [mailQueue EXCEPT ![MailerJob(w)].state = "completed",
                                    ![MailerJob(w)].lock = NoJob]
  /\ mailer' = [mailer EXCEPT ![w] = IdleMailer] /\ UNCHANGED unheard

\* The job is moved; the worker hears of it with the answer, or never does.
FailJob(w, reply) ==
  LET j == MailerJob(w)
      made == mailQueue[j].made + 1
      again == reply = "retryable" /\ made < Attempts
  IN /\ mailQueue[j].lock = w
     /\ mailQueue' = [mailQueue EXCEPT ![j].state = IF again THEN "waiting" ELSE "failed",
                                       ![j].made = made, ![j].doomed = FALSE, ![j].lock = NoJob]
     /\ \/ /\ mailer' = [mailer EXCEPT ![w].step = IF again THEN "retrying" ELSE "ended",
                                       ![w].reply = reply]
           /\ UNCHANGED unheard
        \/ /\ mailer' = [mailer EXCEPT ![w] = IdleMailer]
           /\ unheard' = [unheard EXCEPT ![j] = IF again THEN @ ELSE @ + 1]

\* The worker ends its turn with a job: the processor returned, or threw.
Settle(w, reply) ==
  /\ TurnAway(w) \/ (reply = "success" /\ Complete(w)) \/ (reply # "success" /\ FailJob(w, reply))
  /\ UNCHANGED <<paused, mailed, extra, dead>>

\* The lock of a job expires: its worker died, or was too slow.  With the last stall the job is
\* doomed, and the next worker that takes it is to fail it.
StallJob(j) ==
  /\ JobIn(j, "active")
  /\ LET last == mailQueue[j].stalls = MaxStalls
     IN mailQueue' = [mailQueue EXCEPT ![j].state = "waiting", ![j].lock = NoJob,
                                       ![j].stalls = IF last THEN @ ELSE @ + 1,
                                       ![j].doomed = @ \/ last]
  /\ UNCHANGED <<paused, mailer, mailed, extra, dead, unheard>>

CrashMailer(w) ==
  /\ ~MailerAt(w, "idle")
  /\ mailer' = [mailer EXCEPT ![w] = IdleMailer]
  /\ unheard' = [unheard EXCEPT ![MailerJob(w)] = IF MailerAt(w, "ended") THEN @ + 1 ELSE @]
  /\ UNCHANGED <<mailQueue, paused, mailed, extra, dead>>

----------------------------------------------------------------------------
(* EmailProcessor *)

\* Slip: a secret of an earlier release is sent like any other mail.
DiscardedIfForeign(j) == mailQueue[j].payload = "foreign"
\* A foreign job, or one with a secret, completes without a mail.
Discarded(j) == mailQueue[j].payload = "foreign" \/ mailQueue[j].template \in Secret

DiscardJob(w) ==
  /\ MailerAt(w, "read") /\ Discarded(MailerJob(w))
  /\ Settle(w, "success")
\* The schema knows the queueable templates only.
Valid(j) == mailQueue[j].payload # "malformed"
RejectJob(w) ==
  /\ MailerAt(w, "read") /\ ~Discarded(MailerJob(w))
  /\ ~Valid(MailerJob(w)) \/ mailQueue[MailerJob(w)].payload = "broken"
  /\ Settle(w, "deterministic")
CallProvider(w) ==
  /\ MailerAt(w, "read") /\ ~Discarded(MailerJob(w)) /\ mailQueue[MailerJob(w)].payload = "good"
  /\ mailer' = [mailer EXCEPT ![w].step = "sending"]
  /\ UNCHANGED <<mailQueue, paused, mailed, extra, dead, unheard>>

\* Slip: every attempt has a key of its own.
MailKeyPerAttempt(j, attempt) == <<"email", j, attempt>>
MailKey(j, attempt) == <<"email", j>>

\* The mails a worker's accepted request adds: the provider sends a key's mail once.
Delivered(w) ==
  LET j == MailerJob(w)
      key == MailKey(j, mailer[w].attempt)
  IN /\ mailed' = mailed \cup {<<j, key>>}
     /\ extra' = IF \E m \in mailed : m[1] = j /\ m[2] # key THEN extra \cup {j} ELSE extra

\* The answer of resend.emails.send: a thrown error is taken for a transient one.
AnswerSend(w, reply) ==
  /\ MailerAt(w, "sending")
  /\ \/ reply \in {"success", "retryable"} /\ Delivered(w)
     \/ reply \in {"retryable", "deterministic"} /\ UNCHANGED <<mailed, extra>>
  /\ mailer' = [mailer EXCEPT ![w].step = "answered", ![w].reply = reply]
  /\ UNCHANGED <<mailQueue, paused, dead, unheard>>

EndJob(w) == MailerAt(w, "answered") /\ Settle(w, mailer[w].reply)

\* Slip: the last attempt is taken for one that will be retried.
TerminalTooLate(reply, attemptsMade) == reply = "deterministic" \/ attemptsMade > Attempts
\* Whether the job will not be retried again, as the worker's own copy of the job has it.
Terminal(reply, attemptsMade) == reply = "deterministic" \/ attemptsMade >= Attempts

\* The worker's own `failed` event.
OnFailed(w) ==
  /\ mailer[w].step \in {"retrying", "ended"}
  /\ dead' = [dead EXCEPT ![MailerJob(w)] =
                IF Terminal(mailer[w].reply, mailer[w].attempt) THEN @ + 1 ELSE @]
  /\ mailer' = [mailer EXCEPT ![w] = IdleMailer]
  /\ UNCHANGED <<mailQueue, paused, mailed, extra, unheard>>

EmailNext ==
  \/ PauseQueue \/ ResumeQueue
  \/ \E j \in Jobs :
       \/ \E t \in EmailTemplate : QueueMail(j, t)
       \/ RetryJob(j) \/ StallJob(j)
       \/ \E w \in Mailers : TakeJob(w, j)
  \/ \E w \in Mailers :
       \/ CrashMailer(w) \/ DiscardJob(w) \/ RejectJob(w) \/ CallProvider(w) \/ EndJob(w)
       \/ OnFailed(w)
       \/ \E reply \in Reply : AnswerSend(w, reply)

EmailSpec == EmailInit /\ [][EmailNext]_emailVars

----------------------------------------------------------------------------
(* Correctness *)

\* Whatever the crashes, stalls, timeouts and retries, a job sends one mail at
\* most, and a job that completed sent it, unless it was to be discarded.
OneMailPerJob ==
  /\ extra = {}
  /\ \A j \in Jobs : JobIn(j, "completed") /\ ~Discarded(j) => \E m \in mailed : m[1] = j

\* A mail that carries a live token never leaves through the queue.
SecretsStayOut == \A m \in mailed : mailQueue[m[1]].template \notin Secret

\* A failure that ends a job raises the dead-letter event once, and one that is retried never
\* does, whoever failed the job and whatever other worker still holds a copy of it; a worker that
\* dies after the move, or has no answer to it, is the one way the event is lost.
Untold(j) == {w \in Mailers : MailerAt(w, "ended") /\ MailerJob(w) = j}

DeadLettersAreExact ==
  \A j \in Jobs : dead[j] + Cardinality(Untold(j)) + unheard[j]
                   = mailQueue[j].retried + (IF JobIn(j, "failed") THEN 1 ELSE 0)

EmailIsSound == OneMailPerJob /\ SecretsStayOut /\ DeadLettersAreExact

=============================================================================
