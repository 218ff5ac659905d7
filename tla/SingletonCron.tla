---------------------------- MODULE SingletonCron ----------------------------
(***************************************************************************)
(* The nightly clean-up and the retention of notifications: a job every    *)
(* replica schedules and only the holder of a Redis lock runs, and the     *)
(* clean-up an administrator starts beside it without the lock.  The two   *)
(* jobs have locks and tables of their own; a behaviour follows one.       *)
(*                                                                         *)
(* A job deletes the due rows of several tables side by side, and reports  *)
(* the tables whose deletion failed.  Rows go by other ways as well: by    *)
(* another run, by the cascade from a table to the next, by a user.        *)
(***************************************************************************)
EXTENDS Integers, FiniteSets

CONSTANTS
  Replicas,   \* worker replicas, and an administrator's request is one as well
  NoReplica,  \* a lock nobody holds
  Buckets,    \* tables a job cleans
  ExpiredRows, \* bound: rows of a table that are due at once
  BatchLimit, \* RETENTION_BATCH_LIMIT
  MaxCycles   \* RETENTION_MAX_CYCLES

ASSUME CronAssumption ==
  /\ NoReplica \notin Replicas
  /\ IsFiniteSet(ExpiredRows) /\ BatchLimit \in Nat \ {0} /\ MaxCycles \in Nat \ {0}

VARIABLES
  job,      \* the job the behaviour follows
  due,      \* rows of each table that are past their cutoff
  cronLock, \* the lock in Redis: the token of its holder
  cron      \* what each replica holds in memory

cronVars == <<job, due, cronLock, cron>>

CronRecord == [pc : {"idle", "running", "release"},
               scheduled : BOOLEAN,
               cycles : [Buckets -> 0 .. MaxCycles],
               state : [Buckets -> {"todo", "picked", "done", "failed"}],
               owed : [Buckets -> SUBSET ExpiredRows],   \* of the rows due when it began, those left
               picked : [Buckets -> SUBSET ExpiredRows], \* of a batch's rows, those left
               size : [Buckets -> 0 .. BatchLimit],      \* how many it had picked
               beaten : SUBSET Buckets,           \* others took rows of a batch
               overran : BOOLEAN,                 \* its lock has expired while it ran
               failures : SUBSET Buckets]

CronTypeOK ==
  /\ job \in {"none", "cleanup", "retention"}
  /\ due \in [Buckets -> SUBSET ExpiredRows]
  /\ cronLock \in Replicas \cup {NoReplica}
  /\ cron \in [Replicas -> CronRecord]

CronIdle == [pc |-> "idle", scheduled |-> TRUE, cycles |-> [b \in Buckets |-> 0],
             state |-> [b \in Buckets |-> "todo"], owed |-> [b \in Buckets |-> {}],
             picked |-> [b \in Buckets |-> {}], size |-> [b \in Buckets |-> 0],
             beaten |-> {}, overran |-> FALSE, failures |-> {}]

CronInit ==
  /\ job = "none"
  /\ due = [b \in Buckets |-> {}]
  /\ cronLock = NoReplica
  /\ cron = [r \in Replicas |-> CronIdle]

CronAt(r, pc) == cron[r].pc = pc
CronGo(r, c) == cron' = [cron EXCEPT ![r] = c]

Follow(j) == job = "none" /\ job' = j /\ UNCHANGED <<due, cronLock, cron>>

BecomeDue(b) ==
  /\ job # "none"
  /\ \E row \in ExpiredRows \ due[b] : due' = [due EXCEPT ![b] = @ \cup {row}]
  /\ UNCHANGED <<job, cronLock, cron>>

-----------------------------------------------------------------------------
(* The lock.                                                               *)

Begin(r, scheduled) ==
  CronGo(r, [CronIdle EXCEPT !.pc = "running", !.scheduled = scheduled, !.owed = due])

\* run: SET NX.  A replica that does not get the lock, or no answer, skips this night, which
\* is a step that changes nothing.
RunSingleton(r) ==
  /\ job # "none" /\ CronAt(r, "idle") /\ cronLock = NoReplica
  /\ cronLock' = r /\ Begin(r, TRUE)
  /\ UNCHANGED <<job, due>>

\* AdminService.runCleanup calls the job itself.
RunByAdmin(r) ==
  /\ job = "cleanup" /\ CronAt(r, "idle") /\ Begin(r, FALSE)
  /\ UNCHANGED <<job, due, cronLock>>

\* The lock is not renewed.
CronLockExpires ==
  /\ cronLock # NoReplica /\ cronLock' = NoReplica
  /\ cron' = [cron EXCEPT ![cronLock].overran = CronAt(cronLock, "running")]
  /\ UNCHANGED <<job, due>>

\* Slip: the key is deleted whoever's token it holds.
ReleaseAnyToken(r) == cronLock' = NoReplica

\* RELEASE_LOCK_SCRIPT compares the token and deletes in one script.
ReleaseToken(r) == cronLock' = IF cronLock = r THEN NoReplica ELSE cronLock

\* run's finally: a release that fails leaves the lock to its TTL.
ReleaseCron(r) ==
  /\ CronAt(r, "release")
  /\ IF cron[r].scheduled THEN ReleaseToken(r) \/ UNCHANGED cronLock ELSE UNCHANGED cronLock
  /\ CronGo(r, CronIdle)
  /\ UNCHANGED <<job, due>>

-----------------------------------------------------------------------------
(* The job.                                                                *)

\* Rows leave table b: nobody owes them any more, and no batch finds them.
Without(c, b, rows) == [c EXCEPT !.owed[b] = @ \ rows, !.picked[b] = @ \ rows]

Gone(b, rows) == [q \in Replicas |-> Without(cron[q], b, rows)]

\* A statement of r on table b: the rows go, and r holds the record c.
Statement(r, b, rows, c) ==
  /\ due' = [due EXCEPT ![b] = @ \ rows]
  /\ cron' = [Gone(b, rows) EXCEPT ![r] = Without(c, b, rows)]
  /\ UNCHANGED <<job, cronLock>>

Running(r, b, state) == CronAt(r, "running") /\ cron[r].state[b] = state

\* Clean-up: one DELETE for the table.
CleanupTask(r, b) ==
  /\ Running(r, b, "todo") /\ job = "cleanup"
  /\ Statement(r, b, cron[r].owed[b], [cron[r] EXCEPT !.state[b] = "done"])

\* Retention, DELETE ... WHERE id IN (SELECT ... LIMIT n): the subselect picks rows,
\* all that are left of the owed ones if it is short, and maybe some that became due since ...
SelectBatch(r, b) ==
  /\ Running(r, b, "todo") /\ job = "retention"
  /\ \E rows \in SUBSET due[b] :
       LET n == Cardinality(rows) IN
       /\ n <= BatchLimit /\ (n < BatchLimit => cron[r].owed[b] \subseteq rows)
       /\ CronGo(r, [cron[r] EXCEPT !.state[b] = "picked", !.picked[b] = rows, !.size[b] = n])
  /\ UNCHANGED <<job, due, cronLock>>

\* ... and the statement deletes those it still finds: it skips, at READ COMMITTED, what others
\* have deleted, and not what they have changed.  Batches go on until one is not full, or the
\* cycles are used up.
DeleteBatch(r, b) ==
  /\ Running(r, b, "picked")
  /\ \E n \in Cardinality(cron[r].picked[b]) .. cron[r].size[b] :
       LET over == n < BatchLimit \/ cron[r].cycles[b] + 1 = MaxCycles
           lost == IF n < cron[r].size[b] THEN {b} ELSE {}
       IN Statement(r, b, cron[r].picked[b],
                    [cron[r] EXCEPT !.state[b] = IF over THEN "done" ELSE "todo",
                                    !.cycles[b] = @ + 1, !.size[b] = 0,
                                    !.beaten = @ \cup lost])

\* Due rows go without a job: a notification's deliveries and their attempts with it, which the
\* attempts' own batches may have picked; what a user reads, archives or has deleted.
RowsLeave(b) ==
  /\ job # "none"
  /\ \E row \in due[b] : /\ due' = [due EXCEPT ![b] = @ \ {row}]
                         /\ cron' = Gone(b, {row})
  /\ UNCHANGED <<job, cronLock>>

TaskFails(r, b) ==
  /\ CronAt(r, "running") /\ cron[r].state[b] \in {"todo", "picked"}
  /\ CronGo(r, [cron[r] EXCEPT !.state[b] = "failed"])
  /\ UNCHANGED <<job, due, cronLock>>

Settled(c, b) == c.state[b] \in {"done", "failed"}

\* Slip: the job ends with the first failure, and the other tables are reported as clean.
FirstFailureEnds(r) ==
  \/ \A b \in Buckets : Settled(cron[r], b)
  \/ \E b \in Buckets : cron[r].state[b] = "failed"

\* Promise.allSettled waits for every table.
AllSettled(r) == \A b \in Buckets : Settled(cron[r], b)

Report(r) ==
  /\ CronAt(r, "running") /\ AllSettled(r)
  /\ CronGo(r, [cron[r] EXCEPT !.pc = "release",
                               !.failures = {b \in Buckets : cron[r].state[b] = "failed"}])
  /\ UNCHANGED <<job, due, cronLock>>

\* A replica dies; its lock stays until it expires.
CronCrash(r) ==
  /\ ~CronAt(r, "idle") /\ CronGo(r, CronIdle)
  /\ UNCHANGED <<job, due, cronLock>>

CronNext ==
  \/ Follow("cleanup") \/ Follow("retention") \/ CronLockExpires
  \/ \E b \in Buckets : BecomeDue(b) \/ RowsLeave(b)
  \/ \E r \in Replicas :
       \/ RunSingleton(r) \/ RunByAdmin(r)
       \/ \E b \in Buckets : CleanupTask(r, b) \/ SelectBatch(r, b) \/ DeleteBatch(r, b)
                             \/ TaskFails(r, b)
       \/ Report(r) \/ ReleaseCron(r) \/ CronCrash(r)

CronSpec == CronInit /\ [][CronNext]_cronVars

-----------------------------------------------------------------------------
(* Properties.                                                             *)

\* Of the replicas that run a scheduled job at one time, all but one have outlived their lock:
\* a run that is late and releases its lock never lets a third in beside the second.
OneRunAtATime ==
  \A q, r \in Replicas :
    (/\ q # r /\ CronAt(q, "running") /\ CronAt(r, "running")
     /\ cron[q].scheduled /\ cron[r].scheduled) => cron[q].overran \/ cron[r].overran

\* A job that reports leaves, in each table it does not report as failed, none of the rows that
\* were due when it began, whichever tables fail; the retention leaves some only beyond what its
\* cycles can delete, or where others took rows of a batch, which it mistakes for the last.
Excused(c, b) == job = "retention" /\ (c.cycles[b] = MaxCycles \/ b \in c.beaten)

ReportIsHonest ==
  \A r \in Replicas : CronAt(r, "release") =>
    \A b \in Buckets \ cron[r].failures : cron[r].owed[b] = {} \/ Excused(cron[r], b)

CronIsSound == OneRunAtATime /\ ReportIsHonest
=============================================================================
