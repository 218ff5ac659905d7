-------------------------- MODULE BackgroundProofs --------------------------
(***************************************************************************)
(* What the run of BackgroundMC shows of small instances, proved for every *)
(* value of the constants: an inductive invariant of each component, and   *)
(* the property it implies.                                                *)
(***************************************************************************)
EXTENDS BackgroundMC, FiniteSetTheorems, SequenceTheorems, WellFoundedInduction, TLAPS

-----------------------------------------------------------------------------
(* SingletonCron.                                                          *)

CronLockGuards(r) ==
  CronAt(r, "running") /\ cron[r].scheduled /\ ~cron[r].overran => cronLock = r

\* A table that is done owes nothing, but for the retention's excuses; one that is not has cycles
\* left; and a batch that is short has picked all that its table owes.
TableIsHonest(c, b) ==
  /\ c.state[b] = "done" => c.owed[b] = {} \/ Excused(c, b)
  /\ c.state[b] \in {"todo", "picked"} => c.cycles[b] < MaxCycles
  /\ c.state[b] = "picked" =>
       job = "retention" /\ (c.size[b] < BatchLimit => c.owed[b] \subseteq c.picked[b])

ReportsFailures(c) ==
  c.pc = "release" => /\ c.failures = {b \in Buckets : c.state[b] = "failed"}
                      /\ \A b \in Buckets : Settled(c, b)

CronKnows(c) == ReportsFailures(c) /\ \A b \in Buckets : TableIsHonest(c, b)

CronInv ==
  /\ CronTypeOK
  /\ \A r \in Replicas : CronLockGuards(r) /\ CronKnows(cron[r])

LEMMA CronIdleFits ==
  /\ CronIdle \in CronRecord
  /\ CronIdle.pc = "idle"
  /\ CronKnows(CronIdle)
  /\ CronKnows(CronIdle)'
<1>1. 0 \in 0 .. MaxCycles /\ 0 \in 0 .. BatchLimit /\ 0 < MaxCycles
  BY CronAssumption
<1>2. CronIdle \in CronRecord
  BY <1>1 DEF CronIdle, CronRecord
<1>3. /\ CronIdle.pc = "idle"
      /\ \A b \in Buckets : CronIdle.state[b] = "todo" /\ CronIdle.cycles[b] = 0
  BY DEF CronIdle
<1> QED
  BY <1>1, <1>2, <1>3 DEF CronKnows, ReportsFailures, TableIsHonest, Excused, Settled

LEMMA CronInitInv == CronInit => CronInv
<1> SUFFICES ASSUME CronInit PROVE CronInv
  OBVIOUS
<1>1. \A r \in Replicas : cron[r] = CronIdle
  BY DEF CronInit
<1>2. CronTypeOK
  BY CronIdleFits DEF CronInit, CronTypeOK
<1> QED
  BY <1>1, <1>2, CronIdleFits DEF CronInv, CronLockGuards, CronAt

\* One replica's memory changes, or none does; the tables stay.
LEMMA ReplicaMoves ==
  ASSUME CronInv, NEW r \in Replicas, NEW c \in CronRecord, CronGo(r, c),
         CronKnows(c)', job' = job, due' = due,
         cronLock' \in Replicas \cup {NoReplica},
         c.pc = "running" /\ c.scheduled /\ ~c.overran => cronLock' = r,
         \A q \in Replicas \ {r} : cronLock = q => cronLock' = q
  PROVE  CronInv'
<1>1. CronTypeOK'
  BY DEF CronInv, CronTypeOK, CronGo
<1>2. ASSUME NEW q \in Replicas PROVE CronLockGuards(q)' /\ CronKnows(cron[q])'
  <2>1. CASE q = r
    <3>1. cron'[q] = c
      BY <2>1 DEF CronInv, CronTypeOK, CronGo
    <3> QED
      BY <2>1, <3>1 DEF CronLockGuards, CronAt, CronKnows, ReportsFailures, TableIsHonest,
                        Excused, Settled
  <2>2. CASE q # r
    <3>1. cron'[q] = cron[q]
      BY <2>2 DEF CronInv, CronTypeOK, CronGo
    <3>2. CronLockGuards(q) /\ CronKnows(cron[q])
      BY DEF CronInv
    <3> QED
      BY <2>2, <3>1, <3>2 DEF CronLockGuards, CronAt, CronKnows, ReportsFailures, TableIsHonest,
                              Excused, Settled
  <2> QED
    BY <2>1, <2>2
<1> QED
  BY <1>1, <1>2 DEF CronInv

\* What rows that leave table b leave of a replica's memory.
Untouched(e, old, b, rows) ==
  /\ e \in CronRecord
  /\ e.pc = old.pc /\ e.scheduled = old.scheduled /\ e.overran = old.overran
  /\ e.failures = old.failures /\ e.state = old.state /\ e.cycles = old.cycles
  /\ e.size = old.size /\ e.beaten = old.beaten
  /\ \A c \in Buckets : /\ e.owed[c] = IF c = b THEN old.owed[c] \ rows ELSE old.owed[c]
                        /\ e.picked[c] = IF c = b THEN old.picked[c] \ rows ELSE old.picked[c]

LEMMA WithoutFits ==
  ASSUME NEW old \in CronRecord, NEW b \in Buckets, NEW rows
  PROVE  Untouched(Without(old, b, rows), old, b, rows)
<1> DEFINE o == [old.owed EXCEPT ![b] = old.owed[b] \ rows]
           k == [old.picked EXCEPT ![b] = old.picked[b] \ rows]
           e == [old EXCEPT !.owed = o, !.picked = k]
<1>1. /\ old.owed \in [Buckets -> SUBSET ExpiredRows]
      /\ old.picked \in [Buckets -> SUBSET ExpiredRows]
  BY DEF CronRecord
<1>2. /\ o \in [Buckets -> SUBSET ExpiredRows] /\ k \in [Buckets -> SUBSET ExpiredRows]
      /\ \A c \in Buckets : /\ o[c] = IF c = b THEN old.owed[c] \ rows ELSE old.owed[c]
                            /\ k[c] = IF c = b THEN old.picked[c] \ rows ELSE old.picked[c]
  BY <1>1
<1> HIDE DEF o, k
<1>3. /\ e \in CronRecord
      /\ e.pc = old.pc /\ e.scheduled = old.scheduled /\ e.overran = old.overran
      /\ e.failures = old.failures /\ e.state = old.state /\ e.cycles = old.cycles
      /\ e.size = old.size /\ e.beaten = old.beaten /\ e.owed = o /\ e.picked = k
  BY <1>2 DEF CronRecord
<1>4. e = Without(old, b, rows)
  BY DEF o, k, Without
<1> HIDE DEF e
<1> QED
  BY <1>2, <1>3, <1>4 DEF Untouched

\* Nobody's report is made wrong by rows that leave, the picked ones as well as the owed.
LEMMA WithoutKnows ==
  ASSUME NEW old, NEW b \in Buckets, NEW rows, NEW e, Untouched(e, old, b, rows)
  PROVE  /\ ReportsFailures(old) => ReportsFailures(e)
         /\ \A c \in Buckets : TableIsHonest(old, c) => TableIsHonest(e, c)
  BY DEF Untouched, ReportsFailures, TableIsHonest, Excused, Settled

\* Rows leave a table: what every replica that does not run the statement remembers.
LEMMA GoneKnows ==
  ASSUME CronInv, NEW q \in Replicas, NEW b \in Buckets, NEW rows, job' = job,
         cronLock' = cronLock, cron'[q] = Without(cron[q], b, rows)
  PROVE  cron'[q] \in CronRecord /\ CronLockGuards(q)' /\ CronKnows(cron[q])'
<1>1. PICK e : e = Without(cron[q], b, rows)
  OBVIOUS
<1>2. cron[q] \in CronRecord /\ CronLockGuards(q) /\ CronKnows(cron[q])
  BY DEF CronInv, CronTypeOK
<1>3. Untouched(e, cron[q], b, rows) /\ cron'[q] = e
  BY <1>1, <1>2, WithoutFits
<1>4. CronKnows(e)
  BY <1>2, <1>3, WithoutKnows DEF CronKnows
<1>5. CronKnows(e)'
  BY <1>4 DEF CronKnows, ReportsFailures, TableIsHonest, Excused, Settled
<1>6. CronLockGuards(q)'
  BY <1>2, <1>3 DEF CronLockGuards, CronAt, Untouched
<1> QED
  BY <1>3, <1>5, <1>6 DEF Untouched, CronKnows, ReportsFailures, TableIsHonest, Excused, Settled

\* A statement of one replica keeps every report honest, those of the others too.
LEMMA StatementKeepsCron ==
  ASSUME CronInv, NEW r \in Replicas, NEW b \in Buckets, NEW rows, NEW c \in CronRecord,
         Statement(r, b, rows, c), c.pc = "running", CronAt(r, "running"),
         c.scheduled = cron[r].scheduled, c.overran = cron[r].overran,
         \A d \in Buckets \ {b} : TableIsHonest(c, d),
         \A e : Untouched(e, c, b, rows) => TableIsHonest(e, b)
  PROVE  CronInv'
<1>t. cron \in [Replicas -> CronRecord] /\ job' = job /\ cronLock' = cronLock
  BY DEF CronInv, CronTypeOK, Statement
<1>1. /\ \A q \in Replicas \ {r} : cron'[q] = Without(cron[q], b, rows)
      /\ cron'[r] = Without(c, b, rows)
      /\ DOMAIN cron' = Replicas /\ cron' = [q \in Replicas |-> cron'[q]]
  <2>1. PICK d : d = Without(c, b, rows)
    OBVIOUS
  <2>2. cron' = [[q \in Replicas |-> Without(cron[q], b, rows)] EXCEPT ![r] = d]
    BY <2>1 DEF Statement, Gone
  <2> QED
    BY <2>1, <2>2
<1>2. ASSUME NEW q \in Replicas, q # r
      PROVE  cron'[q] \in CronRecord /\ CronLockGuards(q)' /\ CronKnows(cron[q])'
  BY <1>t, <1>1, <1>2, GoneKnows
<1>3. cron'[r] \in CronRecord /\ CronLockGuards(r)' /\ CronKnows(cron[r])'
  <2>1. PICK e : e = Without(c, b, rows)
    OBVIOUS
  <2>2. Untouched(e, c, b, rows) /\ cron'[r] = e
    BY <1>1, <2>1, WithoutFits
  <2>3. CronKnows(e)
    <3>1. ReportsFailures(e)
      BY <2>2 DEF Untouched, ReportsFailures
    <3>2. \A d \in Buckets : TableIsHonest(e, d)
      BY <2>2, WithoutKnows
    <3> QED
      BY <3>1, <3>2 DEF CronKnows
  <2>4. CronKnows(e)'
    BY <1>t, <2>3 DEF CronKnows, ReportsFailures, TableIsHonest, Excused, Settled
  <2>5. CronLockGuards(r)'
    <3>1. CronLockGuards(r)
      BY DEF CronInv
    <3> QED
      BY <1>t, <2>2, <3>1 DEF CronLockGuards, CronAt, Untouched
  <2> QED
    BY <2>2, <2>4, <2>5 DEF Untouched, CronKnows, ReportsFailures, TableIsHonest, Excused, Settled
<1>4. CronTypeOK'
  <2>1. cron' \in [Replicas -> CronRecord]
    BY <1>1, <1>2, <1>3
  <2>2. due' \in [Buckets -> SUBSET ExpiredRows]
    BY DEF CronInv, CronTypeOK, Statement
  <2> QED
    BY <1>t, <2>1, <2>2 DEF CronInv, CronTypeOK
<1> QED
  BY <1>2, <1>3, <1>4 DEF CronInv

\* What a statement writes of its own table.
Treated(e, old, b, st, n, lost) ==
  /\ e \in CronRecord
  /\ e.pc = old.pc /\ e.scheduled = old.scheduled /\ e.overran = old.overran
  /\ e.owed = old.owed /\ e.picked = old.picked /\ e.beaten = old.beaten \cup lost
  /\ e.state[b] = st /\ e.cycles[b] = n
  /\ \A c \in Buckets \ {b} : /\ e.state[c] = old.state[c] /\ e.cycles[c] = old.cycles[c]
                              /\ e.size[c] = old.size[c]

LEMMA TreatedFits ==
  ASSUME NEW old \in CronRecord, NEW b \in Buckets, NEW st \in {"todo", "done"},
         NEW n \in 0 .. MaxCycles, NEW m \in 0 .. BatchLimit, NEW lost \in SUBSET Buckets
  PROVE  Treated([old EXCEPT !.state[b] = st, !.cycles[b] = n, !.size[b] = m,
                             !.beaten = old.beaten \cup lost], old, b, st, n, lost)
<1> DEFINE s == [old.state EXCEPT ![b] = st]
           k == [old.cycles EXCEPT ![b] = n]
           z == [old.size EXCEPT ![b] = m]
           l == old.beaten \cup lost
           e == [old EXCEPT !.state = s, !.cycles = k, !.size = z, !.beaten = l]
<1>1. /\ old.state \in [Buckets -> {"todo", "picked", "done", "failed"}]
      /\ old.cycles \in [Buckets -> 0 .. MaxCycles] /\ old.size \in [Buckets -> 0 .. BatchLimit]
      /\ old.beaten \in SUBSET Buckets
  BY DEF CronRecord
<1>2. /\ s \in [Buckets -> {"todo", "picked", "done", "failed"}]
      /\ k \in [Buckets -> 0 .. MaxCycles] /\ z \in [Buckets -> 0 .. BatchLimit]
      /\ l \in SUBSET Buckets /\ s[b] = st /\ k[b] = n
      /\ \A c \in Buckets \ {b} : s[c] = old.state[c] /\ k[c] = old.cycles[c] /\ z[c] = old.size[c]
  BY <1>1
<1>3. e = [old EXCEPT !.state[b] = st, !.cycles[b] = n, !.size[b] = m,
                      !.beaten = old.beaten \cup lost]
  OBVIOUS
<1>4. l = old.beaten \cup lost
  OBVIOUS
<1> HIDE DEF s, k, z, l
<1>5. /\ e \in CronRecord
      /\ e.pc = old.pc /\ e.scheduled = old.scheduled /\ e.overran = old.overran
      /\ e.owed = old.owed /\ e.picked = old.picked /\ e.state = s /\ e.cycles = k /\ e.size = z
      /\ e.beaten = l
  BY <1>2 DEF CronRecord
<1> HIDE DEF e
<1> QED
  BY <1>2, <1>3, <1>4, <1>5 DEF Treated

\* The clean-up deletes what the table owes.
LEMMA CleanupKeepsCron ==
  ASSUME CronInv, NEW r \in Replicas, NEW b \in Buckets, CleanupTask(r, b)
  PROVE  CronInv'
<1> DEFINE old == cron[r]
<1>t. /\ old \in CronRecord /\ CronKnows(old) /\ CronAt(r, "running") /\ old.state[b] = "todo"
      /\ Statement(r, b, old.owed[b], [old EXCEPT !.state[b] = "done"])
  BY DEF CronInv, CronTypeOK, CleanupTask, Running
<1>1. PICK n \in 0 .. MaxCycles : n = old.cycles[b]
  BY <1>t DEF CronRecord
<1>2. PICK m \in 0 .. BatchLimit : m = old.size[b]
  BY <1>t DEF CronRecord
<1>3. PICK c \in CronRecord : /\ Statement(r, b, old.owed[b], c)
                              /\ Treated(c, old, b, "done", n, {})
  <2> DEFINE c == [old EXCEPT !.state[b] = "done", !.cycles[b] = n, !.size[b] = m,
                              !.beaten = old.beaten \cup {}]
  <2>1. Treated(c, old, b, "done", n, {})
    BY <1>t, TreatedFits
  <2>2. c = [old EXCEPT !.state[b] = "done"]
    BY <1>t, <1>1, <1>2 DEF CronRecord
  <2> HIDE DEF c
  <2> QED
    BY <1>t, <2>1, <2>2 DEF Treated
<1>4. PICK rows : rows = old.owed[b]
  OBVIOUS
<1>5. \A d \in Buckets \ {b} : TableIsHonest(c, d)
  BY <1>t, <1>3 DEF Treated, CronKnows, TableIsHonest, Excused
<1>6. \A e : Untouched(e, c, b, rows) => TableIsHonest(e, b)
  BY <1>3, <1>4 DEF Treated, Untouched, TableIsHonest
<1>7. /\ Statement(r, b, rows, c) /\ c.pc = "running"
      /\ c.scheduled = cron[r].scheduled /\ c.overran = cron[r].overran
  BY <1>t, <1>3, <1>4 DEF Treated, CronAt
<1> QED
  BY <1>t, <1>5, <1>6, <1>7, StatementKeepsCron

\* A batch: full, short because nothing else is owed, or short because others were faster.
LEMMA BatchKeepsCron ==
  ASSUME CronInv, NEW r \in Replicas, NEW b \in Buckets, DeleteBatch(r, b)
  PROVE  CronInv'
<1> DEFINE old == cron[r]
<1>t. /\ old \in CronRecord /\ CronKnows(old) /\ CronAt(r, "running") /\ old.state[b] = "picked"
      /\ TableIsHonest(old, b) /\ BatchLimit \in Nat /\ MaxCycles \in Nat
  BY CronAssumption DEF CronInv, CronTypeOK, CronKnows, DeleteBatch, Running
<1>m. /\ old.cycles[b] \in 0 .. MaxCycles /\ old.size[b] \in 0 .. BatchLimit
      /\ old.cycles[b] < MaxCycles /\ job = "retention"
      /\ old.size[b] < BatchLimit => old.owed[b] \subseteq old.picked[b]
  BY <1>t DEF CronRecord, TableIsHonest
<1>c. Cardinality(old.picked[b]) \in Nat
  <2>1. old.picked[b] \in SUBSET ExpiredRows
    BY <1>t DEF CronRecord
  <2> QED
    BY <2>1, FS_Subset, FS_CardinalityType, CronAssumption
<1>1. PICK k \in Cardinality(old.picked[b]) .. old.size[b] :
        LET over == k < BatchLimit \/ old.cycles[b] + 1 = MaxCycles
            lost == IF k < old.size[b] THEN {b} ELSE {}
        IN Statement(r, b, old.picked[b],
                     [old EXCEPT !.state[b] = IF over THEN "done" ELSE "todo",
                                 !.cycles[b] = @ + 1, !.size[b] = 0,
                                 !.beaten = @ \cup lost])
  BY DEF DeleteBatch
<1>2. PICK n \in 0 .. MaxCycles : n = old.cycles[b] + 1
  BY <1>t, <1>m
<1>3. PICK st \in {"todo", "done"} :
        st = IF k < BatchLimit \/ old.cycles[b] + 1 = MaxCycles THEN "done" ELSE "todo"
  OBVIOUS
<1>4. PICK lost \in SUBSET Buckets : lost = IF k < old.size[b] THEN {b} ELSE {}
  OBVIOUS
<1>5. PICK c \in CronRecord : /\ Statement(r, b, old.picked[b], c)
                              /\ Treated(c, old, b, st, n, lost)
  <2> DEFINE c == [old EXCEPT !.state[b] = st, !.cycles[b] = n, !.size[b] = 0,
                              !.beaten = old.beaten \cup lost]
  <2>1. Treated(c, old, b, st, n, lost)
    <3>1. 0 \in 0 .. BatchLimit
      BY <1>t
    <3> QED
      BY <1>t, <3>1, TreatedFits
  <2>2. Statement(r, b, old.picked[b], c)
    BY <1>1, <1>2, <1>3, <1>4
  <2> HIDE DEF c
  <2> QED
    BY <2>1, <2>2 DEF Treated
<1>6. PICK rows : rows = old.picked[b]
  OBVIOUS
<1>7. \A d \in Buckets \ {b} : TableIsHonest(c, d)
  BY <1>t, <1>5 DEF Treated, CronKnows, TableIsHonest, Excused
<1>8. ASSUME NEW e, Untouched(e, c, b, rows) PROVE TableIsHonest(e, b)
  <2>1. /\ e.state[b] = st /\ e.cycles[b] = n /\ e.beaten = old.beaten \cup lost
        /\ e.owed[b] = old.owed[b] \ rows
    BY <1>5, <1>8 DEF Treated, Untouched
  <2>2. CASE st = "todo"
    <3>1. n < MaxCycles
      BY <1>m, <1>t, <1>2, <1>3, <2>2
    <3> QED
      BY <2>1, <2>2, <3>1 DEF TableIsHonest
  <2>3. CASE st = "done"
    <3>1. \/ n = MaxCycles \/ k < old.size[b]
          \/ old.size[b] < BatchLimit
      BY <1>c, <1>m, <1>t, <1>2, <1>3, <2>3
    <3>2. e.owed[b] = {} \/ n = MaxCycles \/ b \in e.beaten
      BY <1>m, <1>4, <1>6, <2>1, <3>1
    <3> QED
      BY <1>m, <2>1, <2>3, <3>2 DEF TableIsHonest, Excused
  <2> QED
    BY <2>2, <2>3
<1>9. /\ Statement(r, b, rows, c) /\ c.pc = "running"
      /\ c.scheduled = cron[r].scheduled /\ c.overran = cron[r].overran
  BY <1>t, <1>5, <1>6 DEF Treated, CronAt
<1> QED
  BY <1>t, <1>7, <1>8, <1>9, StatementKeepsCron

\* The other steps of a replica.
LEMMA ReplicaKeepsCron ==
  ASSUME CronInv, NEW r \in Replicas,
         \/ RunSingleton(r) \/ RunByAdmin(r) \/ Report(r) \/ ReleaseCron(r) \/ CronCrash(r)
         \/ \E b \in Buckets : TaskFails(r, b) \/ SelectBatch(r, b)
  PROVE  CronInv'
<1> DEFINE old == cron[r]
<1>t. /\ old \in CronRecord /\ CronKnows(old) /\ CronLockGuards(r)
      /\ cronLock \in Replicas \cup {NoReplica} /\ due \in [Buckets -> SUBSET ExpiredRows]
      /\ NoReplica \notin Replicas
  BY CronAssumption DEF CronInv, CronTypeOK
<1>i. CronIdle \in CronRecord /\ CronIdle.pc = "idle" /\ CronKnows(CronIdle)'
  BY CronIdleFits
<1>1. ASSUME NEW s \in BOOLEAN, Begin(r, s), UNCHANGED <<job, due>>,
             cronLock' \in Replicas \cup {NoReplica}, s => cronLock' = r,
             \A q \in Replicas \ {r} : cronLock = q => cronLock' = q
      PROVE  CronInv'
  <2>1. PICK c \in CronRecord : /\ CronGo(r, c) /\ c.scheduled = s /\ c.pc = "running"
                                /\ c.state = CronIdle.state /\ c.cycles = CronIdle.cycles
    <3> DEFINE c == [CronIdle EXCEPT !.pc = "running", !.scheduled = s, !.owed = due]
    <3>1. /\ c \in CronRecord /\ c.scheduled = s /\ c.pc = "running"
          /\ c.state = CronIdle.state /\ c.cycles = CronIdle.cycles
      BY <1>i, <1>t DEF CronRecord
    <3>2. CronGo(r, c)
      BY <1>1 DEF Begin
    <3> HIDE DEF c
    <3> QED
      BY <3>1, <3>2
  <2>2. /\ \A b \in Buckets : CronIdle.state[b] = "todo" /\ CronIdle.cycles[b] = 0
        /\ 0 < MaxCycles
    BY CronAssumption DEF CronIdle
  <2>3. CronKnows(c)'
    BY <2>1, <2>2 DEF CronKnows, ReportsFailures, TableIsHonest, Excused, Settled
  <2> QED
    BY <1>1, <2>1, <2>3, ReplicaMoves
<1>2. CASE RunSingleton(r)
  BY <1>1, <1>2, <1>t DEF RunSingleton
<1>3. CASE RunByAdmin(r)
  BY <1>1, <1>3, <1>t DEF RunByAdmin
<1>4. CASE Report(r)
  <2>1. PICK c \in CronRecord :
          /\ CronGo(r, c) /\ c.pc = "release" /\ c.state = old.state /\ c.cycles = old.cycles
          /\ c.owed = old.owed /\ c.picked = old.picked /\ c.size = old.size
          /\ c.beaten = old.beaten /\ c.failures = {b \in Buckets : old.state[b] = "failed"}
    <3>1. PICK f \in SUBSET Buckets : f = {b \in Buckets : old.state[b] = "failed"}
      OBVIOUS
    <3> DEFINE c == [old EXCEPT !.pc = "release", !.failures = f]
    <3>2. /\ c \in CronRecord /\ c.pc = "release" /\ c.state = old.state
          /\ c.cycles = old.cycles /\ c.owed = old.owed /\ c.picked = old.picked
          /\ c.size = old.size /\ c.beaten = old.beaten /\ c.failures = f
      BY <1>t DEF CronRecord
    <3>3. CronGo(r, c)
      BY <1>4, <3>1 DEF Report
    <3> HIDE DEF c
    <3> QED
      BY <3>1, <3>2, <3>3
  <2>2. job' = job /\ due' = due /\ cronLock' = cronLock /\ AllSettled(r)
    BY <1>4 DEF Report
  <2>3. CronKnows(c)'
    <3>1. ReportsFailures(c)
      BY <2>1, <2>2 DEF ReportsFailures, AllSettled, Settled
    <3>2. \A b \in Buckets : TableIsHonest(c, b)'
      BY <1>t, <2>1, <2>2 DEF CronKnows, TableIsHonest, Excused
    <3> QED
      BY <3>1, <3>2 DEF CronKnows, ReportsFailures, TableIsHonest, Excused, Settled
  <2> QED
    BY <1>t, <2>1, <2>2, <2>3, ReplicaMoves
<1>5. CASE ReleaseCron(r)
  <2>1. \/ cronLock' = cronLock
        \/ cronLock = r /\ cronLock' = NoReplica
    BY <1>5 DEF ReleaseCron, ReleaseToken
  <2> QED
    BY <1>5, <1>i, <1>t, <2>1, ReplicaMoves DEF ReleaseCron
<1>6. CASE CronCrash(r)
  BY <1>6, <1>i, <1>t, ReplicaMoves DEF CronCrash
<1>7. CASE \E b \in Buckets : TaskFails(r, b)
  <2>1. PICK b \in Buckets : TaskFails(r, b)
    BY <1>7
  <2>2. PICK c \in CronRecord :
          /\ CronGo(r, c) /\ c.pc = old.pc /\ c.cycles = old.cycles /\ c.owed = old.owed
          /\ c.picked = old.picked /\ c.size = old.size /\ c.beaten = old.beaten
          /\ c.scheduled = old.scheduled /\ c.overran = old.overran
          /\ c.state[b] = "failed" /\ \A d \in Buckets \ {b} : c.state[d] = old.state[d]
    <3>1. PICK s \in [Buckets -> {"todo", "picked", "done", "failed"}] :
            s = [old.state EXCEPT ![b] = "failed"]
      BY <1>t DEF CronRecord
    <3>2. s[b] = "failed" /\ \A d \in Buckets \ {b} : s[d] = old.state[d]
      BY <1>t, <3>1 DEF CronRecord
    <3> DEFINE c == [old EXCEPT !.state = s]
    <3>3. /\ c \in CronRecord /\ c.pc = old.pc /\ c.cycles = old.cycles /\ c.owed = old.owed
          /\ c.picked = old.picked /\ c.size = old.size /\ c.beaten = old.beaten
          /\ c.scheduled = old.scheduled /\ c.overran = old.overran /\ c.state = s
      BY <1>t DEF CronRecord
    <3>4. CronGo(r, c)
      BY <2>1, <3>1 DEF TaskFails
    <3> HIDE DEF c
    <3> QED
      BY <3>2, <3>3, <3>4
  <2>3. job' = job /\ due' = due /\ cronLock' = cronLock /\ old.pc = "running"
    BY <2>1 DEF TaskFails, CronAt
  <2>4. CronKnows(c)'
    <3>1. ReportsFailures(c)
      BY <2>2, <2>3 DEF ReportsFailures
    <3>2. \A d \in Buckets : TableIsHonest(c, d)'
      BY <1>t, <2>2, <2>3 DEF CronKnows, TableIsHonest, Excused
    <3> QED
      BY <3>1, <3>2 DEF CronKnows, ReportsFailures, TableIsHonest, Excused, Settled
  <2>5. c.pc = "running" /\ c.scheduled /\ ~c.overran => cronLock' = r
    BY <1>t, <2>2, <2>3 DEF CronLockGuards, CronAt
  <2> QED
    BY <1>t, <2>2, <2>3, <2>4, <2>5, ReplicaMoves
<1>8. CASE \E b \in Buckets : SelectBatch(r, b)
  <2>1. PICK b \in Buckets : SelectBatch(r, b)
    BY <1>8
  <2>2. PICK rows \in SUBSET due[b] :
          LET n == Cardinality(rows) IN
          /\ n <= BatchLimit /\ (n < BatchLimit => old.owed[b] \subseteq rows)
          /\ CronGo(r, [old EXCEPT !.state[b] = "picked", !.picked[b] = rows, !.size[b] = n])
    BY <2>1 DEF SelectBatch
  <2>3. rows \in SUBSET ExpiredRows /\ Cardinality(rows) \in 0 .. BatchLimit
    <3>1. rows \in SUBSET ExpiredRows
      BY <1>t, <2>2
    <3>2. Cardinality(rows) \in Nat
      BY <3>1, FS_Subset, FS_CardinalityType, CronAssumption
    <3> QED
      BY <2>2, <3>1, <3>2, CronAssumption
  <2>4. PICK n \in 0 .. BatchLimit : n = Cardinality(rows)
    BY <2>3
  <2>5. PICK c \in CronRecord :
          /\ CronGo(r, c) /\ c.pc = old.pc /\ c.cycles = old.cycles /\ c.owed = old.owed
          /\ c.beaten = old.beaten /\ c.scheduled = old.scheduled /\ c.overran = old.overran
          /\ c.state[b] = "picked" /\ c.picked[b] = rows /\ c.size[b] = n
          /\ \A d \in Buckets \ {b} : /\ c.state[d] = old.state[d] /\ c.size[d] = old.size[d]
                                     /\ c.picked[d] = old.picked[d]
    <3> DEFINE s == [old.state EXCEPT ![b] = "picked"]
               k == [old.picked EXCEPT ![b] = rows]
               z == [old.size EXCEPT ![b] = n]
               c == [old EXCEPT !.state = s, !.picked = k, !.size = z]
    <3>1. /\ s \in [Buckets -> {"todo", "picked", "done", "failed"}]
          /\ k \in [Buckets -> SUBSET ExpiredRows] /\ z \in [Buckets -> 0 .. BatchLimit]
          /\ s[b] = "picked" /\ k[b] = rows /\ z[b] = n
          /\ \A d \in Buckets \ {b} : s[d] = old.state[d]
                                     /\ z[d] = old.size[d] /\ k[d] = old.picked[d]
      BY <1>t, <2>3 DEF CronRecord
    <3>2. CronGo(r, c)
      BY <2>2, <2>4
    <3> HIDE DEF s, k, z
    <3>3. /\ c \in CronRecord /\ c.pc = old.pc /\ c.cycles = old.cycles /\ c.owed = old.owed
          /\ c.beaten = old.beaten /\ c.scheduled = old.scheduled /\ c.overran = old.overran
          /\ c.state = s /\ c.picked = k /\ c.size = z
      BY <1>t, <3>1 DEF CronRecord
    <3> HIDE DEF c
    <3> QED
      BY <3>1, <3>2, <3>3
  <2>6. /\ job' = job /\ due' = due /\ cronLock' = cronLock
        /\ old.pc = "running" /\ old.state[b] = "todo" /\ job = "retention"
        /\ n < BatchLimit => old.owed[b] \subseteq rows
    BY <2>1, <2>2, <2>4 DEF SelectBatch, Running, CronAt
  <2>7. CronKnows(c)'
    <3>1. ReportsFailures(c)
      BY <2>5, <2>6 DEF ReportsFailures
    <3>2. \A d \in Buckets : TableIsHonest(c, d)'
      BY <1>t, <2>5, <2>6 DEF CronKnows, TableIsHonest, Excused
    <3> QED
      BY <3>1, <3>2 DEF CronKnows, ReportsFailures, TableIsHonest, Excused, Settled
  <2>8. c.pc = "running" /\ c.scheduled /\ ~c.overran => cronLock' = r
    BY <1>t, <2>5, <2>6 DEF CronLockGuards, CronAt
  <2> QED
    BY <1>t, <2>5, <2>6, <2>7, <2>8, ReplicaMoves
<1> QED
  BY <1>2, <1>3, <1>4, <1>5, <1>6, <1>7, <1>8

\* Time, rows that come and go, and the choice of the job.
LEMMA WorldKeepsCron ==
  ASSUME CronInv,
         \/ \E j \in {"cleanup", "retention"} : Follow(j)
         \/ CronLockExpires
         \/ \E b \in Buckets : BecomeDue(b) \/ RowsLeave(b)
         \/ UNCHANGED cronVars
  PROVE  CronInv'
<1>1. CASE \E j \in {"cleanup", "retention"} : Follow(j)
  <2>1. CronTypeOK'
    BY <1>1 DEF CronInv, CronTypeOK, Follow
  <2>2. ASSUME NEW r \in Replicas PROVE CronLockGuards(r)' /\ CronKnows(cron[r])'
    <3>1. CronLockGuards(r) /\ CronKnows(cron[r]) /\ job = "none"
          /\ cron' = cron /\ cronLock' = cronLock
      BY <1>1 DEF CronInv, Follow
    <3> QED
      BY <3>1 DEF CronLockGuards, CronAt, CronKnows, ReportsFailures, TableIsHonest, Excused,
                  Settled
  <2> QED
    BY <2>1, <2>2 DEF CronInv
<1>2. CASE CronLockExpires
  <2>1. PICK r \in Replicas : r = cronLock
    BY <1>2 DEF CronInv, CronTypeOK, CronLockExpires
  <2>2. PICK h \in BOOLEAN : h <=> CronAt(r, "running")
    OBVIOUS
  <2>3. PICK c \in CronRecord :
          /\ cron' = [cron EXCEPT ![r] = c] /\ c.overran = h /\ c.pc = cron[r].pc
          /\ c.state = cron[r].state /\ c.cycles = cron[r].cycles /\ c.owed = cron[r].owed
          /\ c.picked = cron[r].picked /\ c.size = cron[r].size /\ c.beaten = cron[r].beaten
          /\ c.failures = cron[r].failures
    <3> DEFINE c == [cron[r] EXCEPT !.overran = h]
    <3>1. cron[r] \in CronRecord
      BY DEF CronInv, CronTypeOK
    <3>2. /\ c \in CronRecord /\ c.overran = h /\ c.pc = cron[r].pc
          /\ c.state = cron[r].state /\ c.cycles = cron[r].cycles /\ c.owed = cron[r].owed
          /\ c.picked = cron[r].picked /\ c.size = cron[r].size /\ c.beaten = cron[r].beaten
          /\ c.failures = cron[r].failures
      BY <3>1 DEF CronRecord
    <3>3. CronAt(r, "running") = h
      BY <2>2, Zenon DEF CronAt
    <3>4. cron' = [cron EXCEPT ![r] = c]
      BY <1>2, <2>1, <3>3 DEF CronLockExpires
    <3> HIDE DEF c
    <3> QED
      BY <3>2, <3>4
  <2>4. CronKnows(c)'
    <3>1. CronKnows(cron[r]) /\ job' = job
      BY <1>2 DEF CronInv, CronLockExpires
    <3>2. ReportsFailures(c)
      BY <2>3, <3>1 DEF CronKnows, ReportsFailures, Settled
    <3>3. \A b \in Buckets : TableIsHonest(c, b)'
      BY <2>3, <3>1 DEF CronKnows, TableIsHonest, Excused
    <3> QED
      BY <3>2, <3>3 DEF CronKnows, ReportsFailures, TableIsHonest, Excused, Settled
  <2>5. c.pc = "running" /\ c.scheduled /\ ~c.overran => cronLock' = r
    BY <2>2, <2>3 DEF CronAt
  <2> QED
    BY <1>2, <2>1, <2>3, <2>4, <2>5, ReplicaMoves DEF CronLockExpires, CronGo
<1>3. CASE \E b \in Buckets : BecomeDue(b)
  <2>1. CronTypeOK'
    BY <1>3 DEF CronInv, CronTypeOK, BecomeDue
  <2>2. job' = job /\ cron' = cron /\ cronLock' = cronLock
    BY <1>3 DEF BecomeDue
  <2> QED
    BY <2>1, <2>2 DEF CronInv, CronLockGuards, CronAt, CronKnows, ReportsFailures, TableIsHonest,
                      Excused, Settled
<1>4. CASE \E b \in Buckets : RowsLeave(b)
  <2>1. PICK b \in Buckets : RowsLeave(b)
    BY <1>4
  <2>2. PICK gone \in due[b] : /\ due' = [due EXCEPT ![b] = @ \ {gone}]
                             /\ cron' = Gone(b, {gone})
    BY <2>1 DEF RowsLeave
  <2>3. job' = job /\ cronLock' = cronLock
    BY <2>1 DEF RowsLeave
  <2>4. \A q \in Replicas : cron'[q] = Without(cron[q], b, {gone})
    BY <2>2 DEF Gone
  <2>5. ASSUME NEW q \in Replicas
        PROVE  cron'[q] \in CronRecord /\ CronLockGuards(q)' /\ CronKnows(cron[q])'
    BY <2>3, <2>4, GoneKnows
  <2>6. CronTypeOK'
    <3>1. cron' \in [Replicas -> CronRecord]
      BY <2>2, <2>5 DEF Gone
    <3>2. due' \in [Buckets -> SUBSET ExpiredRows]
      BY <2>2 DEF CronInv, CronTypeOK
    <3> QED
      BY <2>3, <3>1, <3>2 DEF CronInv, CronTypeOK
  <2> QED
    BY <2>5, <2>6 DEF CronInv
<1>5. CASE UNCHANGED cronVars
  BY <1>5 DEF cronVars, CronInv, CronTypeOK, CronLockGuards, CronAt, CronKnows, ReportsFailures,
              TableIsHonest, Excused, Settled
<1> QED
  BY <1>1, <1>2, <1>3, <1>4, <1>5

\* Every state of the jobs: their types, whom the lock guards, what a table that is done owes,
\* and what a short batch has picked.
THEOREM CronInvariant == CronSpec => []CronInv
<1>1. CronInv /\ [CronNext]_cronVars => CronInv'
  BY CleanupKeepsCron, BatchKeepsCron, ReplicaKeepsCron, WorldKeepsCron DEF CronNext
<1> QED
  BY <1>1, CronInitInv, PTL DEF CronSpec

\* CronIsSound: of two scheduled runs at one time, one has outlived its lock; and a job leaves
\* none of the rows that were due when it began, in the tables it does not report, but for those
\* beyond the retention's cycles and those of a table where others took rows of a batch, however
\* the statements of overlapping runs and the cascades fall.
THEOREM CronHolds == CronSpec => []CronIsSound
<1>1. CronInv => OneRunAtATime
  BY DEF CronInv, CronTypeOK, CronLockGuards, OneRunAtATime
<1>2. CronInv => ReportIsHonest
  <2> SUFFICES ASSUME CronInv, NEW r \in Replicas, CronAt(r, "release"),
                      NEW b \in Buckets \ cron[r].failures
               PROVE  cron[r].owed[b] = {} \/ Excused(cron[r], b)
    BY DEF ReportIsHonest
  <2>1. CronKnows(cron[r]) /\ cron[r] \in CronRecord
    BY DEF CronInv, CronTypeOK
  <2>2. cron[r].state[b] = "done"
    BY <2>1 DEF CronKnows, ReportsFailures, CronAt, CronRecord, Settled
  <2> QED
    BY <2>1, <2>2 DEF CronKnows, TableIsHonest, Excused
<1> QED
  BY <1>1, <1>2, CronInvariant, PTL DEF CronIsSound

-----------------------------------------------------------------------------
(* Avatar.                                                                 *)

Image(v) == <<v, "avatar-256">>

\* What each operation may count on, at each of its steps: a generation once it has read one, at
\* most the next; the row once it has published; and what its sweep has listed.
OpFits(o) ==
  LET r == op[o] IN
  /\ r.pc \in {"new", "acquire", "read"} => r.gen = 0
  /\ r.pc \in {"original", "derive", "publish", "invalidate", "list", "delete", "clear", "rollback"} =>
       r.gen > 0
  /\ r.gen <= row.gen + 1
  /\ r.pc \in {"original", "derive", "publish", "rollback"} => r.kind = "set" /\ o \notin published
  /\ r.pc \in {"new", "acquire", "read"} => o \notin published
  /\ r.pc \in {"invalidate", "list", "delete"} /\ r.kind = "set" => o \in published
  /\ r.pc = "clear" => r.kind = "remove"

\* What a sweep has listed is older than it; and a removal has listed, and then deleted, every
\* image that was published before it.
SweepFits(o) ==
  LET r == op[o] IN
  /\ r.pc = "delete" => \A k \in r.keys : 0 < op[k[1]].gen /\ op[k[1]].gen < r.gen
  /\ r.pc = "delete" /\ r.kind = "remove" =>
       /\ o \in swept
       /\ \A v \in published : op[v].gen < r.gen /\ Image(v) \in objects => Image(v) \in r.keys
  /\ r.pc = "clear" => \A v \in published : op[v].gen < r.gen => Image(v) \notin objects

\* An image that is about to be published, or is, and is gone, has been swept for a later one.
ImageFits(v) ==
  (op[v].pc = "publish" \/ row.url = v) /\ Image(v) \notin objects =>
    \E o \in AvatarOps : op[o].gen > op[v].gen /\ (o \in swept \/ row.gen >= op[o].gen)

\* The row is of what was published last; every generation has been claimed by an operation.
RowFits ==
  /\ row.url # NoOp => row.url \in published /\ op[row.url].gen = row.gen
  /\ row.url = NoOp => \A v \in published : Image(v) \notin objects
  /\ \A g \in 1 .. row.gen : \E o \in AvatarOps : op[o].gen = g
  /\ \A v \in published : 0 < op[v].gen /\ op[v].gen <= row.gen
  /\ \A k \in objects : 0 < op[k[1]].gen

\* The inductive invariant.
AvatarInv ==
  /\ AvatarTypeOK /\ RowFits
  /\ \A o \in AvatarOps : OpFits(o) /\ SweepFits(o) /\ ImageFits(o)

-----------------------------------------------------------------------------

OpPcs == {"new", "acquire", "read", "original", "derive", "publish", "invalidate", "list",
          "delete", "clear", "rollback", "release", "done", "dead"}

LEMMA GenerationIsNat == \A g \in Generation : g \in Nat
<1>1. Cardinality(AvatarOps) \in Nat
  BY AvatarAssumption, FS_CardinalityType
<1> QED
  BY <1>1 DEF Generation

LEMMA GensAreNat ==
  ASSUME AvatarTypeOK
  PROVE  row.gen \in Nat /\ \A o \in AvatarOps : op[o].gen \in Nat
BY GenerationIsNat DEF AvatarTypeOK, OpRecord

\* A step of one operation, as a new record.
LEMMA OpGoes ==
  ASSUME AvatarTypeOK, NEW o \in AvatarOps, NEW pc \in OpPcs, op' = [op EXCEPT ![o].pc = pc]
  PROVE  \E r \in OpRecord : /\ op' = [op EXCEPT ![o] = r]
                             /\ r.pc = pc /\ r.kind = op[o].kind /\ r.gen = op[o].gen
                             /\ r.keys = op[o].keys
<1> DEFINE n == [op[o] EXCEPT !.pc = pc]
<1>1. /\ n \in OpRecord /\ n.pc = pc /\ n.kind = op[o].kind /\ n.gen = op[o].gen
      /\ n.keys = op[o].keys
  <2>1. op[o] \in OpRecord
    BY DEF AvatarTypeOK
  <2> QED
    BY <2>1 DEF OpRecord, OpPcs
<1>2. op' = [op EXCEPT ![o] = n]
  OBVIOUS
<1>3. PICK r \in OpRecord : r = n
  BY <1>1
<1> HIDE DEF n
<1> QED
  BY <1>1, <1>2, <1>3

LEMMA OpChanges ==
  ASSUME AvatarTypeOK, NEW o \in AvatarOps, NEW r \in OpRecord, op' = [op EXCEPT ![o] = r]
  PROVE  /\ op' \in [AvatarOps -> OpRecord] /\ op'[o] = r
         /\ \A u \in AvatarOps \ {o} : op'[u] = op[u]
BY DEF AvatarTypeOK

\* What a step of operation o does to what the others count on: generations stay, the row and what
\* is published only advance, no published image comes back, and an image of another goes only
\* before a later generation, by a removal or once that has been published.
WorldMoves(o) ==
  /\ op[o].gen > 0 => op'[o].gen = op[o].gen
  /\ row'.gen >= row.gen /\ row'.url \in {row.url, o, NoOp}
  /\ published \subseteq published'
  /\ \A v \in published' \ published : v = o /\ row.gen < op[o].gen
  /\ swept \subseteq swept'
  /\ \A v \in published : Image(v) \in objects' => Image(v) \in objects
  /\ \A v \in AvatarOps \ {o} : Image(v) \in objects /\ Image(v) \notin objects' =>
       op[v].gen < op[o].gen /\ (o \in swept \/ row.gen >= op[o].gen)

LEMMA GensStay ==
  ASSUME AvatarTypeOK, AvatarTypeOK', NEW o \in AvatarOps, NEW r \in OpRecord,
         op' = [op EXCEPT ![o] = r], WorldMoves(o)
  PROVE  \A u \in AvatarOps : op[u].gen > 0 => op'[u].gen = op[u].gen
BY OpChanges DEF WorldMoves

\* The others go on: what they know of the row, of their sweep and of their image stays true.
LEMMA OthersFit ==
  ASSUME AvatarInv, AvatarTypeOK', NEW o \in AvatarOps, NEW r \in OpRecord,
         op' = [op EXCEPT ![o] = r], WorldMoves(o), NEW u \in AvatarOps \ {o}
  PROVE  OpFits(u)' /\ SweepFits(u)' /\ ImageFits(u)'
<1>t. AvatarTypeOK /\ RowFits /\ OpFits(u) /\ SweepFits(u) /\ ImageFits(u)
  BY DEF AvatarInv
<1>n. /\ row.gen \in Nat /\ \A v \in AvatarOps : op[v].gen \in Nat
      /\ row'.gen \in Nat /\ \A v \in AvatarOps : op'[v].gen \in Nat
  <2>1. row.gen \in Nat /\ \A v \in AvatarOps : op[v].gen \in Nat
    BY <1>t, GensAreNat
  <2>2. (row.gen \in Nat /\ \A v \in AvatarOps : op[v].gen \in Nat)'
    BY GenerationIsNat DEF AvatarTypeOK, OpRecord
  <2> QED
    BY <2>1, <2>2
<1>1. op'[u] = op[u]
  BY <1>t, OpChanges
<1>2. \A v \in AvatarOps : op[v].gen > 0 => op'[v].gen = op[v].gen
  BY <1>t, GensStay
<1>w. /\ row'.gen >= row.gen /\ row'.url \in {row.url, o, NoOp}
      /\ published \subseteq published'
      /\ \A v \in published' \ published : v = o /\ row.gen < op[o].gen
      /\ swept \subseteq swept'
      /\ \A v \in published : Image(v) \in objects' => Image(v) \in objects
      /\ \A v \in AvatarOps \ {o} : Image(v) \in objects /\ Image(v) \notin objects' =>
           op[v].gen < op[o].gen /\ (o \in swept \/ row.gen >= op[o].gen)
  BY DEF WorldMoves
<1>p. published \subseteq AvatarOps /\ published' \subseteq AvatarOps
  BY <1>t DEF AvatarTypeOK
<1>3. OpFits(u)'
  <2>1. u \in published' <=> u \in published
    BY <1>w
  <2> QED
    BY <1>t, <1>n, <1>1, <1>w, <2>1 DEF OpFits
<1>4. SweepFits(u)'
  <2>1. ASSUME op[u].pc = "delete", NEW k \in op[u].keys
        PROVE  0 < op'[k[1]].gen /\ op'[k[1]].gen < op[u].gen
    <3>1. k[1] \in AvatarOps
      <4>1. op[u] \in OpRecord
        BY <1>t DEF AvatarTypeOK
      <4>2. op[u].keys \subseteq AvatarOps \X Part
        BY <4>1 DEF OpRecord
      <4> QED
        BY <2>1, <4>2
    <3>2. 0 < op[k[1]].gen /\ op[k[1]].gen < op[u].gen
      BY <1>t, <2>1 DEF SweepFits
    <3> QED
      BY <1>2, <3>1, <3>2
  <2>2. ASSUME NEW v \in published', op'[v].gen < op[u].gen
        PROVE  v \in published /\ op[v].gen < op[u].gen
    <3>1. CASE v \in published
      <4>1. op[v].gen > 0
        BY <1>t, <3>1 DEF RowFits
      <4> QED
        BY <1>2, <1>p, <2>2, <3>1, <4>1
    <3>2. CASE v \notin published
      <4>1. v = o /\ row.gen < op[o].gen
        BY <1>w, <3>2
      <4>2. op'[o].gen = op[o].gen
        BY <1>2, <1>n, <4>1
      <4>3. op[u].gen <= row.gen + 1
        BY <1>t DEF OpFits
      <4> QED
        BY <1>n, <2>2, <4>1, <4>2, <4>3
    <3> QED
      BY <3>1, <3>2
  <2>3. op[u].pc = "delete" /\ op[u].kind = "remove" =>
          /\ u \in swept'
          /\ \A v \in published' : op'[v].gen < op[u].gen /\ Image(v) \in objects' => Image(v) \in op[u].keys
    BY <1>t, <1>w, <2>2 DEF SweepFits
  <2>4. op[u].pc = "clear" => \A v \in published' : op'[v].gen < op[u].gen => Image(v) \notin objects'
    BY <1>t, <1>w, <2>2 DEF SweepFits
  <2> QED
    BY <1>1, <2>1, <2>3, <2>4 DEF SweepFits, Image
<1>5. ImageFits(u)'
  <2> SUFFICES ASSUME op[u].pc = "publish" \/ row'.url = u, Image(u) \notin objects'
               PROVE  \E w \in AvatarOps : /\ op'[w].gen > op[u].gen
                                           /\ (w \in swept' \/ row'.gen >= op'[w].gen)
    BY <1>1 DEF ImageFits, Image
  <2>1. op[u].pc = "publish" \/ row.url = u
    BY <1>w, AvatarAssumption
  <2>2. CASE Image(u) \in objects
    <3>1. op[u].gen < op[o].gen /\ (o \in swept \/ row.gen >= op[o].gen)
      BY <1>w, <2>2
    <3>2. op'[o].gen = op[o].gen
      BY <1>2, <1>n, <3>1
    <3> QED
      BY <1>n, <1>w, <3>1, <3>2
  <2>3. CASE Image(u) \notin objects
    <3>1. PICK w \in AvatarOps : op[w].gen > op[u].gen /\ (w \in swept \/ row.gen >= op[w].gen)
      BY <1>t, <2>1, <2>3 DEF ImageFits
    <3>2. op'[w].gen = op[w].gen
      BY <1>2, <1>n, <3>1
    <3> QED
      BY <1>n, <1>w, <3>1, <3>2
  <2> QED
    BY <2>2, <2>3
<1> QED
  BY <1>3, <1>4, <1>5

\* While the row stays, what it says of the images stays true.
LEMMA RowStays ==
  ASSUME AvatarInv, AvatarTypeOK', NEW o \in AvatarOps, NEW r \in OpRecord,
         op' = [op EXCEPT ![o] = r], WorldMoves(o), UNCHANGED <<row, published>>,
         \A k \in objects' : k \in objects \/ (k[1] = o /\ op[o].gen > 0)
  PROVE  RowFits'
<1>t. AvatarTypeOK /\ RowFits /\ published \subseteq AvatarOps
  BY DEF AvatarInv, AvatarTypeOK
<1>n. row.gen \in Nat /\ \A v \in AvatarOps : op[v].gen \in Nat
  BY <1>t, GensAreNat
<1>1. \A v \in AvatarOps : op[v].gen > 0 => op'[v].gen = op[v].gen
  BY <1>t, GensStay
<1>2. \A v \in published : 0 < op[v].gen /\ op'[v].gen = op[v].gen
  BY <1>t, <1>1 DEF RowFits
<1>3. \A g \in 1 .. row.gen : \E w \in AvatarOps : op'[w].gen = g
  <2> SUFFICES ASSUME NEW g \in 1 .. row.gen PROVE \E w \in AvatarOps : op'[w].gen = g
    OBVIOUS
  <2>1. PICK w \in AvatarOps : op[w].gen = g
    BY <1>t DEF RowFits
  <2> QED
    BY <1>1, <1>n, <2>1
<1>4. \A k \in objects' : 0 < op'[k[1]].gen
  <2> SUFFICES ASSUME NEW k \in objects' PROVE 0 < op'[k[1]].gen
    OBVIOUS
  <2>1. CASE k \in objects
    <3>1. 0 < op[k[1]].gen /\ k[1] \in AvatarOps
      BY <1>t, <2>1 DEF RowFits, AvatarTypeOK
    <3> QED
      BY <1>1, <3>1
  <2>2. CASE k[1] = o /\ op[o].gen > 0
    BY <1>1, <2>2
  <2> QED
    BY <2>1, <2>2
<1>5. row.url # NoOp => row.url \in published /\ op'[row.url].gen = row.gen
  BY <1>t, <1>2 DEF RowFits
<1>6. row.url = NoOp => \A v \in published : Image(v) \notin objects'
  BY <1>t DEF RowFits, WorldMoves
<1>7. \A v \in published : 0 < op'[v].gen /\ op'[v].gen <= row.gen
  BY <1>t, <1>2 DEF RowFits
<1> QED
  BY <1>3, <1>4, <1>5, <1>6, <1>7 DEF RowFits, Image

\* A step of one operation: what it does to the world, and what it knows then.
LEMMA AvatarMoves ==
  ASSUME AvatarInv, NEW o \in AvatarOps, NEW r \in OpRecord, op' = [op EXCEPT ![o] = r],
         row' \in [gen : Generation, url : AvatarOps \cup {NoOp}], objects' \subseteq AvatarOps \X Part,
         avatarLock' \in AvatarOps \cup {NoOp}, published' \subseteq AvatarOps, swept' \subseteq AvatarOps,
         WorldMoves(o), \A k \in objects' : k \in objects \/ (k[1] = o /\ op[o].gen > 0),
         UNCHANGED <<row, published>> \/ RowFits',
         OpFits(o)', SweepFits(o)', ImageFits(o)'
  PROVE  AvatarInv'
<1>1. AvatarTypeOK'
  BY OpChanges DEF AvatarInv, AvatarTypeOK
<1>2. RowFits'
  BY <1>1, RowStays
<1>3. \A u \in AvatarOps \ {o} : OpFits(u)' /\ SweepFits(u)' /\ ImageFits(u)'
  BY <1>1, OthersFit
<1> QED
  BY <1>1, <1>2, <1>3 DEF AvatarInv

\* A step that leaves the row and the storage alone.
LEMMA QuietKeeps ==
  ASSUME AvatarInv, NEW o \in AvatarOps, NEW r \in OpRecord, op' = [op EXCEPT ![o] = r],
         r.gen = op[o].gen, r.pc # "publish", UNCHANGED <<row, objects, published>>,
         avatarLock' \in AvatarOps \cup {NoOp}, swept \subseteq swept', swept' \subseteq AvatarOps,
         OpFits(o)', SweepFits(o)'
  PROVE  AvatarInv'
<1>t. AvatarTypeOK /\ ImageFits(o)
  BY DEF AvatarInv
<1>n. row.gen \in Nat
  BY <1>t, GensAreNat
<1>1. op'[o] = r /\ \A u \in AvatarOps \ {o} : op'[u] = op[u]
  BY <1>t, OpChanges
<1>2. \A u \in AvatarOps : op'[u].gen = op[u].gen
  BY <1>1
<1>3. WorldMoves(o)
  BY <1>n, <1>1 DEF WorldMoves
<1>4. ImageFits(o)'
  <2> SUFFICES ASSUME row.url = o, Image(o) \notin objects
               PROVE  \E w \in AvatarOps : /\ op'[w].gen > op'[o].gen
                                           /\ (w \in swept' \/ row.gen >= op'[w].gen)
    BY <1>1 DEF ImageFits, Image
  <2>1. PICK w \in AvatarOps : op[w].gen > op[o].gen /\ (w \in swept \/ row.gen >= op[w].gen)
    BY <1>t DEF ImageFits
  <2> QED
    BY <1>2, <2>1
<1>5. /\ row' \in [gen : Generation, url : AvatarOps \cup {NoOp}] /\ objects' \subseteq AvatarOps \X Part
      /\ published' \subseteq AvatarOps /\ \A k \in objects' : k \in objects
  BY <1>t DEF AvatarTypeOK
<1> QED
  BY <1>3, <1>4, <1>5, AvatarMoves

\* The end of an operation, in any of its ways.
LEMMA OpEnds ==
  ASSUME AvatarInv, NEW o \in AvatarOps, NEW pc \in {"release", "done", "dead"},
         op' = [op EXCEPT ![o].pc = pc], UNCHANGED <<row, objects, published, swept>>,
         avatarLock' \in AvatarOps \cup {NoOp}
  PROVE  AvatarInv'
<1>t. AvatarTypeOK /\ OpFits(o) /\ swept \subseteq AvatarOps
  BY DEF AvatarInv, AvatarTypeOK
<1>1. pc \in OpPcs
  BY DEF OpPcs
<1>2. PICK r \in OpRecord : /\ op' = [op EXCEPT ![o] = r]
                            /\ r.pc = pc /\ r.kind = op[o].kind /\ r.gen = op[o].gen
                            /\ r.keys = op[o].keys
  BY <1>t, <1>1, OpGoes, Zenon
<1>3. op'[o] = r
  BY <1>t, <1>2, OpChanges
<1>4. OpFits(o)' /\ SweepFits(o)'
  BY <1>t, <1>2, <1>3 DEF OpFits, SweepFits
<1> QED
  BY <1>t, <1>2, <1>4, QuietKeeps

-----------------------------------------------------------------------------

LEMMA StartOpKeeps ==
  ASSUME AvatarInv, NEW o \in AvatarOps, StartOp(o)
  PROVE  AvatarInv'
<1>t. AvatarTypeOK /\ OpFits(o) /\ op[o] \in OpRecord /\ swept \subseteq AvatarOps
  BY DEF AvatarInv, AvatarTypeOK
<1>1. PICK kind \in {"set", "remove"} : op' = [op EXCEPT ![o].pc = "acquire", ![o].kind = kind]
  BY DEF StartOp
<1>2. op[o].pc = "new" /\ UNCHANGED <<row, objects, avatarLock, published, swept>>
  BY DEF StartOp, OpAt
<1>3. PICK r \in OpRecord : op' = [op EXCEPT ![o] = r] /\ r.pc = "acquire" /\ r.gen = op[o].gen
  <2> DEFINE n == [op[o] EXCEPT !.pc = "acquire", !.kind = kind]
  <2>1. n \in OpRecord /\ n.pc = "acquire" /\ n.gen = op[o].gen
    BY <1>t DEF OpRecord
  <2>2. op' = [op EXCEPT ![o] = n]
    BY <1>1
  <2>3. PICK r \in OpRecord : r = n
    BY <2>1
  <2> HIDE DEF n
  <2> QED
    BY <2>1, <2>2, <2>3
<1>4. op'[o] = r
  BY <1>t, <1>3, OpChanges
<1>5. OpFits(o)' /\ SweepFits(o)'
  BY <1>t, <1>2, <1>3, <1>4 DEF OpFits, SweepFits
<1>6. avatarLock' \in AvatarOps \cup {NoOp}
  BY <1>t, <1>2 DEF AvatarTypeOK
<1> QED
  BY <1>t, <1>2, <1>3, <1>5, <1>6, QuietKeeps

LEMMA AcquireKeeps ==
  ASSUME AvatarInv, NEW o \in AvatarOps, AcquireMutex(o)
  PROVE  AvatarInv'
<1>t. AvatarTypeOK /\ OpFits(o) /\ swept \subseteq AvatarOps /\ "read" \in OpPcs
  BY DEF AvatarInv, AvatarTypeOK, OpPcs
<1>1. op[o].pc = "acquire" /\ UNCHANGED <<row, objects, published, swept>>
  BY DEF AcquireMutex, OpAt
<1>2. CASE avatarLock = NoOp /\ avatarLock' = o /\ OpGo(o, "read")
  <2>1. PICK r \in OpRecord : /\ op' = [op EXCEPT ![o] = r]
                              /\ r.pc = "read" /\ r.kind = op[o].kind /\ r.gen = op[o].gen
                              /\ r.keys = op[o].keys
    BY <1>t, <1>2, OpGoes, Zenon DEF OpGo
  <2>2. op'[o] = r
    BY <1>t, <2>1, OpChanges
  <2>3. OpFits(o)' /\ SweepFits(o)'
    BY <1>t, <1>1, <2>1, <2>2 DEF OpFits, SweepFits
  <2> QED
    BY <1>t, <1>1, <1>2, <2>1, <2>3, QuietKeeps
<1>3. CASE OpGo(o, "done") /\ UNCHANGED avatarLock
  <2>1. avatarLock' \in AvatarOps \cup {NoOp}
    BY <1>t, <1>3 DEF AvatarTypeOK
  <2> QED
    BY <1>1, <1>3, <2>1, OpEnds DEF OpGo
<1> QED
  BY <1>2, <1>3 DEF AcquireMutex

LEMMA ReleaseKeeps ==
  ASSUME AvatarInv, NEW o \in AvatarOps, ReleaseMutex(o) \/ OpDies(o)
  PROVE  AvatarInv'
<1>1. avatarLock' \in AvatarOps \cup {NoOp}
  BY DEF AvatarInv, AvatarTypeOK, ReleaseMutex, OpDies
<1> QED
  BY <1>1, OpEnds DEF ReleaseMutex, OpDies, OpGo

\* Every generation up to the row's was claimed by another operation: there is one left for this.
LEMMA NextGeneration ==
  ASSUME AvatarInv, NEW o \in AvatarOps, op[o].gen = 0
  PROVE  row.gen + 1 \in Generation
<1>t. row.gen \in Nat /\ RowFits
  BY GensAreNat DEF AvatarInv
<1> DEFINE T == {w \in AvatarOps : op[w].gen \in 1 .. row.gen}
<1>1. PICK n \in Nat : n = row.gen
  BY <1>t
<1>2. PICK f : f = [w \in T |-> op[w].gen]
  OBVIOUS
<1>3. T \subseteq AvatarOps \ {o}
  OBVIOUS
<1>4. /\ \A g \in 1 .. n : \E w \in T : f[w] = g
      /\ f \in [T -> 1 .. n]
  BY <1>t, <1>1, <1>2 DEF RowFits
<1> HIDE DEF T
<1>5. f \in Surjection(T, 1 .. n)
  BY <1>4 DEF Surjection
<1>6. IsFiniteSet(AvatarOps \ {o}) /\ Cardinality(AvatarOps \ {o}) = Cardinality(AvatarOps) - 1
  BY AvatarAssumption, FS_RemoveElement
<1>7. IsFiniteSet(T) /\ Cardinality(T) <= Cardinality(AvatarOps) - 1
  BY <1>3, <1>6, FS_Subset
<1>8. Cardinality(1 .. n) <= Cardinality(T)
  BY <1>5, <1>7, FS_Surjection
<1>9. Cardinality(1 .. n) = n
  <2>1. 1 \in Int /\ n \in Int
    OBVIOUS
  <2>2. Cardinality(1 .. n) = IF 1 > n THEN 0 ELSE n - 1 + 1
    BY <2>1, FS_Interval
  <2> QED
    BY <2>2
<1>10. Cardinality(T) \in Nat /\ Cardinality(AvatarOps) \in Nat
  BY <1>7, AvatarAssumption, FS_CardinalityType
<1> QED
  BY <1>1, <1>7, <1>8, <1>9, <1>10 DEF Generation

\* A generation is claimed, by an operation that had none.
LEMMA ReadKeepsAvatar ==
  ASSUME AvatarInv, NEW o \in AvatarOps, ReadGeneration(o)
  PROVE  AvatarInv'
<1>t. /\ AvatarTypeOK /\ RowFits /\ OpFits(o) /\ op[o] \in OpRecord
      /\ row.gen \in Nat /\ \A v \in AvatarOps : op[v].gen \in Nat
  BY GensAreNat DEF AvatarInv, AvatarTypeOK
<1>1. op[o].pc = "read" /\ UNCHANGED <<row, objects, avatarLock, published, swept>>
  BY DEF ReadGeneration, OpAt
<1>2. op[o].gen = 0 /\ o \notin published
  BY <1>t, <1>1 DEF OpFits
<1>3. PICK gen \in Generation : gen = row.gen + 1
  BY <1>2, NextGeneration
<1>4. PICK pc \in {"original", "release", "list"} :
        /\ op' = [op EXCEPT ![o].gen = gen, ![o].pc = pc]
        /\ (pc = "original" => op[o].kind = "set") /\ (pc = "list" => op[o].kind # "set")
  <2>1. CASE op[o].kind = "set"
    BY <1>3, <2>1 DEF ReadGeneration
  <2>2. CASE op[o].kind # "set" /\ row.url = NoOp
    BY <1>3, <2>2 DEF ReadGeneration
  <2>3. CASE op[o].kind # "set" /\ row.url # NoOp
    BY <1>3, <2>3 DEF ReadGeneration
  <2> QED
    BY <2>1, <2>2, <2>3
<1>5. PICK r \in OpRecord : /\ op' = [op EXCEPT ![o] = r]
                            /\ r.pc = pc /\ r.gen = gen /\ r.kind = op[o].kind
  <2> DEFINE n == [op[o] EXCEPT !.gen = gen, !.pc = pc]
  <2>1. n \in OpRecord /\ n.pc = pc /\ n.gen = gen /\ n.kind = op[o].kind
    BY <1>t DEF OpRecord
  <2>2. op' = [op EXCEPT ![o] = n]
    BY <1>4
  <2>3. PICK r \in OpRecord : r = n
    BY <2>1
  <2> HIDE DEF n
  <2> QED
    BY <2>1, <2>2, <2>3
<1>6. op'[o] = r
  BY <1>t, <1>5, OpChanges
<1>7. WorldMoves(o)
  BY <1>t, <1>1, <1>2 DEF WorldMoves
<1>8. OpFits(o)' /\ SweepFits(o)'
  <2>1. gen = row'.gen + 1 /\ gen > 0 /\ gen <= row'.gen + 1 /\ o \notin published'
    BY <1>t, <1>1, <1>2, <1>3
  <2>2. OpFits(o)'
    <3>1. op[o].kind \in {"set", "remove"}
      BY <1>t DEF OpRecord
    <3> QED
      BY <1>4, <1>5, <1>6, <2>1, <3>1 DEF OpFits
  <2>3. SweepFits(o)'
    BY <1>4, <1>5, <1>6 DEF SweepFits
  <2> QED
    BY <2>2, <2>3
<1>9. ImageFits(o)'
  <2>1. row.url # o
    BY <1>t, <1>2, AvatarAssumption DEF RowFits
  <2> QED
    BY <1>1, <1>4, <1>5, <1>6, <2>1 DEF ImageFits
<1>10. /\ row' \in [gen : Generation, url : AvatarOps \cup {NoOp}] /\ objects' \subseteq AvatarOps \X Part
       /\ avatarLock' \in AvatarOps \cup {NoOp}
       /\ published' \subseteq AvatarOps /\ swept' \subseteq AvatarOps /\ \A k \in objects' : k \in objects
  BY <1>t, <1>1 DEF AvatarTypeOK
<1> QED
  BY <1>1, <1>5, <1>7, <1>8, <1>9, <1>10, AvatarMoves

-----------------------------------------------------------------------------
(* Storage.                                                                *)

\* A step of an upload that has not published: it stores, or takes back, objects of its own.
LEMMA OwnObjects ==
  ASSUME AvatarInv, NEW o \in AvatarOps, op[o].pc \in {"original", "derive", "rollback"},
         NEW pc \in {"derive", "publish", "rollback", "release"}, op' = [op EXCEPT ![o].pc = pc],
         objects' \subseteq AvatarOps \X Part,
         \A k \in objects' : k \in objects \/ k[1] = o,
         \A k \in objects : k \in objects' \/ k[1] = o,
         pc = "publish" => Image(o) \in objects',
         UNCHANGED <<row, avatarLock, published, swept>>
  PROVE  AvatarInv'
<1>t. /\ AvatarTypeOK /\ RowFits /\ OpFits(o) /\ pc \in OpPcs
      /\ row.gen \in Nat /\ \A v \in AvatarOps : op[v].gen \in Nat
  BY GensAreNat DEF AvatarInv, OpPcs
<1>1. PICK r \in OpRecord : /\ op' = [op EXCEPT ![o] = r]
                            /\ r.pc = pc /\ r.kind = op[o].kind /\ r.gen = op[o].gen
                            /\ r.keys = op[o].keys
  BY <1>t, OpGoes, Zenon
<1>2. op'[o] = r
  BY <1>t, <1>1, OpChanges
<1>3. o \notin published /\ op[o].gen > 0 /\ op[o].kind = "set"
  BY <1>t DEF OpFits
<1>4. \A v : Image(v)[1] = v
  BY DEF Image
<1>5. WorldMoves(o)
  <2>1. \A v \in published : Image(v) \in objects' => Image(v) \in objects
    BY <1>3, <1>4
  <2>2. \A v \in AvatarOps \ {o} : Image(v) \in objects => Image(v) \in objects'
    BY <1>4
  <2> QED
    BY <1>t, <1>1, <1>2, <2>1, <2>2 DEF WorldMoves
<1>6. OpFits(o)' /\ SweepFits(o)'
  <2>1. o \notin published' /\ row'.gen = row.gen
    BY <1>3
  <2>2. OpFits(o)'
    BY <1>t, <1>1, <1>2, <1>3, <2>1 DEF OpFits
  <2>3. SweepFits(o)'
    BY <1>1, <1>2 DEF SweepFits
  <2> QED
    BY <2>2, <2>3
<1>7. ImageFits(o)'
  <2>1. row.url # o
    BY <1>t, <1>3, AvatarAssumption DEF RowFits
  <2> QED
    BY <1>1, <1>2, <2>1 DEF ImageFits, Image
<1>8. /\ row' \in [gen : Generation, url : AvatarOps \cup {NoOp}] /\ avatarLock' \in AvatarOps \cup {NoOp}
      /\ published' \subseteq AvatarOps /\ swept' \subseteq AvatarOps
  BY <1>t DEF AvatarTypeOK
<1> QED
  BY <1>1, <1>3, <1>5, <1>6, <1>7, <1>8, AvatarMoves

LEMMA UploadKeepsAvatar ==
  ASSUME AvatarInv, NEW o \in AvatarOps, UploadOriginal(o)
  PROVE  AvatarInv'
<1>t. objects \subseteq AvatarOps \X Part /\ avatarLock \in AvatarOps \cup {NoOp}
  BY DEF AvatarInv, AvatarTypeOK
<1>1. op[o].pc = "original" /\ UNCHANGED <<row, avatarLock, published, swept>>
  BY DEF UploadOriginal, OpAt
<1>2. CASE objects' = objects \cup {<<o, "original">>} /\ OpGo(o, "derive")
  <2>1. objects' \subseteq AvatarOps \X Part
    BY <1>t, <1>2 DEF Part
  <2>2. /\ \A k \in objects' : k \in objects \/ k[1] = o
        /\ \A k \in objects : k \in objects' \/ k[1] = o
    BY <1>2
  <2> QED
    BY <1>1, <1>2, <2>1, <2>2, OwnObjects DEF OpGo
<1>3. CASE OpGo(o, "release") /\ UNCHANGED objects
  BY <1>t, <1>1, <1>3, OpEnds DEF OpGo
<1> QED
  BY <1>2, <1>3 DEF UploadOriginal

LEMMA DeriveKeeps ==
  ASSUME AvatarInv, NEW o \in AvatarOps, DeriveImage(o)
  PROVE  AvatarInv'
<1>t. objects \subseteq AvatarOps \X Part
  BY DEF AvatarInv, AvatarTypeOK
<1>1. op[o].pc = "derive" /\ UNCHANGED <<row, avatarLock, published, swept>>
  BY DEF DeriveImage, OpAt
<1>2. CASE /\ objects' = objects \cup {<<o, "avatar-256">>}
           /\ op' \in {[op EXCEPT ![o].pc = pc] : pc \in {"publish", "rollback"}}
  <2>1. objects' \subseteq AvatarOps \X Part /\ Image(o) \in objects'
    BY <1>t, <1>2 DEF Part, Image
  <2>2. /\ \A k \in objects' : k \in objects \/ k[1] = o
        /\ \A k \in objects : k \in objects' \/ k[1] = o
    BY <1>2
  <2>3. PICK pc \in {"publish", "rollback"} : op' = [op EXCEPT ![o].pc = pc]
    BY <1>2
  <2> QED
    BY <1>1, <2>1, <2>2, <2>3, OwnObjects
<1>3. CASE OpGo(o, "rollback") /\ UNCHANGED objects
  <2>1. objects' \subseteq AvatarOps \X Part
    BY <1>t, <1>3
  <2> QED
    BY <1>1, <1>3, <2>1, OwnObjects DEF OpGo
<1> QED
  BY <1>2, <1>3 DEF DeriveImage

LEMMA CleanupKeeps ==
  ASSUME AvatarInv, NEW o \in AvatarOps, CleanupVersion(o)
  PROVE  AvatarInv'
<1>t. objects \subseteq AvatarOps \X Part
  BY DEF AvatarInv, AvatarTypeOK
<1>1. op[o].pc = "rollback" /\ UNCHANGED <<row, avatarLock, published, swept>> /\ OpGo(o, "release")
  BY DEF CleanupVersion, OpAt
<1>2. PICK gone \in SUBSET ({o} \X Part) : objects' = objects \ gone
  BY DEF CleanupVersion
<1>3. objects' \subseteq AvatarOps \X Part
  BY <1>t, <1>2
<1>4. /\ \A k \in objects' : k \in objects \/ k[1] = o
      /\ \A k \in objects : k \in objects' \/ k[1] = o
  BY <1>2
<1> QED
  BY <1>1, <1>3, <1>4, OwnObjects DEF OpGo

\* What is older than a sweep is listed; a removal leaves a mark that others may count on.
LEMMA SweepListKeeps ==
  ASSUME AvatarInv, NEW o \in AvatarOps, SweepList(o)
  PROVE  AvatarInv'
<1>t. /\ AvatarTypeOK /\ RowFits /\ OpFits(o) /\ op[o] \in OpRecord
      /\ objects \subseteq AvatarOps \X Part /\ swept \subseteq AvatarOps
      /\ published \subseteq AvatarOps /\ avatarLock \in AvatarOps \cup {NoOp}
  BY DEF AvatarInv, AvatarTypeOK
<1>1. op[o].pc = "list" /\ UNCHANGED <<row, objects, avatarLock, published>>
  BY DEF SweepList, OpAt
<1>2. CASE /\ op' = [op EXCEPT ![o].pc = "delete",
                               ![o].keys = {k \in objects : op[k[1]].gen < op[o].gen}]
           /\ swept' = IF op[o].kind = "remove" THEN swept \cup {o} ELSE swept
  <2>1. PICK keys \in SUBSET (AvatarOps \X Part) : keys = {k \in objects : op[k[1]].gen < op[o].gen}
    BY <1>t
  <2>2. PICK r \in OpRecord : /\ op' = [op EXCEPT ![o] = r]
                              /\ r.pc = "delete" /\ r.kind = op[o].kind /\ r.gen = op[o].gen
                              /\ r.keys = keys
    <3> DEFINE n == [op[o] EXCEPT !.pc = "delete", !.keys = keys]
    <3>1. n \in OpRecord /\ n.pc = "delete" /\ n.kind = op[o].kind /\ n.gen = op[o].gen /\ n.keys = keys
      BY <1>t DEF OpRecord
    <3>2. op' = [op EXCEPT ![o] = n]
      BY <1>2, <2>1
    <3>3. PICK r \in OpRecord : r = n
      BY <3>1
    <3> HIDE DEF n
    <3> QED
      BY <3>1, <3>2, <3>3
  <2>3. op'[o] = r /\ \A u \in AvatarOps : op'[u].gen = op[u].gen
    BY <1>t, <2>2, OpChanges
  <2>4. OpFits(o)'
    BY <1>t, <1>1, <2>2, <2>3 DEF OpFits
  <2>5. SweepFits(o)'
    <3>1. \A k \in keys : 0 < op[k[1]].gen /\ op[k[1]].gen < r.gen /\ k[1] \in AvatarOps
      BY <1>t, <2>1, <2>2 DEF RowFits
    <3>2. \A v \in published : op[v].gen < r.gen /\ Image(v) \in objects => Image(v) \in keys
      BY <2>1, <2>2 DEF Image
    <3>3. r.kind = "remove" => o \in swept'
      BY <1>2, <2>2
    <3> QED
      BY <1>1, <1>t, <2>2, <2>3, <3>1, <3>2, <3>3 DEF SweepFits, Image
  <2>6. swept \subseteq swept' /\ swept' \subseteq AvatarOps
    BY <1>t, <1>2
  <2> QED
    BY <1>t, <1>1, <2>2, <2>4, <2>5, <2>6, QuietKeeps
<1>3. CASE OpGo(o, "release") /\ UNCHANGED swept
  BY <1>t, <1>1, <1>3, OpEnds DEF OpGo
<1> QED
  BY <1>2, <1>3 DEF SweepList

\* What was listed is deleted, or some of it: nothing that was published since.
LEMMA SweepDeleteKeeps ==
  ASSUME AvatarInv, NEW o \in AvatarOps, SweepDelete(o)
  PROVE  AvatarInv'
<1>t. /\ AvatarTypeOK /\ RowFits /\ OpFits(o) /\ SweepFits(o) /\ ImageFits(o) /\ op[o] \in OpRecord
      /\ row.gen \in Nat /\ \A v \in AvatarOps : op[v].gen \in Nat
      /\ objects \subseteq AvatarOps \X Part /\ published \subseteq AvatarOps
  BY GensAreNat DEF AvatarInv, AvatarTypeOK
<1>1. op[o].pc = "delete" /\ UNCHANGED <<row, avatarLock, published, swept>>
  BY DEF SweepDelete, OpAt
<1>2. PICK gone \in SUBSET op[o].keys, pc \in {"clear", "release"} :
        /\ objects' = objects \ gone /\ op' = [op EXCEPT ![o].pc = pc]
        /\ (pc = "clear" => op[o].kind = "remove" /\ gone = op[o].keys)
  <2>1. CASE /\ objects' = objects \ op[o].keys
             /\ OpGo(o, IF op[o].kind = "remove" THEN "clear" ELSE "release")
    <3>1. CASE op[o].kind = "remove"
      BY <2>1, <3>1 DEF OpGo
    <3>2. CASE op[o].kind # "remove"
      BY <2>1, <3>2 DEF OpGo
    <3> QED
      BY <3>1, <3>2
  <2>2. CASE \E gone \in SUBSET op[o].keys : objects' = objects \ gone /\ OpGo(o, "release")
    BY <2>2 DEF OpGo
  <2> QED
    BY <2>1, <2>2 DEF SweepDelete
<1>p. pc \in OpPcs
  BY DEF OpPcs
<1>3. PICK r \in OpRecord : /\ op' = [op EXCEPT ![o] = r]
                            /\ r.pc = pc /\ r.kind = op[o].kind /\ r.gen = op[o].gen
                            /\ r.keys = op[o].keys
  BY <1>t, <1>2, <1>p, OpGoes, Zenon
<1>4. op'[o] = r /\ \A u \in AvatarOps : op'[u].gen = op[u].gen
  BY <1>t, <1>3, OpChanges
<1>5. \A v \in AvatarOps : Image(v) \in op[o].keys => op[v].gen < op[o].gen
  BY <1>t, <1>1 DEF SweepFits, Image
<1>6. o \in swept \/ row.gen >= op[o].gen
  <2>1. CASE op[o].kind = "remove"
    BY <1>t, <1>1, <2>1 DEF SweepFits
  <2>2. CASE op[o].kind = "set"
    BY <1>t, <1>1, <2>2 DEF OpFits, RowFits
  <2> QED
    BY <1>t, <2>1, <2>2 DEF OpRecord
<1>7. WorldMoves(o)
  <2>1. \A v \in AvatarOps \ {o} : Image(v) \in objects /\ Image(v) \notin objects' =>
          op[v].gen < op[o].gen /\ (o \in swept \/ row.gen >= op[o].gen)
    BY <1>2, <1>5, <1>6
  <2> QED
    BY <1>t, <1>1, <1>2, <1>4, <2>1 DEF WorldMoves
<1>8. OpFits(o)'
  BY <1>t, <1>1, <1>2, <1>3, <1>4 DEF OpFits
<1>9. SweepFits(o)'
  <2>1. pc = "clear" => \A v \in published : op[v].gen < op[o].gen => Image(v) \notin objects'
    BY <1>t, <1>1, <1>2 DEF SweepFits
  <2> QED
    BY <1>1, <1>t, <1>3, <1>4, <2>1 DEF SweepFits, Image
<1>10. ImageFits(o)'
  <2> SUFFICES ASSUME row.url = o, Image(o) \notin objects'
               PROVE  \E w \in AvatarOps : op[w].gen > op[o].gen /\ (w \in swept \/ row.gen >= op[w].gen)
    BY <1>1, <1>3, <1>4 DEF ImageFits, Image
  <2>1. Image(o) \notin objects
    BY <1>t, <1>2, <1>5
  <2> QED
    BY <1>t, <2>1 DEF ImageFits
<1>11. /\ row' \in [gen : Generation, url : AvatarOps \cup {NoOp}] /\ objects' \subseteq AvatarOps \X Part
       /\ avatarLock' \in AvatarOps \cup {NoOp}
       /\ published' \subseteq AvatarOps /\ swept' \subseteq AvatarOps /\ \A k \in objects' : k \in objects
  BY <1>t, <1>1, <1>2 DEF AvatarTypeOK
<1> QED
  BY <1>1, <1>3, <1>7, <1>8, <1>9, <1>10, <1>11, AvatarMoves

-----------------------------------------------------------------------------
(* The row.                                                                *)

\* The generation is written: it is the next, so every one up to it is claimed.
LEMMA RowAdvances ==
  ASSUME AvatarInv, NEW o \in AvatarOps, op[o].gen > 0, CasGeneration(o),
         row'.gen = op[o].gen, \A u \in AvatarOps : op'[u].gen = op[u].gen
  PROVE  /\ row'.gen = row.gen + 1 /\ row'.gen >= row.gen
         /\ \A g \in 1 .. row'.gen : \E w \in AvatarOps : op'[w].gen = g
<1>t. /\ OpFits(o) /\ RowFits /\ row.gen \in Nat /\ \A v \in AvatarOps : op[v].gen \in Nat
  BY GensAreNat DEF AvatarInv
<1>1. op[o].gen = row.gen + 1
  BY <1>t DEF OpFits, CasGeneration
<1>2. ASSUME NEW g \in 1 .. row'.gen PROVE \E w \in AvatarOps : op'[w].gen = g
  <2>1. g = op[o].gen \/ g \in 1 .. row.gen
    BY <1>t, <1>1, <1>2
  <2>2. CASE g \in 1 .. row.gen
    <3>1. PICK w \in AvatarOps : op[w].gen = g
      BY <1>t, <2>2 DEF RowFits
    <3> QED
      BY <3>1
  <2> QED
    BY <2>1, <2>2
<1> QED
  BY <1>t, <1>1, <1>2

LEMMA PublishKeeps ==
  ASSUME AvatarInv, NEW o \in AvatarOps, Publish(o)
  PROVE  AvatarInv'
<1>t. /\ AvatarTypeOK /\ RowFits /\ OpFits(o) /\ ImageFits(o) /\ op[o] \in OpRecord
      /\ row.gen \in Nat /\ \A v \in AvatarOps : op[v].gen \in Nat
      /\ objects \subseteq AvatarOps \X Part /\ published \subseteq AvatarOps /\ swept \subseteq AvatarOps
      /\ avatarLock \in AvatarOps \cup {NoOp} /\ op[o].gen \in Generation
      /\ {"invalidate", "rollback"} \subseteq OpPcs
  BY GensAreNat DEF AvatarInv, AvatarTypeOK, OpRecord, OpPcs
<1>1. op[o].pc = "publish" /\ UNCHANGED <<objects, avatarLock, swept>>
  BY DEF Publish, OpAt
<1>2. op[o].gen > 0 /\ op[o].kind = "set" /\ o \notin published
  BY <1>t, <1>1 DEF OpFits
<1>3. CASE CasGeneration(o)
  <2>1. /\ row' = [gen |-> op[o].gen, url |-> o] /\ published' = published \cup {o}
        /\ op' = [op EXCEPT ![o].pc = "invalidate"]
    BY <1>3 DEF Publish, OpGo
  <2>2. PICK r \in OpRecord : /\ op' = [op EXCEPT ![o] = r]
                              /\ r.pc = "invalidate" /\ r.kind = op[o].kind /\ r.gen = op[o].gen
                              /\ r.keys = op[o].keys
    BY <1>t, <2>1, OpGoes, Zenon
  <2>3. op'[o] = r /\ \A u \in AvatarOps : op'[u].gen = op[u].gen
    BY <1>t, <2>2, OpChanges
  <2>4. /\ row'.gen = op[o].gen /\ row'.url = o
        /\ row' \in [gen : Generation, url : AvatarOps \cup {NoOp}]
    BY <1>t, <2>1
  <2>5. /\ row'.gen = row.gen + 1 /\ row'.gen >= row.gen
        /\ \A g \in 1 .. row'.gen : \E w \in AvatarOps : op'[w].gen = g
    BY <1>2, <1>3, <2>3, <2>4, RowAdvances
  <2>6. WorldMoves(o)
    BY <1>t, <1>1, <1>3, <2>1, <2>3, <2>4, <2>5 DEF WorldMoves, CasGeneration
  <2>7. RowFits'
    <3>1. ASSUME NEW v \in published'
          PROVE  0 < op'[v].gen /\ op'[v].gen <= row'.gen
      <4>1. CASE v = o
        <5>1. op[o].gen \in Nat /\ row'.gen = op[o].gen /\ op'[v].gen = op[o].gen
          BY <1>t, <2>3, <2>4, <4>1
        <5> QED
          BY <1>2, <5>1
      <4>2. CASE v # o
        <5>1. v \in published /\ v \in AvatarOps
          BY <1>t, <2>1, <4>2
        <5>2. 0 < op[v].gen /\ op[v].gen <= row.gen
          BY <1>t, <5>1 DEF RowFits
        <5>3. op'[v].gen = op[v].gen /\ op[v].gen \in Nat /\ row.gen \in Nat /\ row'.gen = row.gen + 1
          BY <1>t, <2>3, <2>5, <5>1, GensAreNat
        <5> QED
          BY <5>2, <5>3
      <4> QED
        BY <4>1, <4>2
    <3>2. \A k \in objects' : 0 < op'[k[1]].gen
      BY <1>t, <1>1, <2>3 DEF RowFits
    <3>3. row'.url \in published' /\ op'[row'.url].gen = row'.gen /\ row'.url # NoOp
      BY <2>1, <2>3, <2>4, AvatarAssumption
    <3> QED
      BY <2>5, <3>1, <3>2, <3>3 DEF RowFits
  <2>8. OpFits(o)'
    <3>1. o \in published' /\ r.gen <= row'.gen + 1 /\ r.gen > 0
      BY <1>t, <1>2, <2>1, <2>2, <2>4
    <3> QED
      BY <2>2, <2>3, <3>1 DEF OpFits
  <2>9. SweepFits(o)'
    BY <2>2, <2>3 DEF SweepFits
  <2>10. ImageFits(o)'
    <3> SUFFICES ASSUME Image(o) \notin objects
                 PROVE  \E w \in AvatarOps : /\ op'[w].gen > op'[o].gen
                                             /\ (w \in swept' \/ row'.gen >= op'[w].gen)
      BY <1>1 DEF ImageFits, Image
    <3>1. PICK w \in AvatarOps : op[w].gen > op[o].gen /\ (w \in swept \/ row.gen >= op[w].gen)
      BY <1>t, <1>1 DEF ImageFits
    <3>2. op'[w].gen = op[w].gen /\ op'[o].gen = op[o].gen
      BY <2>3
    <3>3. w \in swept' \/ row'.gen >= op'[w].gen
      BY <1>t, <1>1, <2>5, <3>1, <3>2
    <3> QED
      BY <3>1, <3>2, <3>3
  <2>11. /\ objects' \subseteq AvatarOps \X Part /\ avatarLock' \in AvatarOps \cup {NoOp}
         /\ published' \subseteq AvatarOps /\ swept' \subseteq AvatarOps
         /\ \A k \in objects' : k \in objects
    BY <1>t, <1>1, <2>1
  <2> QED
    BY <2>2, <2>4, <2>6, <2>7, <2>8, <2>9, <2>10, <2>11, AvatarMoves
<1>4. CASE ~CasGeneration(o)
  <2>1. op' = [op EXCEPT ![o].pc = "rollback"] /\ UNCHANGED <<row, published>>
    BY <1>4 DEF Publish, OpGo
  <2>2. PICK r \in OpRecord : /\ op' = [op EXCEPT ![o] = r]
                              /\ r.pc = "rollback" /\ r.kind = op[o].kind /\ r.gen = op[o].gen
                              /\ r.keys = op[o].keys
    BY <1>t, <2>1, OpGoes, Zenon
  <2>3. op'[o] = r
    BY <1>t, <2>2, OpChanges
  <2>4. OpFits(o)'
    BY <1>t, <1>1, <1>2, <2>1, <2>2, <2>3 DEF OpFits
  <2>5. SweepFits(o)'
    BY <2>2, <2>3 DEF SweepFits
  <2> QED
    BY <1>t, <1>1, <2>1, <2>2, <2>4, <2>5, QuietKeeps
<1> QED
  BY <1>3, <1>4

\* A removal clears the row: everything that was published before it has been deleted.
LEMMA ClearKeeps ==
  ASSUME AvatarInv, NEW o \in AvatarOps, ClearAvatar(o)
  PROVE  AvatarInv'
<1>t. /\ AvatarTypeOK /\ RowFits /\ OpFits(o) /\ SweepFits(o) /\ op[o] \in OpRecord
      /\ row.gen \in Nat /\ \A v \in AvatarOps : op[v].gen \in Nat
      /\ objects \subseteq AvatarOps \X Part /\ published \subseteq AvatarOps /\ swept \subseteq AvatarOps
      /\ avatarLock \in AvatarOps \cup {NoOp} /\ op[o].gen \in Generation
      /\ "invalidate" \in OpPcs
  BY GensAreNat DEF AvatarInv, AvatarTypeOK, OpRecord, OpPcs
<1>1. op[o].pc = "clear" /\ UNCHANGED <<objects, avatarLock, published, swept>>
  BY DEF ClearAvatar, OpAt
<1>2. op[o].gen > 0 /\ op[o].kind = "remove"
  BY <1>t, <1>1 DEF OpFits
<1>3. CASE CasGeneration(o)
  <2>1. row' = [gen |-> op[o].gen, url |-> NoOp] /\ op' = [op EXCEPT ![o].pc = "invalidate"]
    BY <1>3 DEF ClearAvatar, OpGo
  <2>2. PICK r \in OpRecord : /\ op' = [op EXCEPT ![o] = r]
                              /\ r.pc = "invalidate" /\ r.kind = op[o].kind /\ r.gen = op[o].gen
                              /\ r.keys = op[o].keys
    BY <1>t, <2>1, OpGoes, Zenon
  <2>3. op'[o] = r /\ \A u \in AvatarOps : op'[u].gen = op[u].gen
    BY <1>t, <2>2, OpChanges
  <2>4. /\ row'.gen = op[o].gen /\ row'.url = NoOp
        /\ row' \in [gen : Generation, url : AvatarOps \cup {NoOp}]
    BY <1>t, <2>1
  <2>5. /\ row'.gen = row.gen + 1 /\ row'.gen >= row.gen
        /\ \A g \in 1 .. row'.gen : \E w \in AvatarOps : op'[w].gen = g
    BY <1>2, <1>3, <2>3, <2>4, RowAdvances
  <2>6. WorldMoves(o)
    BY <1>t, <1>1, <2>3, <2>4, <2>5 DEF WorldMoves
  <2>7. RowFits'
    <3>1. \A v \in published : 0 < op[v].gen /\ op[v].gen <= row.gen
      BY <1>t DEF RowFits
    <3>2. \A v \in published' : 0 < op'[v].gen /\ op'[v].gen <= row'.gen
      BY <1>t, <1>1, <2>3, <2>5, <3>1
    <3>3. \A k \in objects' : 0 < op'[k[1]].gen
      BY <1>t, <1>1, <2>3 DEF RowFits
    <3>4. \A v \in published' : Image(v) \notin objects'
      BY <1>t, <1>1, <1>3, <3>1 DEF SweepFits, CasGeneration
    <3> QED
      BY <2>4, <2>5, <3>2, <3>3, <3>4 DEF RowFits, Image
  <2>8. OpFits(o)'
    <3>1. r.gen <= row'.gen + 1 /\ r.gen > 0
      BY <1>t, <1>2, <2>2, <2>4
    <3> QED
      BY <1>2, <2>2, <2>3, <3>1 DEF OpFits
  <2>9. SweepFits(o)'
    BY <2>2, <2>3 DEF SweepFits
  <2>10. ImageFits(o)'
    BY <2>2, <2>3, <2>4, AvatarAssumption DEF ImageFits
  <2>11. /\ objects' \subseteq AvatarOps \X Part /\ avatarLock' \in AvatarOps \cup {NoOp}
         /\ published' \subseteq AvatarOps /\ swept' \subseteq AvatarOps
         /\ \A k \in objects' : k \in objects
    BY <1>t, <1>1
  <2> QED
    BY <2>2, <2>4, <2>6, <2>7, <2>8, <2>9, <2>10, <2>11, AvatarMoves
<1>4. CASE ~CasGeneration(o)
  <2>1. op' = [op EXCEPT ![o].pc = "release"] /\ UNCHANGED row
    BY <1>4 DEF ClearAvatar, OpGo
  <2> QED
    BY <1>t, <1>1, <2>1, OpEnds
<1> QED
  BY <1>3, <1>4

LEMMA InvalidateKeeps ==
  ASSUME AvatarInv, NEW o \in AvatarOps, InvalidateAvatar(o)
  PROVE  AvatarInv'
<1>t. /\ AvatarTypeOK /\ OpFits(o) /\ swept \subseteq AvatarOps
      /\ avatarLock \in AvatarOps \cup {NoOp} /\ "list" \in OpPcs
  BY DEF AvatarInv, AvatarTypeOK, OpPcs
<1>1. op[o].pc = "invalidate" /\ UNCHANGED <<row, objects, avatarLock, published, swept>>
  BY DEF InvalidateAvatar, OpAt
<1>2. CASE op' = [op EXCEPT ![o].pc = "release"]
  BY <1>t, <1>1, <1>2, OpEnds
<1>3. CASE op[o].kind = "set" /\ op' = [op EXCEPT ![o].pc = "list"]
  <2>1. PICK r \in OpRecord : /\ op' = [op EXCEPT ![o] = r]
                              /\ r.pc = "list" /\ r.kind = op[o].kind /\ r.gen = op[o].gen
                              /\ r.keys = op[o].keys
    BY <1>t, <1>3, OpGoes, Zenon
  <2>2. op'[o] = r
    BY <1>t, <2>1, OpChanges
  <2>3. OpFits(o)'
    BY <1>t, <1>1, <2>1, <2>2 DEF OpFits
  <2>4. SweepFits(o)'
    BY <2>1, <2>2 DEF SweepFits
  <2> QED
    BY <1>t, <1>1, <2>1, <2>3, <2>4, QuietKeeps
<1>4. CASE op[o].kind # "set"
  <2>1. op' \in {[op EXCEPT ![o].pc = pc] : pc \in {"release"}}
    BY <1>4 DEF InvalidateAvatar
  <2> QED
    BY <1>2, <2>1
<1>5. CASE op[o].kind = "set"
  <2>1. op' \in {[op EXCEPT ![o].pc = pc] : pc \in {"list", "release"}}
    BY <1>5 DEF InvalidateAvatar
  <2>2. op' = [op EXCEPT ![o].pc = "list"] \/ op' = [op EXCEPT ![o].pc = "release"]
    BY <2>1
  <2> QED
    BY <1>2, <1>3, <1>5, <2>2
<1> QED
  BY <1>4, <1>5

LEMMA LockKeeps ==
  ASSUME AvatarInv, UNCHANGED <<row, objects, op, published, swept>>,
         avatarLock' \in AvatarOps \cup {NoOp}
  PROVE  AvatarInv'
<1>1. AvatarTypeOK' /\ RowFits'
  BY DEF AvatarInv, AvatarTypeOK, RowFits, Image
<1>2. ASSUME NEW o \in AvatarOps PROVE OpFits(o)' /\ SweepFits(o)' /\ ImageFits(o)'
  <2>1. OpFits(o) /\ SweepFits(o) /\ ImageFits(o)
    BY DEF AvatarInv
  <2> QED
    BY <2>1 DEF OpFits, SweepFits, ImageFits, Image
<1> QED
  BY <1>1, <1>2 DEF AvatarInv

LEMMA AvatarInitInv == AvatarInit => AvatarInv
<1> SUFFICES ASSUME AvatarInit PROVE AvatarInv
  OBVIOUS
<1>1. Cardinality(AvatarOps) \in Nat
  BY AvatarAssumption, FS_CardinalityType
<1>2. 0 \in Generation
  BY <1>1 DEF Generation
<1>3. /\ row = [gen |-> 0, url |-> NoOp] /\ objects = {} /\ published = {} /\ swept = {}
      /\ avatarLock = NoOp
  BY DEF AvatarInit
<1>4. op \in [AvatarOps -> OpRecord] /\ \A o \in AvatarOps : op[o].pc = "new" /\ op[o].gen = 0
  BY <1>2 DEF AvatarInit, OpRecord
<1>5. AvatarTypeOK
  BY <1>2, <1>3, <1>4 DEF AvatarTypeOK
<1>6. RowFits
  BY <1>3 DEF RowFits
<1>7. \A o \in AvatarOps : OpFits(o) /\ SweepFits(o) /\ ImageFits(o)
  BY <1>3, <1>4, AvatarAssumption DEF OpFits, SweepFits, ImageFits
<1> QED
  BY <1>5, <1>6, <1>7 DEF AvatarInv

\* In every state of the avatar, what each upload and removal knows of the row, of what it has listed
\* and of its own image holds, though their leases may be lost.
THEOREM AvatarInvariant == AvatarSpec => []AvatarInv
<1>1. ASSUME AvatarInv, [AvatarNext]_avatarVars PROVE AvatarInv'
  <2>1. CASE MutexExpires
    BY <1>1, <2>1, LockKeeps DEF MutexExpires
  <2>2. ASSUME NEW o \in AvatarOps,
               \/ StartOp(o) \/ AcquireMutex(o) \/ ReleaseMutex(o) \/ ReadGeneration(o)
               \/ UploadOriginal(o) \/ DeriveImage(o) \/ CleanupVersion(o) \/ Publish(o)
               \/ InvalidateAvatar(o) \/ SweepList(o) \/ SweepDelete(o) \/ ClearAvatar(o) \/ OpDies(o)
        PROVE  AvatarInv'
    BY <1>1, <2>2, StartOpKeeps, AcquireKeeps, ReleaseKeeps, ReadKeepsAvatar, UploadKeepsAvatar,
       DeriveKeeps, CleanupKeeps, PublishKeeps, InvalidateKeeps, SweepListKeeps, SweepDeleteKeeps,
       ClearKeeps
  <2>3. CASE UNCHANGED avatarVars
    <3>1. UNCHANGED <<row, objects, op, published, swept>> /\ avatarLock' = avatarLock
      BY <2>3 DEF avatarVars
    <3>2. avatarLock' \in AvatarOps \cup {NoOp}
      BY <1>1, <3>1 DEF AvatarInv, AvatarTypeOK
    <3> QED
      BY <1>1, <3>1, <3>2, LockKeeps
  <2> QED
    BY <1>1, <2>1, <2>2, <2>3 DEF AvatarNext
<1> QED
  BY <1>1, AvatarInitInv, PTL DEF AvatarSpec

\* The published image is there, unless a later removal has begun to delete it; and once an avatar
\* is removed, no image that was ever published is left.
THEOREM AvatarHolds == AvatarSpec => []AvatarMatchesStorage
<1>1. ASSUME AvatarInv PROVE AvatarMatchesStorage
  <2>t. /\ RowFits /\ row.url \in AvatarOps \cup {NoOp}
        /\ row.gen \in Nat /\ \A v \in AvatarOps : op[v].gen \in Nat
    BY <1>1, GensAreNat DEF AvatarInv, AvatarTypeOK
  <2>1. ASSUME row.url # NoOp, Image(row.url) \notin objects
        PROVE  \E o \in swept : op[o].gen > row.gen
    <3>1. PICK v \in AvatarOps : v = row.url
      BY <2>t, <2>1
    <3>2. op[v].gen = row.gen
      BY <2>t, <2>1, <3>1 DEF RowFits
    <3>3. ImageFits(v)
      BY <1>1 DEF AvatarInv
    <3>4. PICK o \in AvatarOps : op[o].gen > op[v].gen /\ (o \in swept \/ row.gen >= op[o].gen)
      BY <2>1, <3>1, <3>3 DEF ImageFits
    <3> QED
      BY <2>t, <3>2, <3>4
  <2>2. row.url = NoOp => \A v \in published : Image(v) \notin objects
    BY <2>t DEF RowFits
  <2> QED
    BY <2>1, <2>2 DEF AvatarMatchesStorage, Image
<1> QED
  BY <1>1, AvatarInvariant, PTL

-----------------------------------------------------------------------------
(* ObjectStorage.                                                          *)

\* What a listing has named: the keys it has seen throughout, up to its token, and then all.
ListFits(r) ==
  /\ \A k \in r.steady : Present(k)
  /\ r.pc = "list" => \A k \in r.steady : k <= r.token => k \in r.files
  /\ r.pc = "listed" => r.steady \subseteq r.files

\* What a deletion of many keys still has to do for each key, or to report.
DeletionFits(r) ==
  /\ r.pc = "deleting" => \A k \in r.asked : k \in r.keys \/ k \in r.failures \/ ~Present(k)
  /\ r.pc = "deleted" => \A k \in r.asked : ~Present(k)

\* What a move carries is doomed, or under another key than the one it is about to delete.
MoveFits(r) ==
  r.pc = "copied" => /\ r.held \in Contents
                     /\ r.held \in doomed \/ \E j \in Keys \ {r.source} : stored[j] = r.held

\* The inductive invariant: what each caller holds, that two moves carry one object only when it is
\* doomed, and that the others are somewhere.
StorageInv ==
  /\ StorageTypeOK
  /\ \A c \in Clients : ListFits(client[c]) /\ DeletionFits(client[c]) /\ MoveFits(client[c])
  /\ \A c, d \in Clients :
       c # d /\ ClientAt(c, "copied") /\ ClientAt(d, "copied") /\ client[c].held = client[d].held =>
         client[c].held \in doomed
  /\ \A x \in uploaded : x \in doomed \/ \E k \in Keys : stored[k] = x

-----------------------------------------------------------------------------
(* The order of the keys.                                                  *)

\* A nonempty set of naturals has a least element.
LEMMA LeastOf ==
  ASSUME NEW T, T \subseteq Nat, T # {}
  PROVE  \E x \in T : \A y \in T : x <= y
<1>1. PICK R : R = OpToRel(<, Nat)
  OBVIOUS
<1>2. IsWellFoundedOn(R, Nat)
  BY <1>1, NatLessThanWellFounded, Zenon
<1>3. PICK x \in T : \A y \in T : <<y, x>> \notin R
  BY <1>2, WFMin
<1>4. \A i, j \in Nat : i < j => <<i, j>> \in R
  BY <1>1 DEF OpToRel
<1>5. \A y \in T : ~(y < x)
  BY <1>3, <1>4
<1> QED
  BY <1>3, <1>5

\* ... and, when it is bounded, a greatest one.
LEMMA GreatestOf ==
  ASSUME NEW n \in Nat, NEW T, T \subseteq 0 .. n, T # {}
  PROVE  \E x \in T : \A y \in T : y <= x
<1> DEFINE U == {i \in Nat : \E x \in T : i = n - x}
<1>1. U \subseteq Nat /\ U # {}
  <2>1. PICK x \in T : TRUE
    OBVIOUS
  <2>2. n - x \in U
    BY <2>1
  <2> QED
    BY <2>2
<1>2. \A x \in T : n - x \in U
  OBVIOUS
<1> HIDE DEF U
<1>3. PICK i \in U : \A j \in U : i <= j
  BY <1>1, LeastOf
<1>4. PICK x \in T : i = n - x
  BY <1>3 DEF U
<1>5. \A y \in T : n - x <= n - y
  BY <1>2, <1>3, <1>4
<1> QED
  BY <1>4, <1>5

\* A page is the first of what is left: some of it when anything is left, and with a key every
\* smaller one.
LEMMA PageIsFirst ==
  ASSUME NEW ks \in SUBSET Keys
  PROVE  /\ FirstOf(PageSize, ks) \subseteq ks
         /\ \A j \in FirstOf(PageSize, ks), k \in ks : k <= j => k \in FirstOf(PageSize, ks)
         /\ ks # {} => FirstOf(PageSize, ks) # {}
<1>1. Keys \subseteq Nat /\ IsFiniteSet(Keys) /\ ks \subseteq Nat
  <2>1. LastKey \in Int /\ 1 \in Int
    BY StorageAssumption
  <2> QED
    BY <2>1, FS_Interval DEF Keys
<1>2. ASSUME NEW j \in FirstOf(PageSize, ks), NEW k \in ks, k <= j
      PROVE  k \in FirstOf(PageSize, ks)
  <2> DEFINE A == {i \in ks : i < k}
             B == {i \in ks : i < j}
  <2>1. j \in ks /\ Cardinality(B) < PageSize
    BY DEF FirstOf
  <2>2. A \subseteq B
    <3>1. \A i \in ks : i < k => i < j
      BY <1>1, <1>2, <2>1
    <3> QED
      BY <3>1
  <2>3. IsFiniteSet(ks)
    BY <1>1, FS_Subset
  <2>4. IsFiniteSet(B)
    BY <2>3, FS_Subset
  <2>5. Cardinality(A) <= Cardinality(B) /\ IsFiniteSet(A)
    BY <2>2, <2>4, FS_Subset
  <2>6. Cardinality(A) \in Nat /\ Cardinality(B) \in Nat
    BY <2>4, <2>5, FS_CardinalityType
  <2>7. Cardinality(A) < PageSize
    BY <2>1, <2>5, <2>6, StorageAssumption
  <2> QED
    BY <2>7 DEF FirstOf
<1>3. ASSUME ks # {} PROVE FirstOf(PageSize, ks) # {}
  <2>1. PICK k \in ks : \A i \in ks : k <= i
    BY <1>1, <1>3, LeastOf
  <2>2. {i \in ks : i < k} = {}
    <3>1. \A i \in ks : ~(i < k)
      BY <1>1, <2>1
    <3> QED
      BY <3>1
  <2>3. Cardinality({i \in ks : i < k}) < PageSize
    BY <2>2, FS_EmptySet, StorageAssumption
  <2> QED
    BY <2>3 DEF FirstOf
<1>4. FirstOf(PageSize, ks) \subseteq ks
  BY DEF FirstOf
<1> QED
  BY <1>2, <1>3, <1>4

-----------------------------------------------------------------------------
(* Steps.                                                                  *)

StoredTyped ==
  stored \in [Keys -> Contents \cup {NoContent}] /\ uploaded \subseteq Contents /\ doomed \subseteq Contents

LEMMA ClientIdleFits ==
  /\ ClientIdle \in ClientRecord /\ ClientIdle.pc = "idle" /\ ClientIdle.steady = {}
<1>1. 1 \in Keys /\ 0 \in 0 .. LastKey
  BY StorageAssumption DEF Keys
<1> QED
  BY <1>1 DEF ClientIdle, ClientRecord

\* A caller that has just begun, or ended, owes nothing to a listing.
LEMMA NothingListed ==
  ASSUME NEW r, r.steady = {}
  PROVE  ListFits(r)
BY DEF ListFits

\* A step of one caller that only reads.
LEMMA ReadKeepsStorage ==
  ASSUME StorageInv, UNCHANGED <<stored, uploaded, doomed>>, NEW c \in Clients,
         NEW r \in ClientRecord, client' = [client EXCEPT ![c] = r],
         ListFits(r), DeletionFits(r), r.pc # "copied"
  PROVE  StorageInv'
<1>t. StorageTypeOK
  BY DEF StorageInv
<1>1. /\ client' \in [Clients -> ClientRecord] /\ client'[c] = r
      /\ \A d \in Clients \ {c} : client'[d] = client[d]
  BY <1>t DEF StorageTypeOK
<1>2. StorageTypeOK'
  BY <1>t, <1>1 DEF StorageTypeOK
<1>3. ASSUME NEW d \in Clients
      PROVE  ListFits(client'[d]) /\ DeletionFits(client'[d]) /\ MoveFits(client'[d])
  <2>1. CASE d = c
    BY <1>1, <2>1 DEF MoveFits
  <2>2. CASE d # c
    <3>1. ListFits(client[d]) /\ DeletionFits(client[d]) /\ MoveFits(client[d])
      BY DEF StorageInv
    <3> QED
      BY <1>1, <2>2, <3>1, Zenon
  <2> QED
    BY <2>1, <2>2
<1>4. \A d \in Clients : (ListFits(client[d]) /\ DeletionFits(client[d]) /\ MoveFits(client[d]))'
  BY <1>3 DEF ListFits, DeletionFits, MoveFits, Present
<1>5. \A d, e \in Clients :
        d # e /\ client'[d].pc = "copied" /\ client'[e].pc = "copied"
          /\ client'[d].held = client'[e].held =>
          client'[d].held \in doomed
  BY <1>1 DEF StorageInv, ClientAt
<1>6. \A x \in uploaded : x \in doomed \/ \E k \in Keys : stored[k] = x
  BY DEF StorageInv
<1> QED
  BY <1>2, <1>4, <1>5, <1>6 DEF StorageInv, ClientAt

\* A key is written: those who delete it forget that they have asked.
LEMMA PutFits ==
  ASSUME StorageTypeOK, NEW k \in Keys, NEW x \in Contents, stored' = [stored EXCEPT ![k] = x],
         NEW r \in ClientRecord, ListFits(r), DeletionFits(r)
  PROVE  \E s \in ClientRecord :
           /\ s = [r EXCEPT !.asked = @ \ {k}]
           /\ s.pc = r.pc /\ s.held = r.held /\ s.source = r.source
           /\ ListFits(s)' /\ DeletionFits(s)'
<1> DEFINE n == [r EXCEPT !.asked = @ \ {k}]
<1>1. /\ n \in ClientRecord /\ n.pc = r.pc /\ n.held = r.held /\ n.source = r.source
      /\ n.steady = r.steady /\ n.token = r.token /\ n.files = r.files /\ n.keys = r.keys
      /\ n.failures = r.failures /\ n.asked = r.asked \ {k}
      /\ r.steady \subseteq Keys /\ r.asked \subseteq Keys
  BY DEF ClientRecord
<1>2. PICK s \in ClientRecord : s = n
  BY <1>1
<1> HIDE DEF n
<1>3. \A j \in Keys : /\ j # k => stored'[j] = stored[j]
                      /\ Present(j) => stored'[j] # NoContent
  BY StorageAssumption DEF StorageTypeOK, Present
<1>4. ListFits(s)'
  BY <1>1, <1>2, <1>3 DEF ListFits, Present
<1>5. DeletionFits(s)'
  BY <1>1, <1>2, <1>3 DEF DeletionFits, Present
<1>6. s.pc = r.pc /\ s.held = r.held /\ s.source = r.source
  BY <1>1, <1>2
<1> QED
  BY <1>2, <1>4, <1>5, <1>6 DEF n

\* What a deletion still has to do, but for keys that are about to be deleted.
DeletionFitsBut(r, ks) ==
  /\ r.pc = "deleting" => \A k \in r.asked : k \in r.keys \/ k \in r.failures \/ k \in ks \/ ~Present(k)
  /\ r.pc = "deleted" => \A k \in r.asked : ~Present(k)

\* Keys are deleted: those who list know that they were not there throughout.
LEMMA RemoveFits ==
  ASSUME StorageTypeOK, NEW ks \in SUBSET Keys,
         stored' = [k \in Keys |-> IF k \in ks THEN NoContent ELSE stored[k]],
         NEW r \in ClientRecord, ListFits(r), DeletionFitsBut(r, ks)
  PROVE  \E s \in ClientRecord :
           /\ s = [r EXCEPT !.steady = @ \ ks]
           /\ s.pc = r.pc /\ s.held = r.held /\ s.source = r.source
           /\ ListFits(s)' /\ DeletionFits(s)'
<1> DEFINE n == [r EXCEPT !.steady = @ \ ks]
<1>1. /\ n \in ClientRecord /\ n.pc = r.pc /\ n.held = r.held /\ n.source = r.source
      /\ n.steady = r.steady \ ks /\ n.token = r.token /\ n.files = r.files /\ n.keys = r.keys
      /\ n.failures = r.failures /\ n.asked = r.asked
      /\ r.steady \subseteq Keys /\ r.asked \subseteq Keys
  BY DEF ClientRecord
<1>2. PICK s \in ClientRecord : s = n
  BY <1>1
<1> HIDE DEF n
<1>3. \A j \in Keys : /\ j \notin ks => stored'[j] = stored[j]
                      /\ j \in ks => stored'[j] = NoContent
                      /\ ~Present(j) => stored'[j] = NoContent
  BY DEF Present
<1>4. ListFits(s)'
  BY <1>1, <1>2, <1>3 DEF ListFits, Present
<1>5. DeletionFits(s)'
  BY <1>1, <1>2, <1>3 DEF DeletionFits, DeletionFitsBut, Present
<1>6. s.pc = r.pc /\ s.held = r.held /\ s.source = r.source
  BY <1>1, <1>2
<1> QED
  BY <1>2, <1>4, <1>5, <1>6 DEF n

\* What is lost is doomed: then what was uploaded, and what a move carries, is still somewhere.
Dooms ==
  /\ doomed \subseteq doomed'
  /\ \A k \in Keys : stored'[k] # stored[k] => stored[k] \in doomed' \cup {NoContent}

LEMMA DoomsKeeps ==
  ASSUME StorageInv, Dooms
  PROVE  /\ \A x \in uploaded : x \in doomed' \/ \E k \in Keys : stored'[k] = x
         /\ \A r \in ClientRecord : MoveFits(r) => MoveFits(r)'
<1>1. \A x \in Contents :
        x \in doomed \/ (\E k \in Keys : stored[k] = x) => x \in doomed' \/ \E k \in Keys : stored'[k] = x
  BY StorageAssumption DEF Dooms
<1>2. uploaded \subseteq Contents
  BY DEF StorageInv, StorageTypeOK
<1>3. ASSUME NEW r \in ClientRecord, MoveFits(r) PROVE MoveFits(r)'
  <2> SUFFICES ASSUME r.pc = "copied"
               PROVE  /\ r.held \in Contents
                      /\ r.held \in doomed' \/ \E j \in Keys \ {r.source} : stored'[j] = r.held
    BY DEF MoveFits
  <2> QED
    BY <1>3, StorageAssumption DEF MoveFits, Dooms
<1> QED
  BY <1>1, <1>2, <1>3 DEF StorageInv

\* The parts of the invariant, after a step in which every caller does what fits.
LEMMA StorageMoves ==
  ASSUME StoredTyped', client' \in [Clients -> ClientRecord],
         \A c \in Clients : ListFits(client[c])' /\ DeletionFits(client[c])' /\ MoveFits(client[c])',
         \A c, d \in Clients :
           c # d /\ client'[c].pc = "copied" /\ client'[d].pc = "copied"
             /\ client'[c].held = client'[d].held => client'[c].held \in doomed',
         \A x \in uploaded' : x \in doomed' \/ \E k \in Keys : stored'[k] = x
  PROVE  StorageInv'
BY DEF StorageInv, StorageTypeOK, StoredTyped, ClientAt

-----------------------------------------------------------------------------

\* A key is written, whatever the callers then hold.
LEMMA PutMoves ==
  ASSUME StorageTypeOK, NEW others \in [Clients -> ClientRecord], NEW k \in Keys, NEW x \in Contents, Put(k, x, others),
         \A c \in Clients : ListFits(others[c]) /\ DeletionFits(others[c])
  PROVE  /\ stored' \in [Keys -> Contents \cup {NoContent}]
         /\ client' \in [Clients -> ClientRecord]
         /\ \A c \in Clients :
              /\ client'[c].pc = others[c].pc /\ client'[c].held = others[c].held
              /\ client'[c].source = others[c].source
              /\ ListFits(client[c])' /\ DeletionFits(client[c])'
<1>1. client' = [c \in Clients |-> [others[c] EXCEPT !.asked = @ \ {k}]]
  BY DEF Put
<1>2. ASSUME NEW c \in Clients
      PROVE  /\ client'[c] \in ClientRecord /\ client'[c].pc = others[c].pc
             /\ client'[c].held = others[c].held /\ client'[c].source = others[c].source
             /\ ListFits(client[c])' /\ DeletionFits(client[c])'
  <2>1. PICK r \in ClientRecord : r = others[c]
    OBVIOUS
  <2>2. PICK s \in ClientRecord : /\ s = [r EXCEPT !.asked = @ \ {k}]
                                  /\ s.pc = r.pc /\ s.held = r.held /\ s.source = r.source
                                  /\ ListFits(s)' /\ DeletionFits(s)'
    BY <2>1, PutFits DEF Put
  <2>3. client'[c] = s
    BY <1>1, <2>1, <2>2
  <2> QED
    BY <2>1, <2>2, <2>3
<1>3. client' \in [Clients -> ClientRecord]
  BY <1>1, <1>2
<1>4. stored' \in [Keys -> Contents \cup {NoContent}]
  BY DEF Put, StorageTypeOK
<1> QED
  BY <1>2, <1>3, <1>4

\* Keys are deleted.
LEMMA RemoveMoves ==
  ASSUME StorageTypeOK, NEW others \in [Clients -> ClientRecord], NEW ks \in SUBSET Keys, Remove(ks, others),
         \A c \in Clients : ListFits(others[c]) /\ DeletionFitsBut(others[c], ks)
  PROVE  /\ stored' \in [Keys -> Contents \cup {NoContent}]
         /\ client' \in [Clients -> ClientRecord]
         /\ \A c \in Clients :
              /\ client'[c].pc = others[c].pc /\ client'[c].held = others[c].held
              /\ client'[c].source = others[c].source
              /\ ListFits(client[c])' /\ DeletionFits(client[c])'
<1>1. client' = [c \in Clients |-> [others[c] EXCEPT !.steady = @ \ ks]]
  BY DEF Remove
<1>2. ASSUME NEW c \in Clients
      PROVE  /\ client'[c] \in ClientRecord /\ client'[c].pc = others[c].pc
             /\ client'[c].held = others[c].held /\ client'[c].source = others[c].source
             /\ ListFits(client[c])' /\ DeletionFits(client[c])'
  <2>1. PICK r \in ClientRecord : r = others[c]
    OBVIOUS
  <2>2. PICK s \in ClientRecord : /\ s = [r EXCEPT !.steady = @ \ ks]
                                  /\ s.pc = r.pc /\ s.held = r.held /\ s.source = r.source
                                  /\ ListFits(s)' /\ DeletionFits(s)'
    BY <2>1, RemoveFits DEF Remove
  <2>3. client'[c] = s
    BY <1>1, <2>1, <2>2
  <2> QED
    BY <2>1, <2>2, <2>3
<1>3. client' \in [Clients -> ClientRecord]
  BY <1>1, <1>2
<1>4. stored' \in [Keys -> Contents \cup {NoContent}]
  BY DEF Remove, StorageTypeOK
<1> QED
  BY <1>2, <1>3, <1>4

-----------------------------------------------------------------------------

\* The callers as they are, when nobody's own step has begun.
LEMMA ClientsFit ==
  ASSUME StorageInv
  PROVE  /\ StorageTypeOK /\ client \in [Clients -> ClientRecord]
         /\ \A c \in Clients : ListFits(client[c]) /\ DeletionFits(client[c]) /\ MoveFits(client[c])
         /\ \A c, d \in Clients :
              c # d /\ client[c].pc = "copied" /\ client[d].pc = "copied"
                /\ client[c].held = client[d].held => client[c].held \in doomed
BY DEF StorageInv, StorageTypeOK, ClientAt

LEMMA ClientsWith ==
  ASSUME StorageInv, NEW c \in Clients, NEW r \in ClientRecord
  PROVE  \E others \in [Clients -> ClientRecord] :
           /\ others = [client EXCEPT ![c] = r] /\ others[c] = r
           /\ \A d \in Clients \ {c} : others[d] = client[d]
<1> DEFINE n == [client EXCEPT ![c] = r]
<1>1. n \in [Clients -> ClientRecord] /\ n[c] = r /\ \A d \in Clients \ {c} : n[d] = client[d]
  BY ClientsFit
<1>2. PICK others \in [Clients -> ClientRecord] : others = n
  BY <1>1
<1> HIDE DEF n
<1>3. others[c] = r /\ \A d \in Clients \ {c} : others[d] = client[d]
  BY <1>1, <1>2
<1> QED
  BY <1>2, <1>3 DEF n

\* The moves go on when a step dooms what it loses, and begins none.
LEMMA MovesGoOn ==
  ASSUME StorageInv, Dooms,
         \A c \in Clients : client'[c].pc = "copied" =>
           /\ client[c].pc = "copied" /\ client'[c].held = client[c].held
           /\ client'[c].source = client[c].source
  PROVE  /\ \A c \in Clients : MoveFits(client[c])'
         /\ \A c, d \in Clients :
              c # d /\ client'[c].pc = "copied" /\ client'[d].pc = "copied"
                /\ client'[c].held = client'[d].held => client'[c].held \in doomed'
<1>1. ASSUME NEW c \in Clients PROVE MoveFits(client[c])'
  <2>1. PICK r \in ClientRecord : r = client[c]
    BY ClientsFit
  <2>2. MoveFits(r)'
    BY <2>1, ClientsFit, DoomsKeeps
  <2> QED
    BY <2>1, <2>2 DEF MoveFits
<1>2. \A c, d \in Clients :
        c # d /\ client'[c].pc = "copied" /\ client'[d].pc = "copied"
          /\ client'[c].held = client'[d].held => client'[c].held \in doomed'
  BY ClientsFit DEF Dooms
<1> QED
  BY <1>1, <1>2

\* An upload, over whatever the key held.
LEMMA UploadKeeps ==
  ASSUME StorageInv, NEW k \in Keys, Upload(k)
  PROVE  StorageInv'
<1>1. PICK x \in Contents \ uploaded : Put(k, x, client) /\ uploaded' = uploaded \cup {x}
  BY DEF Upload
<1>2. stored' = [stored EXCEPT ![k] = x] /\ doomed' = doomed \cup ContentAt({k})
  BY <1>1 DEF Put, Upload
<1>t. StorageTypeOK
  BY ClientsFit
<1>3. PICK others \in [Clients -> ClientRecord] : others = client
  BY ClientsFit
<1>4. /\ stored' \in [Keys -> Contents \cup {NoContent}]
      /\ client' \in [Clients -> ClientRecord]
      /\ \A c \in Clients :
           /\ client'[c].pc = client[c].pc /\ client'[c].held = client[c].held
           /\ client'[c].source = client[c].source
           /\ ListFits(client[c])' /\ DeletionFits(client[c])'
  <2>1. Put(k, x, others)
    BY <1>1, <1>3 DEF Put
  <2>2. \A c \in Clients : ListFits(others[c]) /\ DeletionFits(others[c])
    BY <1>3, ClientsFit
  <2>3. /\ stored' \in [Keys -> Contents \cup {NoContent}]
        /\ client' \in [Clients -> ClientRecord]
        /\ \A c \in Clients :
             /\ client'[c].pc = others[c].pc /\ client'[c].held = others[c].held
             /\ client'[c].source = others[c].source
             /\ ListFits(client[c])' /\ DeletionFits(client[c])'
    BY <1>t, <2>1, <2>2, PutMoves
  <2> QED
    BY <1>3, <2>3, Zenon
<1>5. Dooms
  BY <1>t, <1>2 DEF Dooms, ContentAt, StorageTypeOK
<1>6. StoredTyped'
  BY <1>t, <1>1, <1>2, <1>4 DEF StorageTypeOK, StoredTyped, ContentAt
<1>7. /\ \A c \in Clients : MoveFits(client[c])'
      /\ \A c, d \in Clients :
           c # d /\ client'[c].pc = "copied" /\ client'[d].pc = "copied"
             /\ client'[c].held = client'[d].held => client'[c].held \in doomed'
  BY <1>4, <1>5, MovesGoOn
<1>8. \A y \in uploaded' : y \in doomed' \/ \E j \in Keys : stored'[j] = y
  <2>1. stored'[k] = x
    BY <1>t, <1>2 DEF StorageTypeOK
  <2> QED
    BY <1>1, <1>5, <2>1, DoomsKeeps
<1> QED
  BY <1>4, <1>6, <1>7, <1>8, StorageMoves

\* A deletion, of one key, or of those of a chunk by a caller that goes on: what is deleted is doomed.
LEMMA DeletionKeeps ==
  ASSUME StorageInv, NEW ks \in SUBSET Keys, NEW others \in [Clients -> ClientRecord],
         Remove(ks, others), doomed' = doomed \cup ContentAt(ks), UNCHANGED uploaded,
         \A c \in Clients : /\ ListFits(others[c]) /\ DeletionFitsBut(others[c], ks)
                            /\ (others[c].pc = "copied" => others[c] = client[c])
  PROVE  StorageInv'
<1>t. StorageTypeOK
  BY ClientsFit
<1>1. /\ stored' \in [Keys -> Contents \cup {NoContent}]
      /\ client' \in [Clients -> ClientRecord]
      /\ \A c \in Clients :
           /\ client'[c].pc = others[c].pc /\ client'[c].held = others[c].held
           /\ client'[c].source = others[c].source
           /\ ListFits(client[c])' /\ DeletionFits(client[c])'
  BY <1>t, RemoveMoves
<1>2. Dooms
  <2>1. \A k \in Keys : stored'[k] # stored[k] => k \in ks
    BY <1>t DEF Remove
  <2>2. \A k \in ks : stored[k] \in ContentAt(ks) \cup {NoContent}
    BY DEF ContentAt
  <2> QED
    BY <2>1, <2>2 DEF Dooms
<1>3. StoredTyped'
  BY <1>t, <1>1 DEF StorageTypeOK, StoredTyped, ContentAt
<1>4. /\ \A c \in Clients : MoveFits(client[c])'
      /\ \A c, d \in Clients :
           c # d /\ client'[c].pc = "copied" /\ client'[d].pc = "copied"
             /\ client'[c].held = client'[d].held => client'[c].held \in doomed'
  BY <1>1, <1>2, MovesGoOn
<1>5. \A y \in uploaded' : y \in doomed' \/ \E j \in Keys : stored'[j] = y
  BY <1>2, DoomsKeeps
<1> QED
  BY <1>1, <1>3, <1>4, <1>5, StorageMoves

LEMMA DeleteKeeps ==
  ASSUME StorageInv, NEW k \in Keys, Delete(k)
  PROVE  StorageInv'
<1>1. Remove({k}, client) /\ doomed' = doomed \cup ContentAt({k}) /\ UNCHANGED uploaded
  BY DEF Delete
<1>2. PICK others \in [Clients -> ClientRecord], ks \in SUBSET Keys : others = client /\ ks = {k}
  BY ClientsFit
<1>3. Remove(ks, others) /\ doomed' = doomed \cup ContentAt(ks)
  BY <1>1, <1>2 DEF Remove
<1>4. \A c \in Clients : /\ ListFits(others[c]) /\ DeletionFitsBut(others[c], ks)
                         /\ (others[c].pc = "copied" => others[c] = client[c])
  BY <1>2, ClientsFit DEF DeletionFits, DeletionFitsBut
<1> QED
  BY <1>1, <1>3, <1>4, DeletionKeeps

\* One request of a deletion: a key of the chunk is deleted, or remembered as failed.
LEMMA DeleteChunkKeeps ==
  ASSUME StorageInv, NEW c \in Clients, DeleteChunk(c)
  PROVE  StorageInv'
<1>t. client[c] \in ClientRecord /\ client[c].keys \in SUBSET Keys
  BY ClientsFit DEF ClientRecord
<1>1. PICK chunk \in SUBSET Keys : chunk = FirstOf(PageSize, client[c].keys)
  BY <1>t, PageIsFirst
<1>2. PICK bad \in SUBSET chunk :
        /\ Remove(chunk \ bad, [client EXCEPT ![c].keys = @ \ chunk,
                                              ![c].failures = AllFailures(c, bad)])
        /\ doomed' = doomed \cup ContentAt(chunk \ bad)
  BY <1>1 DEF DeleteChunk
<1>3. client[c].pc = "deleting" /\ UNCHANGED uploaded
  BY DEF DeleteChunk, ClientAt
<1>4. PICK ks \in SUBSET Keys : ks = chunk \ bad
  OBVIOUS
<1>5. PICK r \in ClientRecord :
        /\ [client EXCEPT ![c].keys = @ \ chunk, ![c].failures = AllFailures(c, bad)]
             = [client EXCEPT ![c] = r]
        /\ r.pc = "deleting" /\ r.steady = client[c].steady /\ r.asked = client[c].asked
        /\ r.keys = client[c].keys \ chunk /\ r.failures = client[c].failures \cup bad
  <2> DEFINE n == [client[c] EXCEPT !.keys = @ \ chunk, !.failures = client[c].failures \cup bad]
  <2>1. /\ n \in ClientRecord /\ n.pc = "deleting" /\ n.steady = client[c].steady
        /\ n.asked = client[c].asked /\ n.keys = client[c].keys \ chunk
        /\ n.failures = client[c].failures \cup bad
    BY <1>t, <1>3 DEF ClientRecord
  <2>2. [client EXCEPT ![c].keys = @ \ chunk, ![c].failures = AllFailures(c, bad)]
          = [client EXCEPT ![c] = n]
    BY ClientsFit DEF AllFailures
  <2>3. PICK r \in ClientRecord : r = n
    BY <2>1
  <2> HIDE DEF n
  <2> QED
    BY <2>1, <2>2, <2>3
<1>6. PICK others \in [Clients -> ClientRecord] :
        /\ others = [client EXCEPT ![c] = r] /\ others[c] = r
        /\ \A d \in Clients \ {c} : others[d] = client[d]
  BY ClientsWith
<1>7. Remove(ks, others) /\ doomed' = doomed \cup ContentAt(ks)
  BY <1>2, <1>4, <1>5, <1>6, Zenon
<1>8. ListFits(client[c]) /\ DeletionFits(client[c])
  BY ClientsFit
<1>9. ListFits(r)
  BY <1>3, <1>5, <1>8 DEF ListFits
<1>10. DeletionFitsBut(r, ks)
  <2>1. \A k \in client[c].asked : k \in client[c].keys \/ k \in client[c].failures \/ ~Present(k)
    BY <1>3, <1>8 DEF DeletionFits
  <2> QED
    BY <1>4, <1>5, <2>1 DEF DeletionFitsBut
<1>11. ASSUME NEW d \in Clients
       PROVE  /\ ListFits(others[d]) /\ DeletionFitsBut(others[d], ks)
              /\ (others[d].pc = "copied" => others[d] = client[d])
  <2>1. CASE d = c
    BY <1>5, <1>6, <1>9, <1>10, <2>1
  <2>2. CASE d # c
    <3>1. others[d] = client[d] /\ ListFits(client[d]) /\ DeletionFits(client[d])
      BY <1>6, <2>2, ClientsFit
    <3>2. DeletionFitsBut(client[d], ks)
      BY <3>1 DEF DeletionFits, DeletionFitsBut
    <3> QED
      BY <3>1, <3>2, Zenon
  <2> QED
    BY <2>1, <2>2
<1> QED
  BY <1>3, <1>7, <1>11, DeletionKeeps

-----------------------------------------------------------------------------
(* Moves.                                                                  *)

\* A move begins: what it carries is under its destination, and doomed when another carries it.
LEMMA MoveKeeps ==
  ASSUME StorageInv, NEW c \in Clients, NEW k \in Keys, NEW to \in Keys, Move(c, k, to)
  PROVE  StorageInv'
<1>t. /\ StorageTypeOK /\ client \in [Clients -> ClientRecord]
      /\ stored \in [Keys -> Contents \cup {NoContent}] /\ doomed \subseteq Contents
  BY ClientsFit DEF StorageTypeOK
<1>1. PICK x \in Contents : x = stored[k]
  BY <1>t DEF Move, Present
<1>2. /\ Put(to, x, [client EXCEPT ![c] = [ClientIdle EXCEPT !.pc = "copied", !.source = k,
                                                             !.dest = to, !.held = x]])
      /\ doomed' = doomed \cup (ContentAt({to}) \ {x})
                     \cup {y \in {x} : \E d \in Clients : ClientAt(d, "copied") /\ client[d].held = y}
      /\ client[c].pc = "idle" /\ k # to /\ UNCHANGED uploaded
  BY <1>1 DEF Move, CopyObject, ClientAt
<1>3. PICK r \in ClientRecord :
        /\ r = [ClientIdle EXCEPT !.pc = "copied", !.source = k, !.dest = to, !.held = x]
        /\ r.pc = "copied" /\ r.source = k /\ r.held = x /\ r.steady = {}
  <2> DEFINE n == [ClientIdle EXCEPT !.pc = "copied", !.source = k, !.dest = to, !.held = x]
  <2>1. n \in ClientRecord /\ n.pc = "copied" /\ n.source = k /\ n.held = x /\ n.steady = {}
    BY ClientIdleFits DEF ClientRecord
  <2>2. PICK r \in ClientRecord : r = n
    BY <2>1
  <2> HIDE DEF n
  <2>3. r.pc = "copied" /\ r.source = k /\ r.held = x /\ r.steady = {}
    BY <2>1, <2>2
  <2> QED
    BY <2>2, <2>3 DEF n
<1>4. PICK others \in [Clients -> ClientRecord] :
        /\ others = [client EXCEPT ![c] = r] /\ others[c] = r
        /\ \A d \in Clients \ {c} : others[d] = client[d]
  BY ClientsWith
<1>5. Put(to, x, others)
  BY <1>2, <1>3, <1>4, Zenon
<1>6. ASSUME NEW d \in Clients PROVE ListFits(others[d]) /\ DeletionFits(others[d])
  <2>1. CASE d = c
    BY <1>3, <1>4, <2>1 DEF ListFits, DeletionFits
  <2>2. CASE d # c
    BY <1>4, <2>2, ClientsFit, Zenon
  <2> QED
    BY <2>1, <2>2
<1>7. /\ stored' \in [Keys -> Contents \cup {NoContent}]
      /\ client' \in [Clients -> ClientRecord]
      /\ \A d \in Clients :
           /\ client'[d].pc = others[d].pc /\ client'[d].held = others[d].held
           /\ client'[d].source = others[d].source
           /\ ListFits(client[d])' /\ DeletionFits(client[d])'
  BY <1>t, <1>5, <1>6, PutMoves
<1>8. stored' = [stored EXCEPT ![to] = x]
  BY <1>5 DEF Put
<1>9. Dooms
  <2>1. \A j \in Keys : stored'[j] # stored[j] => j = to /\ stored[to] # x
    BY <1>t, <1>8
  <2>2. stored[to] # x => stored[to] \in doomed' \cup {NoContent}
    BY <1>2 DEF ContentAt
  <2>3. doomed \subseteq doomed'
    BY <1>2
  <2> QED
    BY <2>1, <2>2, <2>3 DEF Dooms
<1>10. StoredTyped'
  BY <1>t, <1>2, <1>7 DEF StorageTypeOK, StoredTyped, ContentAt
<1>11. ASSUME NEW d \in Clients PROVE MoveFits(client[d])'
  <2>1. CASE d = c
    <3>1. client'[c].pc = "copied" /\ client'[c].held = x /\ client'[c].source = k
      BY <1>3, <1>4, <1>7
    <3>2. stored'[to] = x
      BY <1>t, <1>8
    <3> QED
      BY <1>2, <2>1, <3>1, <3>2 DEF MoveFits
  <2>2. CASE d # c
    <3>1. PICK q \in ClientRecord : q = client[d]
      BY <1>t
    <3>2. MoveFits(q)'
      BY <1>9, <3>1, ClientsFit, DoomsKeeps
    <3>3. client'[d].pc = q.pc /\ client'[d].held = q.held /\ client'[d].source = q.source
      BY <1>4, <1>7, <2>2, <3>1
    <3> QED
      BY <3>2, <3>3 DEF MoveFits
  <2> QED
    BY <2>1, <2>2
<1>12. \A d \in Clients \ {c} : client[d].pc = "copied" /\ client[d].held = x => x \in doomed'
  BY <1>2 DEF ClientAt
<1>13. \A d, e \in Clients :
         d # e /\ client'[d].pc = "copied" /\ client'[e].pc = "copied"
           /\ client'[d].held = client'[e].held => client'[d].held \in doomed'
  <2>1. client'[c].held = x /\ \A d \in Clients \ {c} : /\ client'[d].pc = client[d].pc
                                                        /\ client'[d].held = client[d].held
    BY <1>3, <1>4, <1>7
  <2>2. \A d, e \in Clients :
          d # e /\ client[d].pc = "copied" /\ client[e].pc = "copied"
            /\ client[d].held = client[e].held => client[d].held \in doomed'
    BY <1>9, ClientsFit DEF Dooms
  <2> QED
    BY <1>12, <2>1, <2>2
<1>14. \A y \in uploaded' : y \in doomed' \/ \E j \in Keys : stored'[j] = y
  BY <1>2, <1>9, DoomsKeeps
<1> QED
  BY <1>7, <1>10, <1>11, <1>13, <1>14, StorageMoves

\* A move ends: the source goes, with what it has carried only when that is elsewhere or doomed.
LEMMA MoveDeleteKeeps ==
  ASSUME StorageInv, NEW c \in Clients, MoveDelete(c)
  PROVE  StorageInv'
<1>t. /\ StorageTypeOK /\ client \in [Clients -> ClientRecord] /\ client[c] \in ClientRecord
      /\ stored \in [Keys -> Contents \cup {NoContent}] /\ doomed \subseteq Contents
      /\ uploaded \subseteq Contents
  BY ClientsFit DEF StorageTypeOK
<1>1. PICK k \in Keys, ks \in SUBSET Keys, x \in Contents :
        k = client[c].source /\ ks = {k} /\ x = client[c].held
  BY <1>t, ClientsFit DEF MoveDelete, ClientAt, MoveFits, ClientRecord
<1>2. /\ client[c].pc = "copied" /\ UNCHANGED uploaded
      /\ Remove(ks, [client EXCEPT ![c] = ClientIdle])
      /\ doomed' = doomed \cup (ContentAt(ks) \ {x})
  BY <1>1 DEF MoveDelete, ClientAt
<1>3. PICK r \in ClientRecord : r = ClientIdle /\ r.pc = "idle" /\ r.steady = {}
  BY ClientIdleFits
<1>4. PICK others \in [Clients -> ClientRecord] :
        /\ others = [client EXCEPT ![c] = r] /\ others[c] = r
        /\ \A d \in Clients \ {c} : others[d] = client[d]
  BY ClientsWith
<1>5. Remove(ks, others)
  BY <1>2, <1>3, <1>4, Zenon
<1>6. ASSUME NEW d \in Clients PROVE ListFits(others[d]) /\ DeletionFitsBut(others[d], ks)
  <2>1. CASE d = c
    BY <1>3, <1>4, <2>1 DEF ListFits, DeletionFitsBut
  <2>2. CASE d # c
    <3>1. others[d] = client[d] /\ ListFits(client[d]) /\ DeletionFits(client[d])
      BY <1>4, <2>2, ClientsFit
    <3>2. DeletionFitsBut(client[d], ks)
      BY <3>1 DEF DeletionFits, DeletionFitsBut
    <3> QED
      BY <3>1, <3>2, Zenon
  <2> QED
    BY <2>1, <2>2
<1>7. /\ stored' \in [Keys -> Contents \cup {NoContent}]
      /\ client' \in [Clients -> ClientRecord]
      /\ \A d \in Clients :
           /\ client'[d].pc = others[d].pc /\ client'[d].held = others[d].held
           /\ client'[d].source = others[d].source
           /\ ListFits(client[d])' /\ DeletionFits(client[d])'
  BY <1>t, <1>5, <1>6, RemoveMoves
<1>8. stored'[k] = NoContent /\ \A j \in Keys \ {k} : stored'[j] = stored[j]
  BY <1>1, <1>5 DEF Remove
<1>9. doomed \subseteq doomed' /\ stored[k] \in doomed' \cup {NoContent, x}
  BY <1>1, <1>2 DEF ContentAt
<1>10. StoredTyped'
  BY <1>t, <1>2, <1>7 DEF StoredTyped, ContentAt
<1>11. x \in doomed \/ \E j \in Keys \ {k} : stored[j] = x
  BY <1>1, <1>2, ClientsFit DEF MoveFits
<1>12. ASSUME NEW y \in Contents, y \in doomed \/ \E j \in Keys : stored[j] = y
       PROVE  y \in doomed' \/ \E j \in Keys : stored'[j] = y
  BY <1>8, <1>9, <1>11, <1>12, StorageAssumption
<1>13. client'[c].pc = "idle" /\ \A d \in Clients \ {c} : /\ client'[d].pc = client[d].pc
                                                          /\ client'[d].held = client[d].held
                                                          /\ client'[d].source = client[d].source
  BY <1>3, <1>4, <1>7
<1>14. ASSUME NEW d \in Clients PROVE MoveFits(client[d])'
  <2>1. CASE d = c
    BY <1>13, <2>1 DEF MoveFits
  <2>2. CASE d # c /\ client[d].pc = "copied"
    <3>1. PICK q \in ClientRecord : q = client[d]
      BY <1>t
    <3>2. q.held \in Contents /\ (q.held \in doomed \/ \E j \in Keys \ {q.source} : stored[j] = q.held)
      BY <2>2, <3>1, ClientsFit DEF MoveFits
    <3>3. q.held = x => x \in doomed
      BY <1>1, <1>2, <2>2, <3>1, ClientsFit
    <3>4. q.held \in doomed' \/ \E j \in Keys \ {q.source} : stored'[j] = q.held
      BY <1>8, <1>9, <3>2, <3>3, StorageAssumption
    <3> QED
      BY <1>13, <2>2, <3>1, <3>2, <3>4 DEF MoveFits
  <2>3. CASE d # c /\ client[d].pc # "copied"
    BY <1>13, <2>3 DEF MoveFits
  <2> QED
    BY <2>1, <2>2, <2>3
<1>15. \A d, e \in Clients :
         d # e /\ client'[d].pc = "copied" /\ client'[e].pc = "copied"
           /\ client'[d].held = client'[e].held => client'[d].held \in doomed'
  BY <1>9, <1>13, ClientsFit
<1>16. \A y \in uploaded' : y \in doomed' \/ \E j \in Keys : stored'[j] = y
  BY <1>t, <1>2, <1>12 DEF StorageInv
<1> QED
  BY <1>7, <1>10, <1>14, <1>15, <1>16, StorageMoves

-----------------------------------------------------------------------------
(* Deletions and listings.                                                 *)

\* A deletion of many keys begins: all of them are still to be done.
LEMMA DeleteManyKeeps ==
  ASSUME StorageInv, NEW c \in Clients, DeleteMany(c)
  PROVE  StorageInv'
<1>1. PICK ks \in SUBSET Keys :
        client' = [client EXCEPT ![c] = [ClientIdle EXCEPT !.pc = "deleting", !.keys = ks, !.asked = ks]]
  BY DEF DeleteMany
<1>2. PICK r \in ClientRecord : /\ client' = [client EXCEPT ![c] = r]
                                /\ r.pc = "deleting" /\ r.keys = ks /\ r.asked = ks /\ r.steady = {}
  <2> DEFINE n == [ClientIdle EXCEPT !.pc = "deleting", !.keys = ks, !.asked = ks]
  <2>1. n \in ClientRecord /\ n.pc = "deleting" /\ n.keys = ks /\ n.asked = ks /\ n.steady = {}
    BY ClientIdleFits DEF ClientRecord
  <2>2. PICK r \in ClientRecord : r = n
    BY <2>1
  <2>3. client' = [client EXCEPT ![c] = n]
    BY <1>1
  <2> HIDE DEF n
  <2> QED
    BY <2>1, <2>2, <2>3
<1>3. ListFits(r) /\ DeletionFits(r)
  BY <1>2 DEF ListFits, DeletionFits
<1>4. UNCHANGED <<stored, uploaded, doomed>>
  BY DEF DeleteMany
<1> QED
  BY <1>2, <1>3, <1>4, ReadKeepsStorage

\* A deletion ends, with what it could not delete, or with nothing left to do.
LEMMA DeletionEndKeeps ==
  ASSUME StorageInv, NEW c \in Clients, DeleteStops(c) \/ DeleteManyEnds(c)
  PROVE  StorageInv'
<1>t. client[c] \in ClientRecord /\ ListFits(client[c]) /\ DeletionFits(client[c])
  BY ClientsFit
<1>1. PICK pc \in {"deleted", "refused"} :
        /\ client' = [client EXCEPT ![c].pc = pc]
        /\ (pc = "deleted" => client[c].keys = {} /\ client[c].failures = {})
  BY DEF DeleteStops, DeleteManyEnds
<1>2. client[c].pc = "deleting" /\ UNCHANGED <<stored, uploaded, doomed>>
  BY DEF DeleteStops, DeleteManyEnds, ClientAt
<1>3. PICK r \in ClientRecord : /\ client' = [client EXCEPT ![c] = r]
                                /\ r.pc = pc /\ r.asked = client[c].asked
                                /\ r.steady = client[c].steady
  <2> DEFINE n == [client[c] EXCEPT !.pc = pc]
  <2>1. n \in ClientRecord /\ n.pc = pc /\ n.asked = client[c].asked /\ n.steady = client[c].steady
    BY <1>t DEF ClientRecord
  <2>2. client' = [client EXCEPT ![c] = n]
    BY <1>1
  <2>3. PICK r \in ClientRecord : r = n
    BY <2>1
  <2> HIDE DEF n
  <2> QED
    BY <2>1, <2>2, <2>3
<1>4. ListFits(r)
  BY <1>t, <1>3 DEF ListFits
<1>5. DeletionFits(r)
  BY <1>t, <1>1, <1>2, <1>3 DEF DeletionFits
<1> QED
  BY <1>2, <1>3, <1>4, <1>5, ReadKeepsStorage

\* A listing begins before the first key.
LEMMA ListKeeps ==
  ASSUME StorageInv, NEW c \in Clients, List(c)
  PROVE  StorageInv'
<1>1. PICK ks \in SUBSET Keys : ks = {k \in Keys : Present(k)}
  OBVIOUS
<1>2. PICK r \in ClientRecord : /\ client' = [client EXCEPT ![c] = r]
                                /\ r.pc = "list" /\ r.steady = ks /\ r.token = 0
  <2> DEFINE n == [ClientIdle EXCEPT !.pc = "list", !.steady = ks]
  <2>1. n \in ClientRecord /\ n.pc = "list" /\ n.steady = ks /\ n.token = 0
    BY ClientIdleFits DEF ClientRecord, ClientIdle
  <2>2. client' = [client EXCEPT ![c] = n]
    BY <1>1 DEF List
  <2>3. PICK r \in ClientRecord : r = n
    BY <2>1
  <2> HIDE DEF n
  <2> QED
    BY <2>1, <2>2, <2>3
<1>3. ListFits(r)
  <2>1. \A k \in ks : k > 0
    BY StorageAssumption DEF Keys
  <2> QED
    BY <1>1, <1>2, <2>1 DEF ListFits, Keys
<1>4. DeletionFits(r) /\ UNCHANGED <<stored, uploaded, doomed>>
  BY <1>2 DEF DeletionFits, List
<1> QED
  BY <1>2, <1>3, <1>4, ReadKeepsStorage

\* A page names every key up to its last, and the last page every key there is after the token.
LEMMA ListPageKeeps ==
  ASSUME StorageInv, NEW c \in Clients, ListPage(c)
  PROVE  StorageInv'
<1>t. client[c] \in ClientRecord /\ ListFits(client[c]) /\ Keys \subseteq Nat
  BY ClientsFit, StorageAssumption DEF Keys
<1>f. /\ client[c].token \in 0 .. LastKey /\ client[c].files \in SUBSET Keys
      /\ client[c].steady \in SUBSET Keys
  BY <1>t DEF ClientRecord
<1>g. client[c].token \in Nat /\ \A k \in client[c].steady : k \in Nat
  <2>1. LastKey \in Nat
    BY StorageAssumption
  <2>2. client[c].token \in Nat
    BY <1>f, <2>1
  <2> QED
    BY <1>t, <1>f, <2>2
<1>1. client[c].pc = "list" /\ UNCHANGED <<stored, uploaded, doomed>>
  BY DEF ListPage, ClientAt
<1>2. PICK rest \in SUBSET Keys, page \in SUBSET Keys :
        rest = AfterToken(c) /\ page = FirstOf(PageSize, rest)
  <2>1. AfterToken(c) \in SUBSET Keys
    BY DEF AfterToken
  <2>2. FirstOf(PageSize, AfterToken(c)) \in SUBSET Keys
    BY <2>1, PageIsFirst
  <2> QED
    BY <2>1, <2>2
<1>3. /\ page \subseteq rest /\ (rest # {} => page # {})
      /\ \A j \in page, k \in rest : k <= j => k \in page
  BY <1>2, PageIsFirst
<1>4. \A k \in client[c].steady : k > client[c].token => k \in rest
  BY <1>t, <1>f, <1>2 DEF AfterToken, ListFits
<1>5. \A k \in client[c].steady : k <= client[c].token => k \in client[c].files
  BY <1>t, <1>1 DEF ListFits
<1>6. PICK pc \in {"list", "listed"}, token \in 0 .. LastKey :
        /\ client' = [client EXCEPT ![c].files = @ \cup page, ![c].pc = pc, ![c].token = token]
        /\ (pc = "listed" => page = rest)
        /\ (pc = "list" => \A k \in rest : k <= token => k \in page)
  <2>1. CASE page = rest
    <3>1. client' = [client EXCEPT ![c].files = @ \cup page, ![c].pc = "listed",
                                   ![c].token = client[c].token]
      BY <1>2, <2>1, ClientsFit DEF ListPage
    <3> QED
      BY <1>f, <2>1, <3>1
  <2>2. CASE page # rest
    <3>1. page # {} /\ page \subseteq 0 .. LastKey
      BY <1>3, <2>2, StorageAssumption DEF Keys
    <3>2. \E k \in page : \A j \in page : j <= k
      BY <3>1, GreatestOf, StorageAssumption
    <3>3. PICK last \in page : /\ last = CHOOSE k \in page : \A j \in page : j <= k
                               /\ \A j \in page : j <= last
      BY <3>2
    <3>4. client' = [client EXCEPT ![c].files = @ \cup page, ![c].pc = "list", ![c].token = last]
      BY <1>2, <2>2, <3>3 DEF ListPage
    <3> QED
      BY <1>3, <3>1, <3>3, <3>4
  <2> QED
    BY <2>1, <2>2
<1>7. PICK r \in ClientRecord : /\ client' = [client EXCEPT ![c] = r]
                                /\ r.pc = pc /\ r.token = token /\ r.files = client[c].files \cup page
                                /\ r.steady = client[c].steady
  <2> DEFINE n == [client[c] EXCEPT !.files = client[c].files \cup page, !.pc = pc, !.token = token]
  <2>1. /\ n \in ClientRecord /\ n.pc = pc /\ n.token = token
        /\ n.files = client[c].files \cup page /\ n.steady = client[c].steady
    BY <1>t DEF ClientRecord
  <2>2. client' = [client EXCEPT ![c] = n]
    BY <1>6, ClientsFit
  <2>3. PICK r \in ClientRecord : r = n
    BY <2>1
  <2> HIDE DEF n
  <2> QED
    BY <2>1, <2>2, <2>3
<1>8. ListFits(r)
  <2>1. \A k \in r.steady : Present(k)
    BY <1>t, <1>7 DEF ListFits
  <2>2. ASSUME r.pc = "list", NEW k \in r.steady, k <= r.token PROVE k \in r.files
    <3>1. CASE k <= client[c].token
      BY <1>5, <1>7, <2>2, <3>1
    <3>2. CASE ~(k <= client[c].token)
      <4>1. k \in rest
        <5>1. k \in client[c].steady
          BY <1>7, <2>2
        <5>2. k \in Nat /\ client[c].token \in Nat
          BY <1>g, <5>1
        <5>3. k > client[c].token
          BY <3>2, <5>2
        <5> QED
          BY <1>4, <5>1, <5>3
      <4> QED
        BY <1>6, <1>7, <2>2, <4>1
    <3> QED
      BY <3>1, <3>2
  <2>3. ASSUME r.pc = "listed", NEW k \in r.steady PROVE k \in r.files
    <3>1. CASE k <= client[c].token
      BY <1>5, <1>7, <2>3, <3>1
    <3>2. CASE ~(k <= client[c].token)
      <4>1. k \in rest
        <5>1. k \in client[c].steady
          BY <1>7, <2>3
        <5>2. k \in Nat /\ client[c].token \in Nat
          BY <1>g, <5>1
        <5>3. k > client[c].token
          BY <3>2, <5>2
        <5> QED
          BY <1>4, <5>1, <5>3
      <4> QED
        BY <1>6, <1>7, <2>3, <4>1
    <3> QED
      BY <3>1, <3>2
  <2> QED
    BY <2>1, <2>2, <2>3 DEF ListFits
<1>9. DeletionFits(r) /\ r.pc # "copied"
  BY <1>7 DEF DeletionFits
<1> QED
  BY <1>1, <1>7, <1>8, <1>9, ReadKeepsStorage

LEMMA GoneKeepsStorage ==
  ASSUME StorageInv, NEW c \in Clients, ClientGone(c)
  PROVE  StorageInv'
<1>1. PICK r \in ClientRecord : r = ClientIdle /\ r.pc = "idle" /\ r.steady = {}
  BY ClientIdleFits
<1>2. client' = [client EXCEPT ![c] = r] /\ UNCHANGED <<stored, uploaded, doomed>>
  BY <1>1 DEF ClientGone
<1>3. ListFits(r) /\ DeletionFits(r)
  BY <1>1 DEF ListFits, DeletionFits
<1> QED
  BY <1>1, <1>2, <1>3, ReadKeepsStorage

LEMMA StorageInitInv == StorageInit => StorageInv
<1> SUFFICES ASSUME StorageInit PROVE StorageInv
  OBVIOUS
<1>1. StorageTypeOK
  BY ClientIdleFits DEF StorageInit, StorageTypeOK
<1>2. ASSUME NEW c \in Clients
      PROVE  client[c].pc = "idle" /\ client[c].steady = {}
  BY ClientIdleFits, Zenon DEF StorageInit
<1>3. \A c \in Clients : ListFits(client[c]) /\ DeletionFits(client[c]) /\ MoveFits(client[c])
  BY <1>2 DEF ListFits, DeletionFits, MoveFits
<1>4. uploaded = {}
  BY DEF StorageInit
<1> QED
  BY <1>1, <1>2, <1>3, <1>4 DEF StorageInv, ClientAt

\* In every state of the storage, what each caller holds is what it will report, and what was
\* uploaded is somewhere or doomed.
THEOREM StorageInvariant == StorageSpec => []StorageInv
<1>1. ASSUME StorageInv, [StorageNext]_storageVars PROVE StorageInv'
  <2>1. ASSUME NEW k \in Keys, Upload(k) \/ Delete(k) PROVE StorageInv'
    BY <1>1, <2>1, UploadKeeps, DeleteKeeps
  <2>2. ASSUME NEW c \in Clients, NEW k \in Keys, NEW to \in Keys, Move(c, k, to) PROVE StorageInv'
    BY <1>1, <2>2, MoveKeeps
  <2>3. ASSUME NEW c \in Clients,
               \/ MoveDelete(c) \/ DeleteMany(c) \/ DeleteChunk(c) \/ DeleteStops(c)
               \/ DeleteManyEnds(c) \/ List(c) \/ ListPage(c) \/ ClientGone(c)
        PROVE  StorageInv'
    BY <1>1, <2>3, MoveDeleteKeeps, DeleteManyKeeps, DeleteChunkKeeps, DeletionEndKeeps, ListKeeps,
       ListPageKeeps, GoneKeepsStorage
  <2>4. CASE UNCHANGED storageVars
    <3>1. UNCHANGED <<stored, uploaded, doomed, client>>
      BY <2>4 DEF storageVars
    <3>2. StorageTypeOK' /\ \A c \in Clients :
            (ListFits(client[c]) /\ DeletionFits(client[c]) /\ MoveFits(client[c]))'
      BY <1>1, <3>1 DEF StorageInv, StorageTypeOK, ListFits, DeletionFits, MoveFits, Present
    <3> QED
      BY <1>1, <3>1, <3>2 DEF StorageInv, ClientAt
  <2> QED
    BY <1>1, <2>1, <2>2, <2>3, <2>4 DEF StorageNext
<1> QED
  BY <1>1, StorageInitInv, PTL DEF StorageSpec

\* A listing that has ended names every key that held an object all the while; a deletion that
\* succeeds has left none of its keys but those written since; and what nobody has deleted or
\* written over is somewhere, whatever moves were interrupted.
THEOREM StorageHolds == StorageSpec => []StorageKeepsItsPromises
<1>1. ASSUME StorageInv PROVE StorageKeepsItsPromises
  <2>1. ASSUME NEW c \in Clients
        PROVE  /\ ClientAt(c, "listed") => client[c].steady \subseteq client[c].files
               /\ ClientAt(c, "deleted") => \A k \in client[c].asked : ~Present(k)
    BY <1>1, ClientsFit DEF ListFits, DeletionFits, ClientAt
  <2>2. uploaded \subseteq doomed \cup ContentAt(Keys)
    BY <1>1, StorageAssumption DEF StorageInv, StorageTypeOK, ContentAt
  <2> QED
    BY <2>1, <2>2 DEF StorageKeepsItsPromises
<1> QED
  BY <1>1, StorageInvariant, PTL

-----------------------------------------------------------------------------
(* NotificationFeed.                                                       *)

\* While a client reads, it has had every row that stays in the feed and lies behind its cursor
\* once, and none of those before it.
PagerFits ==
  /\ pager.pc = "idle" => pager.due = {} /\ \A n \in Notes : pager.got[n] = 0
  /\ pager.pc = "reading" =>
       \A n \in pager.due : /\ Visible(n)
                            /\ pager.got[n] = IF BeforeCursor(n, pager.cursor) THEN 0 ELSE 1
  /\ PagesAreExact

\* Only a row that is there has been reported.
ReportsFit == \A n \in Notes : reports[n] # {} => There(n) /\ reports[n] = {feedRow[n].deliveries}

\* The inductive invariant.
FeedInv == FeedTypeOK /\ PagerFits /\ ReportsFit

\* A finite set has a last element in any strict order.
LEMMA LastOfOrder ==
  ASSUME NEW S, IsFiniteSet(S), S # {}, NEW R,
         \A x \in S : <<x, x>> \notin R,
         \A x, y, z \in S : <<x, y>> \in R /\ <<y, z>> \in R => <<x, z>> \in R
  PROVE  \E x \in S : \A y \in S : <<x, y>> \notin R
<1> DEFINE After1(x) == {y \in S : <<x, y>> \in R}
           Counts == {Cardinality(After1(x)) : x \in S}
<1>1. ASSUME NEW x \in S
      PROVE  IsFiniteSet(After1(x)) /\ Cardinality(After1(x)) \in Nat
  <2>1. After1(x) \in SUBSET S
    OBVIOUS
  <2>2. IsFiniteSet(After1(x))
    BY <2>1, FS_Subset
  <2> QED
    BY <2>2, FS_CardinalityType
<1>2. Counts \subseteq Nat /\ Counts # {}
  <2>1. \A k \in Counts : \E x \in S : k = Cardinality(After1(x))
    BY Zenon
  <2>2. \A x \in S : Cardinality(After1(x)) \in Counts
    BY Zenon
  <2> HIDE DEF Counts, After1
  <2> QED
    BY <1>1, <2>1, <2>2
<1>3. PICK k \in Counts : \A i \in Counts : k <= i
  BY <1>2, LeastOf
<1>4. PICK x \in S : k = Cardinality(After1(x))
  BY <1>3
<1>5. ASSUME NEW y \in S, <<x, y>> \in R PROVE FALSE
  <2>1. After1(y) \in SUBSET After1(x) /\ y \in After1(x) /\ y \notin After1(y)
    BY <1>5
  <2>2. Cardinality(After1(y)) <= Cardinality(After1(x))
        /\ (Cardinality(After1(x)) = Cardinality(After1(y)) => After1(x) = After1(y))
    <3> HIDE DEF After1
    <3> QED
      BY <1>1, <2>1, FS_Subset
  <2>3. k <= Cardinality(After1(y))
    <3>1. Cardinality(After1(y)) \in Counts
      BY Zenon
    <3> QED
      BY <1>3, <3>1, Zenon
  <2>4. k \in Nat /\ Cardinality(After1(y)) \in Nat
    BY <1>1, <1>4
  <2> HIDE DEF After1
  <2> QED
    BY <1>4, <2>1, <2>2, <2>3, <2>4
<1> QED
  BY <1>5

LEMMA LastNote == \E n \in Notes : \A m \in Notes : m <= n
<1>1. Notes \subseteq Nat /\ IsFiniteSet(Notes) /\ Notes # {}
  BY FeedAssumption
<1> DEFINE R == {p \in Nat \X Nat : p[1] < p[2]}
<1>2. \A x, y \in Nat : <<x, y>> \in R <=> x < y
  OBVIOUS
<1> HIDE DEF R
<1>3. PICK n \in Notes : \A m \in Notes : <<n, m>> \notin R
  <2>1. \A x \in Notes : <<x, x>> \notin R
    BY <1>1, <1>2
  <2>2. \A x, y, z \in Notes : <<x, y>> \in R /\ <<y, z>> \in R => <<x, z>> \in R
    BY <1>1, <1>2
  <2> QED
    BY <1>1, <2>1, <2>2, LastOfOrder
<1>4. ASSUME NEW m \in Notes PROVE m <= n
  <2>1. m \in Nat /\ n \in Nat /\ <<n, m>> \notin R
    BY <1>1, <1>3
  <2>2. ~(n < m)
    BY <1>2, <2>1
  <2> QED
    BY <2>1, <2>2
<1> QED
  BY <1>4

LEMMA NewerIsOrder ==
  ASSUME FeedTypeOK
  PROVE  /\ \A n \in Notes : n \in Nat /\ feedRow[n].at \in Nat /\ feedRow[n].at <= LastTime
         /\ \A n \in Notes : ~Newer(n, n)
         /\ \A x, y, z \in Notes : Newer(x, y) /\ Newer(y, z) => Newer(x, z)
         /\ \A x, y \in Notes : x = y \/ Newer(x, y) \/ Newer(y, x)
<1>1. \A n \in Notes : n \in Nat /\ feedRow[n].at \in Nat /\ feedRow[n].at <= LastTime
  BY FeedAssumption DEF FeedTypeOK, FeedRow, Times
<1> QED
  BY <1>1 DEF Newer

\* A page is the beginning of what is left, and everything else comes after its last row.
LEMMA PageIsNewest ==
  ASSUME FeedTypeOK, NEW rest \in SUBSET Notes
  PROVE  /\ PageOf(rest) \subseteq rest
         /\ PageOf(rest) # {} =>
              /\ LastOf(PageOf(rest)) \in PageOf(rest)
              /\ \A n \in PageOf(rest) : n = LastOf(PageOf(rest)) \/ Newer(n, LastOf(PageOf(rest)))
              /\ \A n \in rest \ PageOf(rest) : Newer(LastOf(PageOf(rest)), n)
<1> DEFINE page == PageOf(rest)
           Before(n) == {m \in rest : Newer(m, n)}
<1>1. page \subseteq rest /\ page \subseteq Notes
  BY DEF PageOf
<1>2. IsFiniteSet(rest) /\ IsFiniteSet(page)
  BY <1>1, FeedAssumption, FS_Subset
<1>3. SUFFICES ASSUME page # {}
               PROVE  /\ LastOf(page) \in page
                      /\ \A n \in page : n = LastOf(page) \/ Newer(n, LastOf(page))
                      /\ \A n \in rest \ page : Newer(LastOf(page), n)
  BY <1>1
<1>4. \E n \in page : \A m \in page : m = n \/ Newer(m, n)
  <2> DEFINE R == {p \in Notes \X Notes : Newer(p[1], p[2])}
  <2>1. \A x, y \in Notes : <<x, y>> \in R <=> Newer(x, y)
    OBVIOUS
  <2> HIDE DEF R, page
  <2>2. \A x \in page : <<x, x>> \notin R
    BY <1>1, <2>1, NewerIsOrder
  <2>3. \A x, y, z \in page : <<x, y>> \in R /\ <<y, z>> \in R => <<x, z>> \in R
    BY <1>1, <2>1, NewerIsOrder
  <2>4. PICK n \in page : \A m \in page : <<n, m>> \notin R
    BY <1>2, <1>3, <2>2, <2>3, LastOfOrder
  <2>5. \A m \in page : m = n \/ Newer(m, n)
    BY <1>1, <2>1, <2>4, NewerIsOrder
  <2> QED
    BY <2>5
<1>5. LastOf(page) \in page /\ \A m \in page : m = LastOf(page) \/ Newer(m, LastOf(page))
  <2> HIDE DEF page
  <2> QED
    BY <1>4 DEF LastOf
<1>6. ASSUME NEW n \in rest \ page, ~Newer(LastOf(page), n) PROVE FALSE
  <2> DEFINE l == LastOf(page)
  <2>1. l \in Notes /\ l \in page /\ n \in Notes /\ n # l /\ Newer(n, l)
    BY <1>1, <1>5, <1>6, NewerIsOrder
  <2>2. Before(n) \in SUBSET Before(l)
    BY <2>1, NewerIsOrder
  <2>3. IsFiniteSet(Before(l))
    <3>1. Before(l) \in SUBSET rest
      OBVIOUS
    <3> QED
      BY <1>2, <3>1, FS_Subset
  <2>4. Cardinality(Before(n)) <= Cardinality(Before(l)) /\ IsFiniteSet(Before(n))
    <3> HIDE DEF Before, l
    <3> QED
      BY <2>2, <2>3, FS_Subset
  <2>5. Cardinality(Before(n)) \in Nat /\ Cardinality(Before(l)) \in Nat
    <3> HIDE DEF Before, l
    <3> QED
      BY <2>3, <2>4, FS_CardinalityType
  <2>6. Cardinality(Before(l)) < PageLimit /\ ~(Cardinality(Before(n)) < PageLimit)
    BY <1>6, <2>1 DEF PageOf
  <2> HIDE DEF Before, l
  <2> QED
    BY <2>4, <2>5, <2>6, FeedAssumption
<1> QED
  BY <1>5, <1>6

LEMMA SomeoneIsThere ==
  /\ Someone \in Types /\ NoRow \in FeedRow /\ NoRow.there = FALSE /\ 0 \in Times
  /\ \A t \in Types : Definition[t].supported \subseteq Channel
<1>1. Someone \in Types
  BY TypesAssumption DEF Someone
<1>2. 0 \in Times
  BY FeedAssumption DEF Times
<1>3. \A t \in Types : Definition[t].supported \subseteq Channel
  BY TypesAssumption DEF Definition, Channel
<1> QED
  BY <1>1, <1>2, <1>3 DEF NoRow, FeedRow

LEMMA FeedStarts == FeedInit => FeedInv
<1> SUFFICES ASSUME FeedInit PROVE FeedInv
  OBVIOUS
<1>1. PICK first \in Notes : first = CHOOSE n \in Notes : TRUE
  BY FeedAssumption
<1>2. feedRow \in [Notes -> FeedRow] /\ reports \in [Notes -> SUBSET SUBSET Channel]
      /\ \A n \in Notes : reports[n] = {}
  BY SomeoneIsThere DEF FeedInit
<1>3. /\ master \in BOOLEAN /\ choices \in [Overridable -> {"unset", "on", "off"}]
      /\ changes \in 0 .. MaxChoices /\ clockNow \in Times
  BY FeedAssumption, SomeoneIsThere DEF FeedInit
<1>4. producing \in [Producers -> Producing]
  BY <1>1, SomeoneIsThere DEF FeedInit, Producing, Channel
<1>5. /\ pager \in Pager /\ pager.pc = "idle" /\ pager.due = {}
      /\ \A n \in Notes : pager.got[n] = 0
  BY SomeoneIsThere DEF FeedInit, Pager
<1>6. FeedTypeOK
  BY <1>2, <1>3, <1>4, <1>5 DEF FeedTypeOK
<1>7. PagerFits /\ ReportsFit
  BY <1>2, <1>5 DEF PagerFits, ReportsFit, PagesAreExact
<1> QED
  BY <1>6, <1>7 DEF FeedInv

\* The rows a client is to read stay in the feed, or are taken off its list.
LEMMA PagerStays ==
  ASSUME FeedInv,
         pager'.pc = pager.pc /\ pager'.cursor = pager.cursor /\ pager'.got = pager.got,
         pager'.due \subseteq pager.due,
         \A n \in pager'.due : Visible(n) => Visible(n)' /\ feedRow'[n].at = feedRow[n].at
  PROVE  PagerFits'
<1>1. PagerFits
  BY DEF FeedInv
<1>2. ASSUME pager.pc = "reading", NEW n \in pager'.due
      PROVE  /\ Visible(n)'
             /\ pager'.got[n] = IF BeforeCursor(n, pager.cursor)' THEN 0 ELSE 1
  <2>1. Visible(n) /\ pager.got[n] = IF BeforeCursor(n, pager.cursor) THEN 0 ELSE 1
    BY <1>1, <1>2 DEF PagerFits
  <2>2. Visible(n)' /\ feedRow'[n].at = feedRow[n].at
    BY <2>1
  <2>3. BeforeCursor(n, pager.cursor)' <=> BeforeCursor(n, pager.cursor)
    BY <2>2 DEF BeforeCursor
  <2> QED
    BY <2>1, <2>2, <2>3
<1>3. pager'.pc = "idle" => pager'.due = {} /\ \A n \in Notes : pager'.got[n] = 0
  BY <1>1 DEF PagerFits
<1>4. PagesAreExact'
  BY <1>1 DEF PagerFits, PagesAreExact
<1> QED
  BY <1>2, <1>3, <1>4 DEF PagerFits

\* What changes neither the rows nor the reports.
LEMMA FeedRests ==
  ASSUME FeedInv, FeedTypeOK', UNCHANGED <<feedRow, pager, reports>>
  PROVE  FeedInv'
<1>1. PagerFits'
  BY PagerStays DEF Visible, There
<1>2. ReportsFit'
  BY DEF FeedInv, ReportsFit, There
<1> QED
  BY <1>1, <1>2 DEF FeedInv

\* One row changes, and the pager with it.
LEMMA RowGoes ==
  ASSUME FeedInv, NEW n \in Notes, NEW r \in FeedRow, feedRow' = [feedRow EXCEPT ![n] = r],
         pager' \in Pager, pager'.pc = pager.pc, pager'.cursor = pager.cursor,
         pager'.got = pager.got, pager'.due \subseteq pager.due,
         n \in pager'.due /\ Visible(n) => r.there /\ ~r.archived /\ r.at = feedRow[n].at,
         reports' \in [Notes -> SUBSET SUBSET Channel],
         \A m \in Notes : m # n => reports'[m] = reports[m],
         reports'[n] # {} => r.there /\ reports'[n] = {r.deliveries},
         producing' \in [Producers -> Producing],
         UNCHANGED <<master, choices, changes, clockNow>>
  PROVE  FeedInv'
<1>t. FeedTypeOK /\ ReportsFit
  BY DEF FeedInv
<1>1. feedRow'[n] = r /\ \A m \in Notes : m # n => feedRow'[m] = feedRow[m]
  BY <1>t DEF FeedTypeOK
<1>2. FeedTypeOK'
  BY <1>t DEF FeedTypeOK
<1>3. ASSUME NEW m \in pager'.due, Visible(m)
      PROVE  Visible(m)' /\ feedRow'[m].at = feedRow[m].at
  <2>1. m \in Notes
    BY <1>2, <1>3 DEF FeedTypeOK, Pager
  <2> QED
    BY <1>1, <1>3, <2>1 DEF Visible, There
<1>4. PagerFits'
  BY <1>3, PagerStays
<1>5. ReportsFit'
  <2> SUFFICES ASSUME NEW m \in Notes, reports'[m] # {}
               PROVE  feedRow'[m].there /\ reports'[m] = {feedRow'[m].deliveries}
    BY DEF ReportsFit, There
  <2>1. CASE m = n
    BY <1>1, <2>1
  <2>2. CASE m # n
    BY <1>t, <1>1, <2>2 DEF ReportsFit, There
  <2> QED
    BY <2>1, <2>2
<1> QED
  BY <1>2, <1>4, <1>5 DEF FeedInv

LEMMA BuildPlanKeeps ==
  ASSUME FeedInv, NEW p \in Producers, BuildPlan(p)
  PROVE  FeedInv'
<1>t. FeedTypeOK
  BY DEF FeedInv
<1>1. PICK n \in Notes, t \in Types :
        producing' = [producing EXCEPT ![p] =
          [pc |-> "planned", note |-> n, type |-> t, since |-> clockNow,
           channels |-> Resolve(t), result |-> "none"]]
  BY DEF BuildPlan
<1>2. Resolve(t) \subseteq Channel
  BY SomeoneIsThere DEF Resolve
<1>3. producing' \in [Producers -> Producing]
  <2>1. [pc |-> "planned", note |-> n, type |-> t, since |-> clockNow,
         channels |-> Resolve(t), result |-> "none"] \in Producing
    BY <1>t, <1>2 DEF Producing, FeedTypeOK
  <2> QED
    BY <1>t, <1>1, <2>1 DEF FeedTypeOK
<1>4. FeedTypeOK'
  BY <1>t, <1>3 DEF BuildPlan, FeedTypeOK
<1> QED
  BY <1>4, FeedRests DEF BuildPlan

LEMMA Finishes ==
  ASSUME FeedTypeOK, NEW p \in Producers, NEW result \in {"created", "replayed", "conflict"},
         Finish(p, result)
  PROVE  producing' \in [Producers -> Producing]
<1>1. producing[p] \in Producing /\ producing \in [Producers -> Producing]
  BY DEF FeedTypeOK
<1> DEFINE e == [producing[p] EXCEPT !.pc = "done", !.result = result]
<1>2. e \in Producing
  BY <1>1 DEF Producing
<1>3. producing' = [producing EXCEPT ![p] = e]
  BY <1>1 DEF Finish
<1> HIDE DEF e
<1> QED
  BY <1>1, <1>2, <1>3

LEMMA WriteKeeps ==
  ASSUME FeedInv, NEW p \in Producers, Write(p)
  PROVE  FeedInv'
<1>t. /\ FeedTypeOK /\ ReportsFit /\ producing[p] \in Producing
      /\ UNCHANGED <<master, choices, changes, clockNow, pager>>
  BY DEF FeedInv, FeedTypeOK, Write
<1>n. PICK n \in Notes, t \in Types, chs \in SUBSET Channel :
        n = producing[p].note /\ t = producing[p].type /\ chs = producing[p].channels
  BY <1>t DEF Producing
<1>p. pager \in Pager
  BY <1>t DEF FeedTypeOK
<1>1. CASE There(n)
  <2>0. UNCHANGED feedRow /\ feedRow' = [feedRow EXCEPT ![n] = feedRow[n]] /\ feedRow[n] \in FeedRow
    BY <1>1, <1>n, <1>t DEF Write, FeedTypeOK
  <2>1. PICK result \in {"replayed", "conflict"} : Finish(p, result)
    BY <1>1, <1>n DEF Write
  <2>2. producing' \in [Producers -> Producing]
    BY <1>t, <2>1, Finishes
  <2>3. PICK x \in SUBSET SUBSET Channel :
             reports' = [reports EXCEPT ![n] = x] /\ (x = reports[n] \/ x = reports[n] \cup {feedRow[n].deliveries})
    <3>1. reports[n] \in SUBSET SUBSET Channel /\ feedRow[n].deliveries \in SUBSET Channel
      BY <1>t, <2>0 DEF FeedTypeOK, FeedRow
    <3>2. CASE Reported(n, feedRow[n].deliveries)
      BY <3>1, <3>2 DEF Reported
    <3>3. CASE UNCHANGED reports
      BY <1>t, <3>1, <3>3 DEF FeedTypeOK
    <3> QED
      BY <1>1, <1>n, <3>2, <3>3 DEF Write, DeliveredChannels
  <2>4. /\ reports' \in [Notes -> SUBSET SUBSET Channel] /\ reports'[n] = x
        /\ \A m \in Notes : m # n => reports'[m] = reports[m]
    BY <1>t, <2>3 DEF FeedTypeOK
  <2>5. x # {} => feedRow[n].there /\ x = {feedRow[n].deliveries}
    BY <1>1, <1>t, <2>3 DEF ReportsFit, There
  <2>6. FeedTypeOK'
    BY <1>t, <2>0, <2>2, <2>4 DEF FeedTypeOK
  <2>7. PagerFits'
    BY <1>t, <2>0, PagerStays DEF Visible, There
  <2>8. ReportsFit'
    BY <1>t, <2>0, <2>4, <2>5 DEF ReportsFit, There
  <2> QED
    BY <2>6, <2>7, <2>8 DEF FeedInv
<1>2. CASE ~There(n)
  <2>1. PICK at \in producing[p].since .. clockNow, open \in BOOLEAN :
          /\ feedRow' = [feedRow EXCEPT ![n] =
               [there |-> TRUE, type |-> t, at |-> at, deliveries |-> chs, open |-> open,
                read |-> FALSE, archived |-> FALSE]]
          /\ Finish(p, "created") /\ Reported(n, chs)
    BY <1>2, <1>n DEF Write
  <2>2. PICK r \in FeedRow : feedRow' = [feedRow EXCEPT ![n] = r] /\ r.there /\ r.deliveries = chs
    <3> DEFINE e == [there |-> TRUE, type |-> t, at |-> at, deliveries |-> chs, open |-> open,
                     read |-> FALSE, archived |-> FALSE]
    <3>1. at \in Times
      BY <1>t, FeedAssumption DEF FeedTypeOK, Producing, Times
    <3>2. e \in FeedRow /\ e.there /\ e.deliveries = chs
      BY <3>1 DEF FeedRow
    <3>3. feedRow' = [feedRow EXCEPT ![n] = e]
      BY <2>1
    <3> HIDE DEF e
    <3> QED
      BY <3>2, <3>3
  <2>3. producing' \in [Producers -> Producing]
    BY <1>t, <2>1, Finishes
  <2>4. reports[n] = {}
    BY <1>2, <1>t DEF ReportsFit
  <2>5. /\ reports' \in [Notes -> SUBSET SUBSET Channel] /\ reports'[n] = {chs}
        /\ \A m \in Notes : m # n => reports'[m] = reports[m]
    BY <1>t, <2>1, <2>4 DEF FeedTypeOK, Reported
  <2>6. ~Visible(n)
    BY <1>2 DEF Visible
  <2> QED
    BY <1>p, <1>t, <2>2, <2>3, <2>5, <2>6, RowGoes
<1> QED
  BY <1>1, <1>2

LEMMA SettleExternalKeeps ==
  ASSUME FeedInv, NEW n \in Notes, SettleExternal(n)
  PROVE  FeedInv'
<1>t. /\ FeedTypeOK /\ ReportsFit /\ feedRow[n] \in FeedRow
      /\ UNCHANGED <<master, choices, changes, producing, clockNow, pager, reports>>
  BY DEF FeedInv, FeedTypeOK, SettleExternal
<1>1. PICK r \in FeedRow : /\ feedRow' = [feedRow EXCEPT ![n] = r] /\ r.there = feedRow[n].there
                           /\ r.at = feedRow[n].at /\ r.deliveries = feedRow[n].deliveries
                           /\ r.archived = feedRow[n].archived
  <2> DEFINE e == [feedRow[n] EXCEPT !.open = FALSE]
  <2>1. /\ e \in FeedRow /\ e.there = feedRow[n].there
        /\ e.at = feedRow[n].at /\ e.deliveries = feedRow[n].deliveries
        /\ e.archived = feedRow[n].archived
    BY <1>t DEF FeedRow
  <2>2. feedRow' = [feedRow EXCEPT ![n] = e]
    BY <1>t DEF SettleExternal
  <2> HIDE DEF e
  <2> QED
    BY <2>1, <2>2
<1>2. pager' \in Pager /\ producing' \in [Producers -> Producing]
      /\ reports' \in [Notes -> SUBSET SUBSET Channel]
  BY <1>t DEF FeedTypeOK
<1>3. reports'[n] # {} => r.there /\ reports'[n] = {r.deliveries}
  BY <1>t, <1>1 DEF ReportsFit, There
<1> QED
  BY <1>t, <1>1, <1>2, <1>3, RowGoes DEF Visible, There

LEMMA ArchiveKeeps ==
  ASSUME FeedInv, NEW n \in Notes, Archive(n)
  PROVE  FeedInv'
<1>t. /\ FeedTypeOK /\ ReportsFit /\ feedRow[n] \in FeedRow /\ pager \in Pager
      /\ UNCHANGED <<master, choices, changes, producing, clockNow, reports>>
  BY DEF FeedInv, FeedTypeOK, Archive
<1>1. PICK r \in FeedRow : /\ feedRow' = [feedRow EXCEPT ![n] = r] /\ r.there = feedRow[n].there
                           /\ r.deliveries = feedRow[n].deliveries
  <2> DEFINE e == [feedRow[n] EXCEPT !.archived = TRUE]
  <2>1. /\ e \in FeedRow /\ e.there = feedRow[n].there /\ e.deliveries = feedRow[n].deliveries
    BY <1>t DEF FeedRow
  <2>2. feedRow' = [feedRow EXCEPT ![n] = e]
    BY <1>t DEF Archive
  <2> HIDE DEF e
  <2> QED
    BY <2>1, <2>2
<1>2. /\ pager' \in Pager /\ pager'.pc = pager.pc /\ pager'.cursor = pager.cursor
      /\ pager'.got = pager.got /\ pager'.due = pager.due \ {n}
  BY <1>t DEF Archive, Pager
<1>3. producing' \in [Producers -> Producing] /\ reports' \in [Notes -> SUBSET SUBSET Channel]
  BY <1>t DEF FeedTypeOK
<1>4. reports'[n] # {} => r.there /\ reports'[n] = {r.deliveries}
  BY <1>t, <1>1 DEF ReportsFit, There
<1>5. n \notin pager'.due /\ pager'.due \subseteq pager.due
  BY <1>2
<1> QED
  BY <1>t, <1>1, <1>2, <1>3, <1>4, <1>5, RowGoes

LEMMA RetainKeeps ==
  ASSUME FeedInv, NEW n \in Notes, Retain(n)
  PROVE  FeedInv'
<1>t. /\ FeedTypeOK /\ pager \in Pager /\ UNCHANGED <<master, choices, changes, producing, clockNow>>
      /\ feedRow' = [feedRow EXCEPT ![n] = NoRow]
  BY DEF FeedInv, FeedTypeOK, Retain
<1>1. NoRow \in FeedRow
  BY SomeoneIsThere
<1>2. /\ pager' \in Pager /\ pager'.pc = pager.pc /\ pager'.cursor = pager.cursor
      /\ pager'.got = pager.got /\ pager'.due = pager.due \ {n}
  BY <1>t DEF Retain, Pager
<1>3. /\ producing' \in [Producers -> Producing] /\ reports' \in [Notes -> SUBSET SUBSET Channel]
      /\ reports'[n] = {} /\ \A m \in Notes : m # n => reports'[m] = reports[m]
  BY <1>t DEF FeedTypeOK, Retain
<1>4. PICK r \in FeedRow : r = NoRow
  BY <1>1
<1>5. n \notin pager'.due /\ pager'.due \subseteq pager.due
  BY <1>2
<1> QED
  BY <1>t, <1>2, <1>3, <1>4, <1>5, RowGoes

LEMMA MarkReadKeeps ==
  ASSUME FeedInv, NEW N, MarkRead(N)
  PROVE  FeedInv'
<1>t. /\ FeedTypeOK /\ ReportsFit
      /\ UNCHANGED <<master, choices, changes, producing, clockNow, pager, reports>>
  BY DEF FeedInv, MarkRead
<1>1. ASSUME NEW n \in Notes
      PROVE  /\ feedRow'[n] \in FeedRow /\ feedRow'[n].there = feedRow[n].there
             /\ feedRow'[n].at = feedRow[n].at /\ feedRow'[n].deliveries = feedRow[n].deliveries
             /\ feedRow'[n].archived = feedRow[n].archived
  <2> DEFINE e == [feedRow[n] EXCEPT !.read = TRUE]
  <2>0. feedRow[n] \in FeedRow
    BY <1>t DEF FeedTypeOK
  <2>1. /\ e \in FeedRow /\ e.there = feedRow[n].there
        /\ e.at = feedRow[n].at /\ e.deliveries = feedRow[n].deliveries
        /\ e.archived = feedRow[n].archived
    BY <2>0 DEF FeedRow
  <2>2. feedRow'[n] = e \/ feedRow'[n] = feedRow[n]
    BY DEF MarkRead
  <2> HIDE DEF e
  <2> QED
    BY <2>0, <2>1, <2>2
<1>2. feedRow' \in [Notes -> FeedRow]
  <2>1. feedRow' = [n \in Notes |-> feedRow'[n]]
    BY DEF MarkRead
  <2> QED
    BY <1>1, <2>1
<1>3. FeedTypeOK'
  BY <1>t, <1>2 DEF FeedTypeOK
<1>4. PagerFits'
  <2>1. \A n \in pager'.due : n \in Notes
    BY <1>3 DEF FeedTypeOK, Pager
  <2> QED
    BY <1>t, <1>1, <2>1, PagerStays DEF Visible, There
<1>5. ReportsFit'
  BY <1>t, <1>1 DEF ReportsFit, There
<1> QED
  BY <1>3, <1>4, <1>5 DEF FeedInv

LEMMA OpenFeedKeeps ==
  ASSUME FeedInv, OpenFeed
  PROVE  FeedInv'
<1>t. /\ FeedTypeOK /\ ReportsFit /\ pager \in Pager /\ PagerFits /\ pager.pc = "idle"
      /\ UNCHANGED <<feedRow, master, choices, changes, producing, clockNow, reports>>
  BY DEF FeedInv, FeedTypeOK, OpenFeed
<1>1. PICK last \in Notes : /\ last = CHOOSE n \in Notes : \A m \in Notes : m <= n
                            /\ \A m \in Notes : m <= last
  BY LastNote
<1>2. Newest = <<LastTime, 1 + last>> /\ Newest \in Times \X Nat
  <2>1. Newest = <<LastTime, 1 + last>>
    BY <1>1 DEF Newest
  <2>2. last \in Nat /\ LastTime \in Nat
    BY FeedAssumption
  <2>3. 1 + last \in Nat /\ LastTime \in Times
    BY <2>2 DEF Times
  <2> QED
    BY <2>1, <2>3
<1>3. \A n \in Notes : BeforeCursor(n, Newest)
  <2> SUFFICES ASSUME NEW n \in Notes PROVE BeforeCursor(n, Newest)
    OBVIOUS
  <2>1. n \in Nat /\ last \in Nat /\ n <= last /\ LastTime \in Nat /\ feedRow[n].at \in Nat
        /\ feedRow[n].at <= LastTime
    BY <1>t, <1>1, FeedAssumption, NewerIsOrder
  <2>2. Newest[1] = LastTime /\ Newest[2] = 1 + last
    BY <1>2
  <2> QED
    BY <2>1, <2>2 DEF BeforeCursor
<1>4. /\ pager' \in Pager /\ pager'.pc = "reading" /\ pager'.cursor = Newest
      /\ pager'.got = pager.got /\ pager'.due = {n \in Notes : Visible(n)}
  <2> DEFINE e == [pager EXCEPT !.pc = "reading", !.cursor = Newest,
                                !.due = {n \in Notes : Visible(n)}]
  <2>1. /\ e \in Pager /\ e.pc = "reading" /\ e.cursor = Newest
        /\ e.got = pager.got /\ e.due = {n \in Notes : Visible(n)}
    <3>1. {n \in Notes : Visible(n)} \in SUBSET Notes
      OBVIOUS
    <3> QED
      BY <1>t, <1>2, <3>1 DEF Pager
  <2>2. pager' = e
    BY DEF OpenFeed
  <2> HIDE DEF e
  <2> QED
    BY <2>1, <2>2
<1>5. FeedTypeOK'
  BY <1>t, <1>4 DEF FeedTypeOK
<1>6. \A n \in Notes : (Visible(n) <=> Visible(n)') /\ (BeforeCursor(n, Newest) <=> BeforeCursor(n, Newest)')
  BY <1>t DEF Visible, There, BeforeCursor
<1>7. PagerFits'
  <2>1. \A n \in pager'.due : /\ n \in Notes /\ Visible(n)' /\ pager'.got[n] = 0
                              /\ BeforeCursor(n, pager.cursor)'
    BY <1>t, <1>3, <1>4, <1>6 DEF PagerFits, BeforeCursor
  <2> QED
    BY <1>4, <2>1 DEF PagerFits, PagesAreExact
<1>8. ReportsFit'
  BY <1>t DEF ReportsFit, There
<1> QED
  BY <1>5, <1>7, <1>8 DEF FeedInv

\* A row of the cursor's moment, or of a later one, stays behind the cursor of the next page.
LEMMA CursorAdvances ==
  ASSUME FeedTypeOK, NEW c \in Times \X Nat, NEW last \in Notes, BeforeCursor(last, c),
         NEW n \in Notes, ~BeforeCursor(n, c)
  PROVE  ~Newer(last, n)
<1>1. /\ n \in Nat /\ last \in Nat /\ feedRow[n].at \in Nat /\ feedRow[last].at \in Nat
      /\ c[1] \in Nat /\ c[2] \in Nat
  BY NewerIsOrder DEF Times
<1> QED
  BY <1>1 DEF Newer, BeforeCursor

LEMMA GetFeedKeeps ==
  ASSUME FeedInv, GetFeed
  PROVE  FeedInv'
<1>t. /\ FeedTypeOK /\ ReportsFit /\ pager \in Pager /\ PagerFits /\ pager.pc = "reading"
      /\ UNCHANGED <<feedRow, master, choices, changes, producing, clockNow, reports>>
  BY DEF FeedInv, FeedTypeOK, GetFeed
<1>r. PICK rest \in SUBSET Notes : rest = {n \in Notes : Visible(n) /\ BeforeCursor(n, pager.cursor)}
  OBVIOUS
<1>p. PICK page \in SUBSET Notes : page = PageOf(rest)
  BY <1>t, PageIsNewest
<1>l. PICK last : last = LastOf(page)
  OBVIOUS
<1>1. /\ page \subseteq rest
      /\ page # {} => /\ last \in page /\ last \in Notes
                      /\ \A n \in page : n = last \/ Newer(n, last)
                      /\ \A n \in rest \ page : Newer(last, n)
  BY <1>t, <1>p, <1>l, PageIsNewest
<1> DEFINE got == [n \in Notes |-> IF n \in page /\ pager.got[n] < 2 THEN pager.got[n] + 1
                                   ELSE pager.got[n]]
           cursor == IF page = {} THEN pager.cursor ELSE <<feedRow[last].at, last>>
           pc == IF rest = page THEN "done" ELSE "reading"
<1>2. pager' = [pager EXCEPT !.got = got, !.cursor = cursor, !.pc = pc]
  BY <1>t, <1>r, <1>p, <1>l DEF GetFeed
<1>3. got \in [Notes -> 0 .. 2]
  BY <1>t DEF Pager
<1>4. cursor \in Times \X Nat
  <2>1. CASE page = {}
    BY <1>t, <2>1 DEF Pager
  <2>2. CASE page # {}
    <3>1. last \in Nat /\ feedRow[last].at \in Times
      BY <1>t, <1>1, <2>2, FeedAssumption DEF FeedTypeOK, FeedRow
    <3> QED
      BY <2>2, <3>1
  <2> QED
    BY <2>1, <2>2
<1>5. pc \in {"reading", "done"} /\ (pc = "done" <=> rest = page)
  OBVIOUS
<1>6. /\ pager' \in Pager /\ pager'.got = got /\ pager'.cursor = cursor /\ pager'.pc = pc
      /\ pager'.due = pager.due
  <2> HIDE DEF got, cursor, pc
  <2> QED
    BY <1>t, <1>2, <1>3, <1>4, <1>5 DEF Pager
<1>7. FeedTypeOK'
  BY <1>t, <1>6 DEF FeedTypeOK
<1>8. ASSUME NEW n \in pager.due
      PROVE  /\ n \in Notes /\ Visible(n) /\ Visible(n)'
             /\ n \in rest => got[n] = IF n \in page THEN 1 ELSE 0
             /\ n \notin rest => got[n] = 1
  <2>1. n \in Notes /\ Visible(n) /\ pager.got[n] = IF BeforeCursor(n, pager.cursor) THEN 0 ELSE 1
    BY <1>t DEF PagerFits, Pager
  <2>2. Visible(n)'
    BY <1>t, <2>1 DEF Visible, There
  <2>3. n \in rest <=> BeforeCursor(n, pager.cursor)
    BY <1>r, <2>1
  <2>4. got[n] = IF n \in page /\ pager.got[n] < 2 THEN pager.got[n] + 1 ELSE pager.got[n]
    BY <2>1
  <2> HIDE DEF got
  <2>5. CASE n \in rest
    <3>1. pager.got[n] = 0
      BY <2>1, <2>3, <2>5
    <3> QED
      BY <2>1, <2>2, <2>4, <2>5, <3>1
  <2>6. CASE n \notin rest
    <3>1. pager.got[n] = 1 /\ n \notin page
      BY <1>1, <2>1, <2>3, <2>6
    <3> QED
      BY <2>1, <2>2, <2>4, <2>6, <3>1
  <2> QED
    BY <2>5, <2>6
<1>9. ASSUME pc = "reading", NEW n \in pager.due
      PROVE  got[n] = IF BeforeCursor(n, cursor) THEN 0 ELSE 1
  <2>1. CASE page = {}
    <3>1. cursor = pager.cursor /\ (n \in rest <=> BeforeCursor(n, pager.cursor))
      BY <1>8, <1>r, <2>1
    <3> QED
      BY <1>8, <2>1, <3>1
  <2>2. CASE page # {}
    <3>1. last \in Notes /\ last \in page /\ n \in Notes
      BY <1>1, <1>8, <2>2
    <3>2. BeforeCursor(n, cursor) <=> Newer(last, n)
      <4>1. cursor[1] = feedRow[last].at /\ cursor[2] = last
        BY <2>2
      <4>2. last \in Nat /\ n \in Nat /\ feedRow[last].at \in Nat /\ feedRow[n].at \in Nat
        BY <1>t, <3>1, NewerIsOrder
      <4> HIDE DEF cursor
      <4> QED
        BY <4>1, <4>2 DEF BeforeCursor, Newer
    <3>3. CASE n \in page
      <4>1. ~Newer(last, n)
        BY <1>t, <1>1, <2>2, <3>1, <3>3, NewerIsOrder
      <4> QED
        BY <1>1, <1>8, <3>2, <3>3, <4>1
    <3>4. CASE n \in rest \ page
      <4>1. Newer(last, n)
        BY <1>1, <2>2, <3>4
      <4> QED
        BY <1>8, <3>2, <3>4, <4>1
    <3>5. CASE n \notin rest
      <4>1. ~BeforeCursor(n, pager.cursor) /\ BeforeCursor(last, pager.cursor)
        BY <1>1, <1>8, <1>r, <3>1, <3>5
      <4>2. PICK c \in Times \X Nat : c = pager.cursor
        BY <1>t DEF Pager
      <4>3. ~Newer(last, n)
        BY <1>t, <3>1, <4>1, <4>2, CursorAdvances
      <4> QED
        BY <1>8, <3>2, <3>5, <4>3
    <3> QED
      BY <3>3, <3>4, <3>5
  <2> QED
    BY <2>1, <2>2
<1>10. \A n \in pager.due : BeforeCursor(n, pager.cursor)' <=> BeforeCursor(n, cursor)
  <2> HIDE DEF cursor
  <2> QED
    BY <1>t, <1>6 DEF BeforeCursor
<1>11. ASSUME pc = "done", NEW n \in pager.due PROVE got[n] = 1
  <2> HIDE DEF got, pc
  <2> QED
    BY <1>5, <1>8, <1>11
<1>12. PagerFits'
  <2> HIDE DEF got, cursor, pc
  <2>1. PagesAreExact'
    BY <1>6, <1>11 DEF PagesAreExact
  <2>2. pager'.pc # "idle"
    BY <1>5, <1>6
  <2>3. ASSUME pager'.pc = "reading", NEW n \in pager'.due
        PROVE  Visible(n)' /\ pager'.got[n] = IF BeforeCursor(n, pager.cursor)' THEN 0 ELSE 1
    BY <1>6, <1>8, <1>9, <1>10, <2>3
  <2> QED
    BY <2>1, <2>2, <2>3 DEF PagerFits
<1>13. ReportsFit'
  BY <1>t DEF ReportsFit, There
<1> QED
  BY <1>7, <1>12, <1>13 DEF FeedInv

\* Every step of the user, the producers, the dispatcher, the readers and the retention.
LEMMA FeedSteps == FeedInv /\ [FeedNext]_feedVars => FeedInv'
<1> SUFFICES ASSUME FeedInv, [FeedNext]_feedVars PROVE FeedInv'
  OBVIOUS
<1>t. FeedTypeOK /\ MaxChoices \in Nat /\ LastTime \in Nat
  BY FeedAssumption DEF FeedInv
<1>1. CASE UNCHANGED feedVars
  <2>1. FeedTypeOK'
    BY <1>1, <1>t DEF feedVars, FeedTypeOK
  <2> QED
    BY <1>1, <2>1, FeedRests DEF feedVars
<1>2. CASE TimePasses
  <2>1. FeedTypeOK'
    BY <1>2, <1>t DEF TimePasses, FeedTypeOK, Times
  <2> QED
    BY <1>2, <2>1, FeedRests DEF TimePasses
<1>3. ASSUME NEW c \in Overridable, NEW e \in {"on", "off"}, UpdatePreference(c, e) PROVE FeedInv'
  <2>1. choices' \in [Overridable -> {"unset", "on", "off"}] /\ changes' \in 0 .. MaxChoices
    BY <1>3, <1>t DEF UpdatePreference, Choose, FeedTypeOK
  <2>2. FeedTypeOK'
    BY <1>3, <1>t, <2>1 DEF UpdatePreference, FeedTypeOK
  <2> QED
    BY <1>3, <2>2, FeedRests DEF UpdatePreference
<1>4. ASSUME NEW e \in BOOLEAN, SetMasterToggle(e) PROVE FeedInv'
  <2>1. FeedTypeOK'
    BY <1>4, <1>t DEF SetMasterToggle, Choose, FeedTypeOK
  <2> QED
    BY <1>4, <2>1, FeedRests DEF SetMasterToggle
<1>5. CASE MarkAllRead
  BY <1>5, MarkReadKeeps DEF MarkAllRead
<1>6. ASSUME NEW n \in Notes, MarkOneRead(n) PROVE FeedInv'
  BY <1>6, MarkReadKeeps DEF MarkOneRead
<1> QED
  BY <1>1, <1>2, <1>3, <1>4, <1>5, <1>6, BuildPlanKeeps, WriteKeeps, SettleExternalKeeps,
     ArchiveKeeps, RetainKeeps, OpenFeedKeeps, GetFeedKeeps DEF FeedNext

\* The feed's inductive invariant.
THEOREM FeedInvariant == FeedSpec => []FeedInv
BY FeedStarts, FeedSteps, PTL DEF FeedSpec

\* Whoever pages through a feed of any length, with any page size, gets every row that stays in it
\* exactly once, and a repeated notification is reported as it was first written.
THEOREM FeedHolds == FeedSpec => []FeedIsSound
<1>1. FeedInv => FeedIsSound
  <2> SUFFICES ASSUME FeedInv PROVE FeedIsSound
    OBVIOUS
  <2>1. PagesAreExact /\ ReportsFit
    BY DEF FeedInv, PagerFits
  <2>2. ReplayReportsThePast
    BY <2>1 DEF ReportsFit, ReplayReportsThePast
  <2> QED
    BY <2>1, <2>2 DEF FeedIsSound
<1> QED
  BY <1>1, FeedInvariant, PTL

-----------------------------------------------------------------------------
(* EmailDelivery.                                                          *)

\* What Redis holds of a job: a lock only while it is active, a completed job sent its mail, and
\* the failures that ended it are those of its retries, and one more when it has failed again.
JobFits(j) ==
  /\ mailQueue[j].lock # NoJob => mailQueue[j].state = "active"
  /\ JobIn(j, "absent") => mailQueue[j].retried = 0
  /\ JobIn(j, "completed") /\ ~Discarded(j) => \E m \in mailed : m[1] = j
  /\ dead[j] + Cardinality(Untold(j)) + unheard[j]
       = mailQueue[j].retried + (IF JobIn(j, "failed") THEN 1 ELSE 0)

WithJob(w) == mailer[w].step \in {"read", "sending", "answered"}

\* What a worker holds: it asks the provider for no secret, an acceptance means a mail, its copy
\* of a job whose lock it has counts the attempts Redis counts, and it tells a failure that ended
\* the job from one that did not.
MailerFits(w) ==
  mailer[w].step # "idle" =>
    /\ MailerJob(w) \in Jobs /\ mailQueue[MailerJob(w)].state # "absent"
    /\ mailer[w].step = "sending" => mailQueue[MailerJob(w)].template \notin Secret
    /\ mailer[w].step = "answered" /\ mailer[w].reply = "success" =>
         \E m \in mailed : m[1] = MailerJob(w)
    /\ WithJob(w) /\ mailQueue[MailerJob(w)].lock = w =>
         mailer[w].attempt = mailQueue[MailerJob(w)].made + 1
    /\ mailer[w].step = "ended" => Terminal(mailer[w].reply, mailer[w].attempt)
    /\ mailer[w].step = "retrying" => ~Terminal(mailer[w].reply, mailer[w].attempt)

\* A mail is one of a job that may send it, under the one key of that job.
MailFits(m) ==
  \E j \in Jobs : /\ m = <<j, MailKey(j, 0)>>
                  /\ mailQueue[j].state # "absent" /\ mailQueue[j].template \notin Secret

\* The inductive invariant.
EmailInv ==
  /\ EmailTypeOK /\ extra = {}
  /\ \A j \in Jobs : JobFits(j)
  /\ \A w \in Mailers : MailerFits(w)
  /\ \A m \in mailed : MailFits(m)

\* A job that exists stays, with its template and payload; and a lock that is not new guards the
\* same attempt.
JobStays(j) ==
  /\ mailQueue[j].state # "absent" =>
       /\ mailQueue'[j].state # "absent"
       /\ mailQueue'[j].template = mailQueue[j].template
       /\ mailQueue'[j].payload = mailQueue[j].payload
  /\ \A u \in Mailers : mailQueue'[j].lock = u /\ mailer'[u] = mailer[u] /\ WithJob(u) =>
       mailQueue[j].lock = u /\ mailQueue'[j].made = mailQueue[j].made

LEMMA EmailStarts == EmailInit => EmailInv
<1> SUFFICES ASSUME EmailInit PROVE EmailInv
  OBVIOUS
<1>1. NoRecord \in JobRecord /\ NoRecord.lock = NoJob /\ NoRecord.state = "absent"
      /\ NoRecord.retried = 0
  BY DEF NoRecord, JobRecord, JobState, EmailTemplate, Payload
<1>2. ASSUME NEW t \in {"welcome", "password-reset"}, NEW d \in Payload
      PROVE  /\ Leftover(t, d) \in JobRecord /\ Leftover(t, d).lock = NoJob
             /\ Leftover(t, d).state = "waiting" /\ Leftover(t, d).retried = 0
  BY DEF Leftover, NoRecord, JobRecord, JobState, EmailTemplate, Payload
<1>3. mailQueue \in [Jobs -> {NoRecord} \cup Leftovers]
  BY DEF EmailInit
<1>4. \A r \in Leftovers : r \in JobRecord /\ r.lock = NoJob /\ r.state = "waiting" /\ r.retried = 0
  <2> SUFFICES ASSUME NEW r \in Leftovers
               PROVE  r \in JobRecord /\ r.lock = NoJob /\ r.state = "waiting" /\ r.retried = 0
    OBVIOUS
  <2>1. PICK t \in {"welcome", "password-reset"}, d \in Payload : r = Leftover(t, d)
    BY DEF Leftovers
  <2> QED
    BY <1>2, <2>1
<1>q. ASSUME NEW j \in Jobs
      PROVE  /\ mailQueue[j] \in JobRecord /\ mailQueue[j].lock = NoJob
             /\ mailQueue[j].state \in {"absent", "waiting"} /\ mailQueue[j].retried = 0
  <2>1. mailQueue[j] = NoRecord \/ mailQueue[j] \in Leftovers
    BY <1>3
  <2> QED
    BY <1>1, <1>4, <2>1
<1>5. IdleMailer \in MailerRecord /\ IdleMailer.step = "idle"
  BY DEF IdleMailer, MailerRecord, MailerStep, Reply
<1>6. mailer \in [Mailers -> MailerRecord] /\ \A w \in Mailers : mailer[w].step = "idle"
  BY <1>5 DEF EmailInit
<1>7. mailQueue \in [Jobs -> JobRecord]
  BY <1>3, <1>q
<1>8. EmailTypeOK
  BY <1>6, <1>7 DEF EmailInit, EmailTypeOK
<1>9. \A j \in Jobs : JobFits(j)
  <2> SUFFICES ASSUME NEW j \in Jobs PROVE JobFits(j)
    OBVIOUS
  <2>1. dead[j] = 0 /\ unheard[j] = 0
    BY DEF EmailInit
  <2>2. Cardinality(Untold(j)) = 0
    <3>1. Untold(j) = {}
      BY <1>6 DEF Untold, MailerAt
    <3> QED
      BY <3>1, FS_EmptySet
  <2> QED
    BY <1>q, <2>1, <2>2 DEF JobFits, JobIn
<1> QED
  BY <1>6, <1>8, <1>9 DEF EmailInv, EmailInit, MailerFits

\* Of whom a failed job's event is still to come, when one worker moves.
LEMMA UntoldMoves ==
  ASSUME EmailTypeOK, NEW w \in Mailers, NEW m \in MailerRecord,
         mailer' = [mailer EXCEPT ![w] = m], NEW i \in Jobs
  PROVE  /\ IsFiniteSet(Untold(i)) /\ Cardinality(Untold(i)) \in Nat
         /\ Untold(i)' = IF m.step = "ended" /\ m.job = i THEN Untold(i) \cup {w}
                         ELSE Untold(i) \ {w}
<1>1. IsFiniteSet(Untold(i)) /\ Cardinality(Untold(i)) \in Nat
  <2>1. Untold(i) \in SUBSET Mailers
    BY DEF Untold
  <2> QED
    BY <2>1, FS_Subset, FS_CardinalityType, EmailAssumption
<1>2. mailer'[w] = m /\ \A u \in Mailers : u # w => mailer'[u] = mailer[u]
  BY DEF EmailTypeOK
<1> QED
  BY <1>1, <1>2 DEF Untold, MailerAt, MailerJob

LEMMA UntoldStays ==
  ASSUME EmailTypeOK, NEW w \in Mailers, NEW m \in MailerRecord,
         mailer' = [mailer EXCEPT ![w] = m], mailer[w].step # "ended", m.step # "ended"
  PROVE  \A i \in Jobs : Untold(i)' = Untold(i)
<1> SUFFICES ASSUME NEW i \in Jobs PROVE Untold(i)' = Untold(i)
  OBVIOUS
<1>1. w \notin Untold(i)
  BY DEF Untold, MailerAt
<1>2. Untold(i) \ {w} = Untold(i)
  BY <1>1
<1>3. Untold(i)' = Untold(i) \ {w}
  BY UntoldMoves
<1> QED
  BY <1>2, <1>3

\* What a job keeps when its record, its events and its untold failures stay.
SameJob(j) ==
  /\ mailQueue'[j] = mailQueue[j] /\ dead'[j] = dead[j] /\ unheard'[j] = unheard[j]
  /\ Untold(j)' = Untold(j)

\* What stays as it was still fits, when jobs stay and mails are only added.
LEMMA EmailMoves ==
  ASSUME EmailInv, EmailTypeOK', extra' = {}, mailed \subseteq mailed',
         \A j \in Jobs : SameJob(j) \/ (JobStays(j) /\ JobFits(j)'),
         \A w \in Mailers : mailer'[w] = mailer[w] \/ MailerFits(w)',
         \A m \in mailed' : m \in mailed \/ MailFits(m)'
  PROVE  EmailInv'
<1>1. \A j \in Jobs : JobStays(j)
  BY DEF JobStays, SameJob
<1>2. ASSUME NEW j \in Jobs PROVE JobFits(j)'
  <2> CASE SameJob(j)
    <3>1. JobFits(j)
      BY DEF EmailInv
    <3>2. dead'[j] + Cardinality(Untold(j)') + unheard'[j]
            = dead[j] + Cardinality(Untold(j)) + unheard[j]
      BY DEF SameJob
    <3> QED
      BY <3>1, <3>2 DEF SameJob, JobFits, JobIn, Discarded
  <2> QED
    OBVIOUS
<1>3. ASSUME NEW w \in Mailers PROVE MailerFits(w)'
  <2> CASE mailer'[w] = mailer[w]
    <3> SUFFICES ASSUME mailer[w].step # "idle" PROVE MailerFits(w)'
      BY DEF MailerFits
    <3>1. /\ MailerJob(w)' = MailerJob(w) /\ MailerJob(w) \in Jobs
          /\ mailQueue[MailerJob(w)].state # "absent" /\ MailerFits(w)
      BY DEF EmailInv, MailerFits, MailerJob
    <3>2. PICK j \in Jobs : j = MailerJob(w) /\ j = MailerJob(w)'
      BY <3>1
    <3>3. /\ mailQueue'[j].state # "absent" /\ mailQueue'[j].template = mailQueue[j].template
          /\ mailQueue'[j].lock = w /\ WithJob(w) =>
               mailQueue[j].lock = w /\ mailQueue'[j].made = mailQueue[j].made
      BY <1>1, <3>1, <3>2 DEF JobStays
    <3> QED
      BY <3>1, <3>2, <3>3 DEF MailerFits, WithJob, Terminal
  <2> QED
    OBVIOUS
<1>4. ASSUME NEW m \in mailed' PROVE MailFits(m)'
  <2> CASE m \in mailed
    <3>1. PICK j \in Jobs : /\ m = <<j, MailKey(j, 0)>>
                            /\ mailQueue[j].state # "absent" /\ mailQueue[j].template \notin Secret
      BY DEF EmailInv, MailFits
    <3> QED
      BY <1>1, <3>1 DEF MailFits, JobStays, MailKey
  <2> QED
    OBVIOUS
<1> QED
  BY <1>2, <1>3, <1>4 DEF EmailInv

\* One job's record changes and no worker moves.
LEMMA JobMoves ==
  ASSUME EmailInv, NEW j \in Jobs, NEW r \in JobRecord, mailQueue' = [mailQueue EXCEPT ![j] = r],
         UNCHANGED <<paused, mailer, mailed, extra, dead, unheard>>,
         r.lock = NoJob,
         mailQueue[j].state # "absent" =>
           /\ r.template = mailQueue[j].template /\ r.payload = mailQueue[j].payload,
         r.state \notin {"absent", "failed", "completed"},
         r.retried = mailQueue[j].retried + (IF JobIn(j, "failed") THEN 1 ELSE 0)
  PROVE  EmailInv'
<1>t. EmailTypeOK /\ JobFits(j) /\ extra = {}
  BY DEF EmailInv
<1>1. mailQueue'[j] = r /\ \A i \in Jobs : i # j => mailQueue'[i] = mailQueue[i]
  BY <1>t DEF EmailTypeOK
<1>2. EmailTypeOK'
  BY <1>t DEF EmailTypeOK
<1>3. \A i \in Jobs : Untold(i)' = Untold(i)
  BY DEF Untold, MailerAt, MailerJob
<1>4. JobStays(j)
  BY <1>1, EmailAssumption DEF JobStays
<1>5. JobFits(j)'
  <2>1. dead'[j] + Cardinality(Untold(j)') + unheard'[j]
          = dead[j] + Cardinality(Untold(j)) + unheard[j]
    BY <1>3
  <2>2. dead'[j] + Cardinality(Untold(j)') + unheard'[j] = r.retried
    BY <1>t, <2>1 DEF JobFits
  <2>3. r.retried + 0 = r.retried
    BY DEF JobRecord
  <2> QED
    BY <1>1, <2>2, <2>3 DEF JobFits, JobIn
<1>6. \A i \in Jobs : i # j => SameJob(i)
  BY <1>1, <1>3 DEF SameJob
<1> QED
  BY <1>t, <1>2, <1>4, <1>5, <1>6, EmailMoves

LEMMA QueueMailKeeps ==
  ASSUME EmailInv, NEW j \in Jobs, NEW t \in EmailTemplate, QueueMail(j, t)
  PROVE  EmailInv'
<1>t. /\ JobFits(j) /\ mailQueue[j] \in JobRecord /\ mailQueue[j].state = "absent"
      /\ mailQueue[j].retried = 0
      /\ UNCHANGED <<paused, mailer, mailed, extra, dead, unheard>>
  BY DEF EmailInv, EmailTypeOK, JobFits, QueueMail, JobIn
<1> DEFINE r == [NoRecord EXCEPT !.state = "waiting", !.template = t]
<1>1. r \in JobRecord /\ r.state = "waiting" /\ r.lock = NoJob /\ r.retried = 0
  BY DEF NoRecord, JobRecord, JobState, Payload
<1>2. mailQueue' = [mailQueue EXCEPT ![j] = r]
  BY DEF QueueMail
<1>3. r.retried = mailQueue[j].retried + (IF JobIn(j, "failed") THEN 1 ELSE 0)
  BY <1>t, <1>1 DEF JobIn
<1> HIDE DEF r
<1> QED
  BY <1>t, <1>1, <1>2, <1>3, JobMoves

LEMMA RetryJobKeeps ==
  ASSUME EmailInv, NEW j \in Jobs, RetryJob(j)
  PROVE  EmailInv'
<1>t. /\ EmailTypeOK /\ JobFits(j) /\ mailQueue[j] \in JobRecord /\ mailQueue[j].state = "failed"
      /\ UNCHANGED <<paused, mailer, mailed, extra, dead, unheard>>
  BY DEF EmailInv, EmailTypeOK, RetryJob, JobIn
<1>n. PICK n \in Nat : n = mailQueue[j].retried + 1
  BY <1>t DEF JobRecord
<1> DEFINE r == [mailQueue[j] EXCEPT !.state = "waiting", !.stalls = 0, !.retried = n]
<1>1. /\ r \in JobRecord /\ r.state = "waiting" /\ r.lock = mailQueue[j].lock /\ r.retried = n
      /\ r.template = mailQueue[j].template /\ r.payload = mailQueue[j].payload
  BY <1>t DEF JobRecord, JobState
<1>2. mailQueue' = [mailQueue EXCEPT ![j] = r]
  BY <1>t, <1>n DEF RetryJob, EmailTypeOK
<1>3. r.lock = NoJob
  BY <1>t, <1>1 DEF JobFits
<1> HIDE DEF r
<1> QED
  BY <1>t, <1>n, <1>1, <1>2, <1>3, JobMoves DEF JobIn

LEMMA StallJobKeeps ==
  ASSUME EmailInv, NEW j \in Jobs, StallJob(j)
  PROVE  EmailInv'
<1>t. /\ EmailTypeOK /\ mailQueue[j] \in JobRecord /\ mailQueue[j].state = "active"
      /\ UNCHANGED <<paused, mailer, mailed, extra, dead, unheard>>
  BY DEF EmailInv, EmailTypeOK, StallJob, JobIn
<1>n. PICK n \in Nat : n = IF mailQueue[j].stalls = MaxStalls THEN mailQueue[j].stalls
                           ELSE mailQueue[j].stalls + 1
  BY <1>t DEF JobRecord
<1>d. PICK d \in BOOLEAN : d = (mailQueue[j].doomed \/ mailQueue[j].stalls = MaxStalls)
  OBVIOUS
<1> DEFINE r == [mailQueue[j] EXCEPT !.state = "waiting", !.lock = NoJob, !.stalls = n,
                                     !.doomed = d]
<1>1. /\ r \in JobRecord /\ r.state = "waiting" /\ r.lock = NoJob
      /\ r.retried = mailQueue[j].retried
      /\ r.template = mailQueue[j].template /\ r.payload = mailQueue[j].payload
  BY <1>t DEF JobRecord, JobState
<1>2. mailQueue' = [mailQueue EXCEPT ![j] = r]
  BY <1>t, <1>n, <1>d DEF StallJob, EmailTypeOK
<1>3. r.retried = mailQueue[j].retried + (IF JobIn(j, "failed") THEN 1 ELSE 0)
  BY <1>t, <1>1 DEF JobRecord, JobIn
<1> HIDE DEF r
<1> QED
  BY <1>t, <1>1, <1>2, <1>3, JobMoves

LEMMA TakeJobKeeps ==
  ASSUME EmailInv, NEW w \in Mailers, NEW j \in Jobs, TakeJob(w, j)
  PROVE  EmailInv'
<1>t. /\ EmailTypeOK /\ JobFits(j) /\ extra = {} /\ mailQueue[j] \in JobRecord
      /\ UNCHANGED <<paused, mailed, extra, dead, unheard>>
      /\ mailQueue[j].state = "waiting" /\ mailer[w].step = "idle" /\ w # NoJob
  BY EmailAssumption DEF EmailInv, EmailTypeOK, TakeJob, JobIn, MailerAt
<1>1. PICK r \in JobRecord : /\ mailQueue' = [mailQueue EXCEPT ![j] = r] /\ r.state = "active"
                             /\ r.retried = mailQueue[j].retried /\ r.lock = w
                             /\ r.template = mailQueue[j].template
                             /\ r.payload = mailQueue[j].payload
                             /\ r.made = mailQueue[j].made
  <2> DEFINE e == [mailQueue[j] EXCEPT !.state = "active", !.lock = w]
  <2>1. /\ e \in JobRecord /\ e.state = "active" /\ e.retried = mailQueue[j].retried
        /\ e.lock = w /\ e.made = mailQueue[j].made
        /\ e.template = mailQueue[j].template /\ e.payload = mailQueue[j].payload
    BY <1>t DEF JobRecord, JobState
  <2>2. mailQueue' = [mailQueue EXCEPT ![j] = e]
    BY <1>t DEF TakeJob, EmailTypeOK
  <2> HIDE DEF e
  <2> QED
    BY <2>1, <2>2
<1>2. PICK m \in MailerRecord : /\ mailer' = [mailer EXCEPT ![w] = m] /\ m.job = j
                                /\ \/ m.step = "read"
                                   \/ m.step = "answered" /\ m.reply = "deterministic"
                                /\ m.attempt = mailQueue[j].made + 1
  <2>n. PICK n \in Nat : n = mailQueue[j].made + 1
    BY <1>t DEF JobRecord
  <2>s. PICK s \in {"read", "answered"} : s = IF mailQueue[j].doomed THEN "answered" ELSE "read"
    OBVIOUS
  <2>y. PICK y \in {"success", "deterministic"} :
          y = IF mailQueue[j].doomed THEN "deterministic" ELSE "success"
    OBVIOUS
  <2> DEFINE e == [step |-> s, job |-> j, attempt |-> n, reply |-> y]
  <2>1. /\ e \in MailerRecord /\ e.step = s /\ e.reply = y /\ e.job = j /\ e.attempt = n
    BY DEF MailerRecord, MailerStep, Reply
  <2>2. mailer' = [mailer EXCEPT ![w] = e]
    BY <2>n, <2>s, <2>y DEF TakeJob
  <2> HIDE DEF e
  <2> QED
    BY <2>n, <2>s, <2>y, <2>1, <2>2
<1>3. mailQueue'[j] = r /\ \A i \in Jobs : i # j => mailQueue'[i] = mailQueue[i]
  BY <1>t, <1>1 DEF EmailTypeOK
<1>4. mailer'[w] = m /\ \A u \in Mailers : u # w => mailer'[u] = mailer[u]
  BY <1>t, <1>2 DEF EmailTypeOK
<1>5. EmailTypeOK'
  BY <1>t, <1>1, <1>2 DEF EmailTypeOK
<1>u. \A i \in Jobs : Untold(i)' = Untold(i)
  BY <1>t, <1>2, UntoldStays
<1>6. JobStays(j)
  BY <1>t, <1>1, <1>3 DEF JobStays, WithJob
<1>7. JobFits(j)'
  <2>1. dead'[j] + Cardinality(Untold(j)') + unheard'[j]
          = dead[j] + Cardinality(Untold(j)) + unheard[j]
    BY <1>t, <1>u
  <2> QED
    BY <1>t, <1>1, <1>3, <2>1 DEF JobFits, JobIn
<1>8. MailerFits(w)'
  <2>1. MailerJob(w)' = j
    BY <1>2, <1>4 DEF MailerJob
  <2> QED
    BY <1>1, <1>2, <1>3, <1>4, <2>1 DEF MailerFits, WithJob
<1>9. \A i \in Jobs : i # j => SameJob(i)
  BY <1>t, <1>3, <1>u DEF SameJob
<1> QED
  BY <1>t, <1>4, <1>5, <1>6, <1>7, <1>8, <1>9, EmailMoves

\* A worker that has nothing in hand fits.
LEMMA MailerRests ==
  ASSUME EmailTypeOK, NEW w \in Mailers, mailer' = [mailer EXCEPT ![w] = IdleMailer]
  PROVE  /\ mailer' \in [Mailers -> MailerRecord] /\ MailerFits(w)'
         /\ \A u \in Mailers : u # w => mailer'[u] = mailer[u]
         /\ \A i \in Jobs : /\ IsFiniteSet(Untold(i)) /\ Cardinality(Untold(i)) \in Nat
                           /\ Untold(i)' = Untold(i) \ {w}
<1>1. IdleMailer \in MailerRecord /\ IdleMailer.step = "idle"
  BY DEF IdleMailer, MailerRecord, MailerStep, Reply
<1>2. PICK m \in MailerRecord : m = IdleMailer /\ m.step = "idle"
  BY <1>1
<1>3. mailer' = [mailer EXCEPT ![w] = m]
  BY <1>2
<1>4. /\ mailer' \in [Mailers -> MailerRecord] /\ mailer'[w] = m
      /\ \A u \in Mailers : u # w => mailer'[u] = mailer[u]
  BY <1>3 DEF EmailTypeOK
<1>5. MailerFits(w)'
  BY <1>2, <1>4 DEF MailerFits
<1> QED
  BY <1>2, <1>3, <1>4, <1>5, UntoldMoves

LEMMA TurnAwayKeeps ==
  ASSUME EmailInv, NEW w \in Mailers, WithJob(w), TurnAway(w),
         UNCHANGED <<paused, mailed, extra, dead>>
  PROVE  EmailInv'
<1>t. EmailTypeOK /\ extra = {} /\ UNCHANGED <<mailQueue, unheard>>
  BY DEF EmailInv, TurnAway
<1>m. /\ mailer' \in [Mailers -> MailerRecord] /\ MailerFits(w)'
      /\ \A u \in Mailers : u # w => mailer'[u] = mailer[u]
      /\ \A i \in Jobs : Untold(i)' = Untold(i) \ {w}
  BY <1>t, MailerRests DEF TurnAway
<1>1. \A i \in Jobs : SameJob(i)
  <2>1. \A i \in Jobs : w \notin Untold(i)
    BY DEF Untold, MailerAt, WithJob
  <2> QED
    BY <1>t, <1>m, <2>1 DEF SameJob
<1>2. EmailTypeOK'
  BY <1>t, <1>m DEF EmailTypeOK
<1> QED
  BY <1>t, <1>m, <1>1, <1>2, EmailMoves

LEMMA CompleteKeeps ==
  ASSUME EmailInv, NEW w \in Mailers, WithJob(w), Complete(w),
         UNCHANGED <<paused, mailed, extra, dead>>,
         Discarded(MailerJob(w)) \/ \E m \in mailed : m[1] = MailerJob(w)
  PROVE  EmailInv'
<1>j. PICK j \in Jobs : j = MailerJob(w)
  BY DEF EmailInv, MailerFits, WithJob
<1>t. /\ EmailTypeOK /\ JobFits(j) /\ extra = {} /\ mailQueue[j] \in JobRecord
      /\ UNCHANGED unheard /\ NoJob # w /\ mailQueue[j].lock = w /\ mailQueue[j].state = "active"
  BY <1>j, EmailAssumption DEF EmailInv, EmailTypeOK, Complete, JobFits
<1>m. /\ mailer' \in [Mailers -> MailerRecord] /\ MailerFits(w)'
      /\ \A u \in Mailers : u # w => mailer'[u] = mailer[u]
      /\ \A i \in Jobs : Untold(i)' = Untold(i) \ {w}
  BY <1>t, MailerRests DEF Complete
<1>u. \A i \in Jobs : Untold(i)' = Untold(i)
  <2>1. \A i \in Jobs : w \notin Untold(i)
    BY DEF Untold, MailerAt, WithJob
  <2> QED
    BY <1>m, <2>1
<1>1. PICK r \in JobRecord : /\ mailQueue' = [mailQueue EXCEPT ![j] = r]
                             /\ r.state = "completed" /\ r.lock = NoJob
                             /\ r.retried = mailQueue[j].retried
                             /\ r.template = mailQueue[j].template
                             /\ r.payload = mailQueue[j].payload
  <2> DEFINE e == [mailQueue[j] EXCEPT !.state = "completed", !.lock = NoJob]
  <2>1. /\ e \in JobRecord /\ e.state = "completed" /\ e.lock = NoJob
        /\ e.retried = mailQueue[j].retried
        /\ e.template = mailQueue[j].template /\ e.payload = mailQueue[j].payload
    BY <1>t DEF JobRecord, JobState
  <2>2. mailQueue' = [mailQueue EXCEPT ![j] = e]
    BY <1>j, <1>t DEF Complete, EmailTypeOK
  <2> HIDE DEF e
  <2> QED
    BY <2>1, <2>2
<1>2. mailQueue'[j] = r /\ \A i \in Jobs : i # j => mailQueue'[i] = mailQueue[i]
  BY <1>t, <1>1 DEF EmailTypeOK
<1>3. EmailTypeOK'
  BY <1>t, <1>m, <1>1 DEF EmailTypeOK
<1>4. JobStays(j)
  BY <1>1, <1>2, EmailAssumption DEF JobStays
<1>5. JobFits(j)'
  <2>1. dead'[j] + Cardinality(Untold(j)') + unheard'[j]
          = dead[j] + Cardinality(Untold(j)) + unheard[j]
    BY <1>t, <1>u
  <2>2. ~Discarded(j)' => \E m \in mailed' : m[1] = j
    BY <1>j, <1>1, <1>2 DEF Discarded
  <2> QED
    BY <1>t, <1>1, <1>2, <2>1, <2>2 DEF JobFits, JobIn
<1>6. \A i \in Jobs : i # j => SameJob(i)
  BY <1>t, <1>2, <1>u DEF SameJob
<1> QED
  BY <1>t, <1>m, <1>3, <1>4, <1>5, <1>6, EmailMoves

\* A failure ends the job or gives it back, and the worker is told or is not: the failures that
\* ended the job are those heard of, those to be heard of and those lost.
LEMMA FailJobKeeps ==
  ASSUME EmailInv, NEW w \in Mailers, NEW reply \in {"retryable", "deterministic"}, WithJob(w),
         FailJob(w, reply), UNCHANGED <<paused, mailed, extra, dead>>
  PROVE  EmailInv'
<1>j. PICK j \in Jobs : j = MailerJob(w)
  BY DEF EmailInv, MailerFits, WithJob
<1>t. /\ EmailTypeOK /\ JobFits(j) /\ extra = {} /\ mailQueue[j] \in JobRecord
      /\ dead \in [Jobs -> Nat] /\ unheard \in [Jobs -> Nat]
      /\ NoJob # w /\ mailQueue[j].lock = w /\ mailQueue[j].state = "active"
      /\ mailer[w] \in MailerRecord /\ mailer[w].job = j
  BY <1>j, EmailAssumption DEF EmailInv, EmailTypeOK, FailJob, JobFits, MailerJob
<1>a. /\ mailer[w].attempt = mailQueue[j].made + 1
      /\ mailQueue[j].made + 1 \in Nat /\ Attempts \in Nat
  BY <1>j, <1>t, EmailAssumption DEF EmailInv, MailerFits, WithJob, JobRecord
<1>g. PICK again \in BOOLEAN : again <=> (reply = "retryable" /\ mailQueue[j].made + 1 < Attempts)
  OBVIOUS
<1>f. Terminal(reply, mailer[w].attempt) <=> ~again
  BY <1>a, <1>g DEF Terminal
<1>n. PICK n \in Nat : n = mailQueue[j].made + 1
  BY <1>a
<1>s. PICK s \in {"waiting", "failed"} : s = IF again THEN "waiting" ELSE "failed"
  OBVIOUS
<1>1. PICK r \in JobRecord : /\ mailQueue' = [mailQueue EXCEPT ![j] = r]
                             /\ r.state = s /\ r.lock = NoJob
                             /\ r.retried = mailQueue[j].retried
                             /\ r.template = mailQueue[j].template
                             /\ r.payload = mailQueue[j].payload
  <2> DEFINE e == [mailQueue[j] EXCEPT !.state = s, !.made = n, !.doomed = FALSE, !.lock = NoJob]
  <2>1. /\ e \in JobRecord /\ e.state = s /\ e.lock = NoJob
        /\ e.retried = mailQueue[j].retried
        /\ e.template = mailQueue[j].template /\ e.payload = mailQueue[j].payload
    BY <1>t DEF JobRecord, JobState
  <2>2. mailQueue' = [mailQueue EXCEPT ![j] = e]
    BY <1>j, <1>t, <1>g, <1>n, <1>s DEF FailJob, EmailTypeOK
  <2> HIDE DEF e
  <2> QED
    BY <2>1, <2>2
<1>2. mailQueue'[j] = r /\ \A i \in Jobs : i # j => mailQueue'[i] = mailQueue[i]
  BY <1>t, <1>1 DEF EmailTypeOK
<1>3. JobStays(j) /\ mailQueue' \in [Jobs -> JobRecord]
  BY <1>t, <1>1, <1>2, <1>s, EmailAssumption DEF JobStays, EmailTypeOK
<1>4. \A i \in Jobs : w \notin Untold(i)
  BY DEF Untold, MailerAt, WithJob
<1>5. ASSUME NEW more \in Nat,
             dead'[j] + Cardinality(Untold(j)') + unheard'[j]
               = dead[j] + Cardinality(Untold(j)) + unheard[j] + more,
             more = IF again THEN 0 ELSE 1
      PROVE  JobFits(j)'
  <2>1. dead[j] + Cardinality(Untold(j)) + unheard[j] = mailQueue[j].retried
    <3>1. mailQueue[j].retried + 0 = mailQueue[j].retried
      BY <1>t DEF JobRecord
    <3> QED
      BY <1>t, <3>1 DEF JobFits, JobIn
  <2>2. dead'[j] + Cardinality(Untold(j)') + unheard'[j] = r.retried + more
    BY <1>1, <1>5, <2>1
  <2> QED
    BY <1>1, <1>2, <1>5, <1>s, <2>2 DEF JobFits, JobIn
<1>6. CASE /\ mailer' = [mailer EXCEPT ![w].step = IF again THEN "retrying" ELSE "ended",
                                       ![w].reply = reply]
           /\ UNCHANGED unheard
  <2>1. PICK p \in {"retrying", "ended"} : p = IF again THEN "retrying" ELSE "ended"
    OBVIOUS
  <2>2. PICK m \in MailerRecord : /\ mailer' = [mailer EXCEPT ![w] = m]
                                  /\ m.step = p /\ m.reply = reply /\ m.job = j
                                  /\ m.attempt = mailer[w].attempt
    <3> DEFINE e == [mailer[w] EXCEPT !.step = p, !.reply = reply]
    <3>1. /\ e \in MailerRecord /\ e.step = p /\ e.reply = reply /\ e.job = j
          /\ e.attempt = mailer[w].attempt
      BY <1>t DEF MailerRecord, MailerStep, Reply
    <3>2. mailer' = [mailer EXCEPT ![w] = e]
      BY <1>t, <1>6, <2>1 DEF EmailTypeOK
    <3> HIDE DEF e
    <3> QED
      BY <3>1, <3>2
  <2>3. mailer'[w] = m /\ \A u \in Mailers : u # w => mailer'[u] = mailer[u]
    BY <1>t, <2>2 DEF EmailTypeOK
  <2>4. EmailTypeOK'
    <3>1. mailer' \in [Mailers -> MailerRecord]
      BY <1>t, <2>2 DEF EmailTypeOK
    <3>2. unheard' = unheard
      BY <1>6
    <3> QED
      BY <1>t, <1>3, <3>1, <3>2 DEF EmailTypeOK
  <2>5. MailerFits(w)'
    <3>1. MailerJob(w)' = j
      BY <2>2, <2>3 DEF MailerJob
    <3>2. ~WithJob(w)'
      BY <2>1, <2>2, <2>3 DEF WithJob
    <3>3. Terminal(m.reply, m.attempt) <=> ~again
      BY <1>f, <2>2
    <3>4. m.step = "ended" <=> ~again
      BY <2>1, <2>2
    <3> QED
      BY <1>1, <1>2, <1>s, <2>2, <2>3, <3>1, <3>2, <3>3, <3>4 DEF MailerFits, Terminal
  <2>6. \A i \in Jobs : /\ IsFiniteSet(Untold(i)) /\ Cardinality(Untold(i)) \in Nat
                       /\ Untold(i)' = IF p = "ended" /\ i = j THEN Untold(i) \cup {w}
                                       ELSE Untold(i)
    <3> SUFFICES ASSUME NEW i \in Jobs
                 PROVE  /\ IsFiniteSet(Untold(i)) /\ Cardinality(Untold(i)) \in Nat
                        /\ Untold(i)' = IF p = "ended" /\ i = j THEN Untold(i) \cup {w}
                                        ELSE Untold(i)
      OBVIOUS
    <3>1. Untold(i) \ {w} = Untold(i)
      BY <1>4
    <3>2. /\ IsFiniteSet(Untold(i)) /\ Cardinality(Untold(i)) \in Nat
          /\ Untold(i)' = IF m.step = "ended" /\ m.job = i THEN Untold(i) \cup {w}
                          ELSE Untold(i) \ {w}
      <4>1. EmailTypeOK /\ m \in MailerRecord /\ mailer' = [mailer EXCEPT ![w] = m]
        BY <1>t, <2>2
      <4> QED
        BY <4>1, UntoldMoves
    <3> QED
      BY <2>2, <3>1, <3>2
  <2>7. JobFits(j)'
    <3>1. CASE again
      <4>1. dead'[j] + Cardinality(Untold(j)') + unheard'[j]
              = dead[j] + Cardinality(Untold(j)) + unheard[j] + 0
        BY <1>t, <1>6, <2>1, <2>6, <3>1
      <4> QED
        BY <1>5, <3>1, <4>1
    <3>2. CASE ~again
      <4>1. Untold(j)' = Untold(j) \cup {w}
        BY <2>1, <2>6, <3>2
      <4>2. Cardinality(Untold(j) \cup {w}) = Cardinality(Untold(j)) + 1
        BY <1>4, <2>6, FS_AddElement
      <4>3. dead'[j] + Cardinality(Untold(j)') + unheard'[j]
              = dead[j] + Cardinality(Untold(j)) + unheard[j] + 1
        BY <1>t, <1>6, <2>6, <4>1, <4>2
      <4> QED
        BY <1>5, <3>2, <4>3
    <3> QED
      BY <3>1, <3>2
  <2>8. \A i \in Jobs : i # j => SameJob(i)
    BY <1>2, <1>6, <2>6 DEF SameJob
  <2> QED
    BY <1>t, <1>3, <2>3, <2>4, <2>5, <2>7, <2>8, EmailMoves
<1>7. CASE /\ mailer' = [mailer EXCEPT ![w] = IdleMailer]
           /\ unheard' = [unheard EXCEPT ![j] = IF again THEN @ ELSE @ + 1]
  <2>1. /\ mailer' \in [Mailers -> MailerRecord] /\ MailerFits(w)'
        /\ \A u \in Mailers : u # w => mailer'[u] = mailer[u]
        /\ \A i \in Jobs : Cardinality(Untold(i)) \in Nat /\ Untold(i)' = Untold(i)
    <3>1. mailer' = [mailer EXCEPT ![w] = IdleMailer]
      BY <1>7
    <3>2. /\ mailer' \in [Mailers -> MailerRecord] /\ MailerFits(w)'
          /\ \A u \in Mailers : u # w => mailer'[u] = mailer[u]
          /\ \A i \in Jobs : Cardinality(Untold(i)) \in Nat /\ Untold(i)' = Untold(i) \ {w}
      BY <1>t, <3>1, MailerRests
    <3>3. \A i \in Jobs : Untold(i) \ {w} = Untold(i)
      BY <1>4
    <3> QED
      BY <3>2, <3>3
  <2>2. PICK more \in Nat : more = IF again THEN 0 ELSE 1
    OBVIOUS
  <2>3. /\ unheard'[j] = unheard[j] + more /\ unheard' \in [Jobs -> Nat]
        /\ \A i \in Jobs : i # j => unheard'[i] = unheard[i]
    BY <1>t, <1>7, <2>2
  <2>4. EmailTypeOK'
    BY <1>t, <1>3, <2>1, <2>3 DEF EmailTypeOK
  <2>5. JobFits(j)'
    <3>1. dead'[j] + Cardinality(Untold(j)') + unheard'[j]
            = dead[j] + Cardinality(Untold(j)) + unheard[j] + more
      BY <1>t, <2>1, <2>3
    <3> QED
      BY <1>5, <2>2, <3>1
  <2>6. \A i \in Jobs : i # j => SameJob(i)
    BY <1>2, <2>1, <2>3 DEF SameJob
  <2> QED
    BY <1>t, <1>3, <2>1, <2>4, <2>5, <2>6, EmailMoves
<1> QED
  BY <1>6, <1>7, <1>g, <1>j DEF FailJob

LEMMA SettleKeeps ==
  ASSUME EmailInv, NEW w \in Mailers, NEW reply \in Reply, WithJob(w), Settle(w, reply),
         reply = "success" => \/ Discarded(MailerJob(w))
                              \/ \E m \in mailed : m[1] = MailerJob(w)
  PROVE  EmailInv'
<1>1. CASE TurnAway(w)
  BY <1>1, TurnAwayKeeps DEF Settle
<1>2. CASE reply = "success" /\ Complete(w)
  BY <1>2, CompleteKeeps DEF Settle
<1>3. CASE reply # "success" /\ FailJob(w, reply)
  <2>1. reply \in {"retryable", "deterministic"}
    BY <1>3 DEF Reply
  <2> QED
    BY <1>3, <2>1, FailJobKeeps DEF Settle
<1> QED
  BY <1>1, <1>2, <1>3 DEF Settle

\* The worker hears of a failure, or dies before it does.
LEMMA FailureIsToldOnce ==
  ASSUME EmailInv, NEW w \in Mailers, mailer[w].step # "idle",
         mailer' = [mailer EXCEPT ![w] = IdleMailer],
         UNCHANGED <<mailQueue, paused, mailed, extra>>,
         dead' \in [Jobs -> Nat], unheard' \in [Jobs -> Nat],
         \A i \in Jobs : dead'[i] + unheard'[i] =
           dead[i] + unheard[i] + (IF mailer[w].step = "ended" /\ MailerJob(w) = i THEN 1 ELSE 0)
  PROVE  EmailInv'
<1>t. EmailTypeOK /\ extra = {} /\ dead \in [Jobs -> Nat] /\ unheard \in [Jobs -> Nat]
  BY DEF EmailInv, EmailTypeOK
<1>m. /\ mailer' \in [Mailers -> MailerRecord] /\ MailerFits(w)'
      /\ \A u \in Mailers : u # w => mailer'[u] = mailer[u]
      /\ \A i \in Jobs : /\ IsFiniteSet(Untold(i)) /\ Cardinality(Untold(i)) \in Nat
                        /\ Untold(i)' = Untold(i) \ {w}
  BY <1>t, MailerRests
<1>1. EmailTypeOK'
  BY <1>t, <1>m DEF EmailTypeOK
<1>2. ASSUME NEW i \in Jobs PROVE JobStays(i) /\ JobFits(i)'
  <2>1. JobFits(i)
    BY DEF EmailInv
  <2>2. dead'[i] + Cardinality(Untold(i)') + unheard'[i]
          = dead[i] + Cardinality(Untold(i)) + unheard[i]
    <3>1. w \in Untold(i) <=> mailer[w].step = "ended" /\ MailerJob(w) = i
      BY DEF Untold, MailerAt
    <3>d. /\ dead[i] \in Nat /\ unheard[i] \in Nat /\ dead'[i] \in Nat /\ unheard'[i] \in Nat
          /\ Cardinality(Untold(i)) \in Nat
      BY <1>t, <1>m
    <3>2. CASE w \in Untold(i)
      <4>1. Cardinality(Untold(i) \ {w}) = Cardinality(Untold(i)) - 1
        BY <1>m, <3>2, FS_RemoveElement
      <4>2. Cardinality(Untold(i)') = Cardinality(Untold(i)) - 1
        BY <1>m, <4>1
      <4>3. dead'[i] + unheard'[i] = dead[i] + unheard[i] + 1
        BY <3>1, <3>2
      <4>4. PICK n \in Nat : n = Cardinality(Untold(i))
        BY <3>d
      <4>5. PICK k \in Int : k = Cardinality(Untold(i)') /\ k = n - 1
        BY <4>2, <4>4
      <4>6. dead'[i] + k + unheard'[i] = dead[i] + n + unheard[i]
        BY <3>d, <4>3, <4>5
      <4> QED
        BY <4>4, <4>5, <4>6
    <3>3. CASE w \notin Untold(i)
      <4>1. Cardinality(Untold(i)') = Cardinality(Untold(i))
        <5>1. Untold(i) \ {w} = Untold(i)
          BY <3>3
        <5> QED
          BY <1>m, <5>1
      <4>2. dead'[i] + unheard'[i] = dead[i] + unheard[i] + 0
        BY <3>1, <3>3
      <4> QED
        BY <3>d, <4>1, <4>2
    <3> QED
      BY <3>2, <3>3
  <2>3. JobFits(i)'
    BY <2>1, <2>2 DEF JobFits, JobIn, Discarded
  <2> QED
    BY <2>3 DEF JobStays
<1> QED
  BY <1>t, <1>m, <1>1, <1>2, EmailMoves

LEMMA OnFailedKeeps ==
  ASSUME EmailInv, NEW w \in Mailers, OnFailed(w)
  PROVE  EmailInv'
<1>t. /\ mailer[w].step \in {"retrying", "ended"} /\ MailerFits(w)
      /\ dead \in [Jobs -> Nat] /\ unheard \in [Jobs -> Nat]
  BY DEF EmailInv, EmailTypeOK, OnFailed
<1>j. PICK j \in Jobs : j = MailerJob(w)
  BY <1>t DEF MailerFits
<1>1. mailer[w].step = "ended" <=> Terminal(mailer[w].reply, mailer[w].attempt)
  BY <1>t DEF MailerFits
<1>2. dead' = [dead EXCEPT ![j] = IF mailer[w].step = "ended" THEN @ + 1 ELSE @]
  BY <1>j, <1>1 DEF OnFailed
<1>3. /\ dead' \in [Jobs -> Nat] /\ unheard' = unheard
      /\ \A i \in Jobs : dead'[i] + unheard'[i] =
           dead[i] + unheard[i] + (IF mailer[w].step = "ended" /\ MailerJob(w) = i THEN 1 ELSE 0)
  BY <1>t, <1>j, <1>2 DEF OnFailed
<1> QED
  BY <1>t, <1>3, FailureIsToldOnce DEF OnFailed

LEMMA CrashMailerKeeps ==
  ASSUME EmailInv, NEW w \in Mailers, CrashMailer(w)
  PROVE  EmailInv'
<1>t. /\ mailer[w].step # "idle" /\ MailerFits(w)
      /\ dead \in [Jobs -> Nat] /\ unheard \in [Jobs -> Nat]
  BY DEF EmailInv, EmailTypeOK, CrashMailer, MailerAt
<1>j. PICK j \in Jobs : j = MailerJob(w)
  BY <1>t DEF MailerFits
<1>1. unheard' = [unheard EXCEPT ![j] = IF mailer[w].step = "ended" THEN @ + 1 ELSE @]
  BY <1>j DEF CrashMailer, MailerAt
<1>2. /\ unheard' \in [Jobs -> Nat] /\ dead' = dead
      /\ \A i \in Jobs : dead'[i] + unheard'[i] =
           dead[i] + unheard[i] + (IF mailer[w].step = "ended" /\ MailerJob(w) = i THEN 1 ELSE 0)
  BY <1>t, <1>j, <1>1 DEF CrashMailer
<1> QED
  BY <1>t, <1>2, FailureIsToldOnce DEF CrashMailer

LEMMA CallProviderKeeps ==
  ASSUME EmailInv, NEW w \in Mailers, CallProvider(w)
  PROVE  EmailInv'
<1>t. /\ EmailTypeOK /\ extra = {} /\ UNCHANGED <<mailQueue, paused, mailed, extra, dead, unheard>>
      /\ mailer[w] \in MailerRecord /\ mailer[w].step = "read" /\ ~Discarded(MailerJob(w))
      /\ MailerFits(w)
  BY DEF EmailInv, EmailTypeOK, CallProvider, MailerAt
<1>1. PICK m \in MailerRecord : /\ mailer' = [mailer EXCEPT ![w] = m] /\ m.step = "sending"
                                /\ m.job = mailer[w].job /\ m.attempt = mailer[w].attempt
  <2> DEFINE e == [mailer[w] EXCEPT !.step = "sending"]
  <2>1. /\ e \in MailerRecord /\ e.step = "sending" /\ e.job = mailer[w].job
        /\ e.attempt = mailer[w].attempt
    BY <1>t DEF MailerRecord, MailerStep
  <2>2. mailer' = [mailer EXCEPT ![w] = e]
    BY <1>t DEF CallProvider
  <2> HIDE DEF e
  <2> QED
    BY <2>1, <2>2
<1>2. mailer'[w] = m /\ \A u \in Mailers : u # w => mailer'[u] = mailer[u]
  BY <1>t, <1>1 DEF EmailTypeOK
<1>3. EmailTypeOK'
  BY <1>t, <1>1 DEF EmailTypeOK
<1>4. MailerFits(w)'
  <2>1. MailerJob(w)' = MailerJob(w)
    BY <1>1, <1>2 DEF MailerJob
  <2> QED
    BY <1>t, <1>1, <1>2, <2>1 DEF MailerFits, WithJob, Discarded
<1>5. \A i \in Jobs : SameJob(i)
  BY <1>t, <1>1, UntoldStays DEF SameJob
<1> QED
  BY <1>t, <1>2, <1>3, <1>4, <1>5, EmailMoves

LEMMA AnswerSendKeeps ==
  ASSUME EmailInv, NEW w \in Mailers, NEW reply \in Reply, AnswerSend(w, reply)
  PROVE  EmailInv'
<1>t. /\ EmailTypeOK /\ extra = {} /\ UNCHANGED <<mailQueue, paused, dead, unheard>>
      /\ mailer[w] \in MailerRecord /\ mailer[w].step = "sending" /\ MailerFits(w)
      /\ \A m \in mailed : MailFits(m)
  BY DEF EmailInv, EmailTypeOK, AnswerSend, MailerAt
<1>j. PICK j \in Jobs : /\ j = MailerJob(w) /\ mailQueue[j].state # "absent"
                        /\ mailQueue[j].template \notin Secret
  BY <1>t DEF MailerFits
<1>1. PICK m \in MailerRecord : /\ mailer' = [mailer EXCEPT ![w] = m] /\ m.step = "answered"
                                /\ m.job = mailer[w].job /\ m.reply = reply
                                /\ m.attempt = mailer[w].attempt
  <2> DEFINE e == [mailer[w] EXCEPT !.step = "answered", !.reply = reply]
  <2>1. /\ e \in MailerRecord /\ e.step = "answered" /\ e.job = mailer[w].job /\ e.reply = reply
        /\ e.attempt = mailer[w].attempt
    BY <1>t DEF MailerRecord, MailerStep
  <2>2. mailer' = [mailer EXCEPT ![w] = e]
    BY <1>t DEF AnswerSend
  <2> HIDE DEF e
  <2> QED
    BY <2>1, <2>2
<1>2. mailer'[w] = m /\ \A u \in Mailers : u # w => mailer'[u] = mailer[u]
  BY <1>t, <1>1 DEF EmailTypeOK
<1>3. /\ extra' = {} /\ mailed \subseteq mailed'
      /\ reply = "success" => <<j, MailKey(j, 0)>> \in mailed'
      /\ \A x \in mailed' : x \in mailed \/ x = <<j, MailKey(j, 0)>>
  <2>1. CASE reply \in {"success", "retryable"} /\ Delivered(w)
    <3>1. mailed' = mailed \cup {<<j, MailKey(j, 0)>>}
      BY <1>j, <2>1 DEF Delivered, MailKey
    <3>2. ~\E x \in mailed : x[1] = j /\ x[2] # MailKey(j, mailer[w].attempt)
      BY <1>t DEF MailFits, MailKey
    <3>3. extra' = extra
      BY <1>j, <2>1, <3>2 DEF Delivered
    <3> QED
      BY <1>t, <3>1, <3>3
  <2>2. CASE reply \in {"retryable", "deterministic"} /\ UNCHANGED <<mailed, extra>>
    BY <1>t, <2>2
  <2> QED
    BY <2>1, <2>2 DEF AnswerSend
<1>4. EmailTypeOK'
  BY <1>t, <1>1, <1>3 DEF EmailTypeOK
<1>5. MailerFits(w)'
  <2>1. MailerJob(w)' = j
    BY <1>j, <1>1, <1>2 DEF MailerJob
  <2>2. reply = "success" => \E x \in mailed' : x[1] = j
    BY <1>3
  <2> QED
    BY <1>t, <1>j, <1>1, <1>2, <2>1, <2>2 DEF MailerFits, WithJob
<1>6. \A x \in mailed' : x \in mailed \/ MailFits(x)'
  BY <1>t, <1>j, <1>3 DEF MailFits, MailKey
<1>7. \A i \in Jobs : SameJob(i)
  BY <1>t, <1>1, UntoldStays DEF SameJob
<1> QED
  BY <1>t, <1>2, <1>3, <1>4, <1>5, <1>6, <1>7, EmailMoves

\* Every step of the producer, the operator, the queue and its workers keeps the invariant.
LEMMA EmailSteps == EmailInv /\ [EmailNext]_emailVars => EmailInv'
<1> SUFFICES ASSUME EmailInv, [EmailNext]_emailVars PROVE EmailInv'
  OBVIOUS
<1>1. CASE UNCHANGED emailVars \/ PauseQueue \/ ResumeQueue
  <2>1. /\ UNCHANGED <<mailQueue, mailer, mailed, extra, dead, unheard>>
        /\ paused' \in BOOLEAN
    BY <1>1 DEF PauseQueue, ResumeQueue, emailVars, EmailInv, EmailTypeOK
  <2>2. EmailTypeOK' /\ extra' = {}
    BY <2>1 DEF EmailInv, EmailTypeOK
  <2>3. \A i \in Jobs : SameJob(i)
    BY <2>1 DEF SameJob, Untold, MailerAt, MailerJob
  <2> QED
    BY <2>1, <2>2, <2>3, EmailMoves
<1>3. ASSUME NEW w \in Mailers, DiscardJob(w) PROVE EmailInv'
  <2>1. WithJob(w) /\ Settle(w, "success") /\ Discarded(MailerJob(w)) /\ "success" \in Reply
    BY <1>3 DEF DiscardJob, MailerAt, WithJob, Reply
  <2> QED
    BY <2>1, SettleKeeps
<1>4. ASSUME NEW w \in Mailers, RejectJob(w) PROVE EmailInv'
  <2>1. WithJob(w) /\ Settle(w, "deterministic") /\ "deterministic" \in Reply
    BY <1>4 DEF RejectJob, MailerAt, WithJob, Reply
  <2> QED
    BY <2>1, SettleKeeps
<1>5. ASSUME NEW w \in Mailers, EndJob(w) PROVE EmailInv'
  <2>1. mailer[w].step = "answered" /\ WithJob(w) /\ Settle(w, mailer[w].reply)
    BY <1>5 DEF EndJob, MailerAt, WithJob
  <2>2. PICK reply \in Reply : reply = mailer[w].reply
    BY DEF EmailInv, EmailTypeOK, MailerRecord
  <2>3. reply = "success" => \E m \in mailed : m[1] = MailerJob(w)
    BY <2>1, <2>2 DEF EmailInv, MailerFits
  <2> QED
    BY <2>1, <2>2, <2>3, SettleKeeps
<1> QED
  BY <1>1, <1>3, <1>4, <1>5, QueueMailKeeps, RetryJobKeeps, StallJobKeeps, TakeJobKeeps,
     OnFailedKeeps, CrashMailerKeeps, CallProviderKeeps, AnswerSendKeeps DEF EmailNext

\* The e-mail queue's inductive invariant.
THEOREM EmailInvariant == EmailSpec => []EmailInv
BY EmailStarts, EmailSteps, PTL DEF EmailSpec

\* However often a job is taken up, stalled, answered with a lost reply or retried by an operator,
\* one mail goes out for it at most, one that completed sent it, no secret leaves through the
\* queue, and every failure that ends a job raises one dead-letter event, except where its worker
\* dies or loses Redis between the move of the job and the event.
THEOREM EmailHolds == EmailSpec => []EmailIsSound
<1>1. EmailInv => EmailIsSound
  <2> SUFFICES ASSUME EmailInv PROVE EmailIsSound
    OBVIOUS
  <2>1. OneMailPerJob /\ DeadLettersAreExact
    BY DEF EmailInv, JobFits, OneMailPerJob, DeadLettersAreExact
  <2>2. SecretsStayOut
    BY DEF EmailInv, MailFits, SecretsStayOut
  <2> QED
    BY <2>1, <2>2 DEF EmailIsSound
<1> QED
  BY <1>1, EmailInvariant, PTL

-----------------------------------------------------------------------------
(* ChannelDelivery.                                                        *)

\* A delivery that waits has attempts left and is due after the last wait a provider asked for.
ParcelFits ==
  /\ parcel.status \in DueStatus => parcel.count < SendAttempts /\ floor <= parcel.due
  /\ parcel.status = "PROCESSING" => parcel.count > 0 /\ floor <= clock
  /\ parcel.status = "NONE" => parcel.count = 0 /\ floor = 0

\* What the delivery in a worker's hands may say, and whom it may fence.
SenderSays(s) ==
  /\ sender[s].pc = "fence" => parcel.ref \in refused
  /\ sender[s].pc = "call" => sender[s].content # "none"
  /\ sender[s].pc = "call" /\ sender[s].content = "detail" =>
       LET def == sender[s].def IN
       /\ def # Unknown /\ def.projects /\ parcel.shape \in def.accepts
       /\ \/ def.override[parcel.channel] = "detailed"
          \/ def.class = "PUBLIC" /\ def.override[parcel.channel] = "none"

\* A worker holds a claim of an attempt that was made, and the present one from its due time on.
SenderFits(s) ==
  /\ sender[s].n <= parcel.count
  /\ sender[s].pc # "idle" => parcel.status # "NONE"
  /\ sender[s].pc # "idle" /\ OwnsParcel(s) => sender[s].at >= floor
  /\ SenderSays(s)

\* Every request for a mail names the delivery, and so there is one mail.
MailsFit ==
  /\ \A given \in late : given.key = 0
  /\ \A m \in mails : m.key = 0
  /\ \A m, o \in mails : m = o

\* The inductive invariant.
DeliveryInv ==
  /\ DeliveryTypeOK /\ ParcelFits /\ MailsFit /\ OnlyRefusedIsBlocked
  /\ \A s \in Senders : SenderFits(s)

\* A delivery never loses an attempt, nor what it was made for.
ParcelGrows ==
  /\ parcel'.count >= parcel.count
  /\ parcel.status # "NONE" =>
       /\ parcel'.status # "NONE" /\ parcel'.ref = parcel.ref
       /\ parcel'.shape = parcel.shape /\ parcel'.channel = parcel.channel
  /\ parcel'.status = "PROCESSING" =>
       \/ parcel.status = "PROCESSING" /\ parcel'.count = parcel.count /\ floor' = floor
       \/ parcel'.count > parcel.count

LEMMA CountsAreNat ==
  ASSUME DeliveryTypeOK
  PROVE  /\ parcel.count \in Nat /\ parcel.count <= SendAttempts /\ SendAttempts \in Nat
         /\ parcel.due \in Nat /\ floor \in Nat /\ clock \in Nat /\ clock <= LastTick
         /\ \A s \in Senders : sender[s].n \in Nat /\ sender[s].at \in Nat
<1>1. DueTime \subseteq Nat /\ SendAttempts \in Nat /\ LastTick \in Nat
  <2>1. LastTick \in Nat /\ WaitMax \in Nat /\ BackoffCap \in Nat /\ SendAttempts \in Nat
    BY DeliveryAssumption
  <2> QED
    BY <2>1 DEF DueTime
<1>2. /\ parcel.count \in 0 .. SendAttempts /\ parcel.due \in DueTime
  BY DEF DeliveryTypeOK, Parcel
<1>3. \A s \in Senders : sender[s].n \in Nat /\ sender[s].at \in Nat
  BY DEF DeliveryTypeOK, SenderRecord
<1>4. floor \in Nat /\ clock \in 0 .. LastTick
  BY DEF DeliveryTypeOK
<1>5. parcel.count \in Nat /\ parcel.count <= SendAttempts /\ clock \in Nat /\ clock <= LastTick
  BY <1>1, <1>2, <1>4
<1>6. parcel.due \in Nat
  BY <1>1, <1>2
<1> QED
  BY <1>1, <1>3, <1>4, <1>5, <1>6

\* A worker whose claim is as it was still fits, and one that holds nothing always does.
LEMMA SenderStays ==
  ASSUME DeliveryInv, DeliveryTypeOK', ParcelGrows, refused \subseteq refused', NEW s \in Senders,
         sender'[s].n = sender[s].n /\ sender'[s].at = sender[s].at /\ sender[s].pc # "idle",
         SenderSays(s)'
  PROVE  SenderFits(s)'
<1>t. /\ DeliveryTypeOK /\ SenderFits(s)
      /\ parcel.count \in Nat /\ sender[s].n \in Nat /\ sender[s].at \in Nat /\ floor \in Nat
  BY CountsAreNat DEF DeliveryInv
<1>n. parcel'.count \in Nat
  <2>1. SendAttempts \in Nat
    BY DeliveryAssumption
  <2> QED
    BY <2>1 DEF DeliveryTypeOK, Parcel
<1>1. sender'[s].n <= parcel'.count /\ parcel'.status # "NONE"
  BY <1>t, <1>n DEF SenderFits, ParcelGrows
<1>2. ASSUME OwnsParcel(s)' PROVE sender'[s].at >= floor'
  <2>1. parcel'.status = "PROCESSING" /\ parcel'.count = sender[s].n
    BY <1>2 DEF OwnsParcel
  <2>2. parcel.status = "PROCESSING" /\ parcel'.count = parcel.count /\ floor' = floor
    BY <1>t, <1>n, <2>1 DEF ParcelGrows, SenderFits
  <2>3. OwnsParcel(s)
    BY <2>1, <2>2 DEF OwnsParcel
  <2> QED
    BY <1>t, <2>2, <2>3 DEF SenderFits
<1> QED
  BY <1>1, <1>2 DEF SenderFits

LEMMA DeliveryMoves ==
  ASSUME DeliveryInv, DeliveryTypeOK', ParcelGrows, refused \subseteq refused',
         ParcelFits', MailsFit', OnlyRefusedIsBlocked',
         \A s \in Senders :
           \/ sender'[s] = sender[s]
           \/ sender'[s].pc = "idle" /\ sender'[s].n = 0
           \/ /\ sender'[s].n = sender[s].n /\ sender'[s].at = sender[s].at
              /\ sender[s].pc # "idle" /\ SenderSays(s)'
           \/ SenderFits(s)'
  PROVE  DeliveryInv'
<1>n. parcel'.count \in Nat /\ parcel.count \in Nat
  <2>1. SendAttempts \in Nat
    BY DeliveryAssumption
  <2> QED
    BY <2>1 DEF DeliveryInv, DeliveryTypeOK, Parcel
<1>1. ASSUME NEW s \in Senders PROVE SenderFits(s)'
  <2>t. SenderFits(s) /\ sender[s].n \in Nat
    BY CountsAreNat DEF DeliveryInv
  <2>1. CASE sender'[s].pc = "idle" /\ sender'[s].n = 0
    BY <1>n, <2>1 DEF SenderFits, SenderSays
  <2>2. CASE sender'[s] = sender[s] /\ sender[s].pc = "idle"
    BY <1>n, <2>t, <2>2 DEF SenderFits, SenderSays, ParcelGrows
  <2>3. CASE sender'[s] = sender[s] /\ sender[s].pc # "idle"
    <3>1. SenderSays(s)'
      BY <2>t, <2>3 DEF SenderFits, SenderSays, ParcelGrows
    <3> QED
      BY <2>3, <3>1, SenderStays
  <2>4. CASE /\ sender'[s].n = sender[s].n /\ sender'[s].at = sender[s].at
             /\ sender[s].pc # "idle" /\ SenderSays(s)'
    BY <2>4, SenderStays
  <2> QED
    BY <2>1, <2>2, <2>3, <2>4
<1> QED
  BY <1>1 DEF DeliveryInv

-----------------------------------------------------------------------------

SenderPcs == {"idle", "deliver", "call", "fence", "delivered", "transient", "permanent"}

LEMMA RestingIsIdle ==
  Resting \in SenderRecord /\ Resting.pc = "idle" /\ Resting.n = 0
<1>1. Unknown \in RegisteredDefinitions /\ 0 \in Waits
  BY DeliveryAssumption DEF RegisteredDefinitions
<1> QED
  BY <1>1 DEF Resting, SenderRecord

LEMMA SenderRests ==
  ASSUME DeliveryTypeOK, NEW s \in Senders, sender' = [sender EXCEPT ![s] = Resting]
  PROVE  /\ sender' \in [Senders -> SenderRecord]
         /\ sender'[s].pc = "idle" /\ sender'[s].n = 0
         /\ \A u \in Senders : u # s => sender'[u] = sender[u]
BY RestingIsIdle DEF DeliveryTypeOK

LEMMA SenderGoes ==
  ASSUME DeliveryTypeOK, NEW s \in Senders, NEW pc \in SenderPcs, NEW wait \in Waits, Goes(s, pc, wait)
  PROVE  /\ sender' \in [Senders -> SenderRecord]
         /\ sender'[s].pc = pc /\ sender'[s].n = sender[s].n /\ sender'[s].at = sender[s].at
         /\ \A u \in Senders : u # s => sender'[u] = sender[u]
<1>1. sender[s] \in SenderRecord /\ sender \in [Senders -> SenderRecord]
  BY DEF DeliveryTypeOK
<1> DEFINE e == [sender[s] EXCEPT !.pc = pc, !.wait = wait]
<1>2. e \in SenderRecord /\ e.pc = pc /\ e.n = sender[s].n /\ e.at = sender[s].at
  BY <1>1 DEF SenderRecord, SenderPcs
<1>3. sender' = [sender EXCEPT ![s] = e]
  BY <1>1 DEF Goes
<1> HIDE DEF e
<1> QED
  BY <1>1, <1>2, <1>3

\* A code that fences a chat means that the chat refused.
LEMMA FencingIsRefusal ==
  ASSUME NEW state \in ChatState, NEW o \in SendOutcomes[state]
  PROVE  /\ ResultStatus(o.code) \in {"delivered", "transient", "permanent"} /\ o.wait \in Waits
         /\ (o.code \in Fencing => o.gone)
<1>1. PICK a \in Possible(state) :
        o = [code |-> ClassifySend(a), wait |-> RetryAfter(a), gone |-> a \in Refusal(state)]
  BY DEF SendOutcomes
<1>2. a \in BotAnswer /\ \A other \in ChatState \ {state} : a \notin Refusal(other)
  BY <1>1 DEF Possible
<1>3. o.wait \in Waits
  <2>1. RetryAfter(a) \in Waits
    BY <1>2, DeliveryAssumption DEF RetryAfter, BotAnswer
  <2> QED
    BY <1>1, <2>1
<1>4. ASSUME ClassifySend(a) \in Fencing PROVE a \in Refusal(state)
  <2>1. \/ a.http = 403
        \/ a.http = 400 /\ a.says = "migrate"
        \/ a.http = 400 /\ a.says = "chat not found"
    <3> SUFFICES ASSUME a.http # 403, ~(a.http = 400 /\ a.says = "migrate"),
                        ~(a.http = 400 /\ a.says = "chat not found")
                 PROVE  FALSE
      OBVIOUS
    <3>1. ClassifySend(a) \in {"delivered", "telegram_rate_limited", "telegram_provider_transient",
                               "telegram_provider_permanent"}
      <4>1. CASE a.http = 200 /\ a.ok
        BY <4>1 DEF ClassifySend
      <4>2. CASE ~(a.http = 200 /\ a.ok) /\ a.http = 429
        BY <4>2 DEF ClassifySend
      <4>3. CASE ~(a.http = 200 /\ a.ok) /\ a.http # 429 /\ (a.http = 408 \/ a.http >= 500)
        BY <4>3, ZenonT(60) DEF ClassifySend
      <4>4. CASE ~(a.http = 200 /\ a.ok) /\ a.http # 429 /\ ~(a.http = 408 \/ a.http >= 500)
        <5>1. CASE a.http \in {400, 401}
          BY <4>4, <5>1 DEF ClassifySend
        <5>2. CASE a.http \notin {400, 401}
          BY <4>4, <5>2 DEF ClassifySend
        <5> QED
          BY <5>1, <5>2
      <4> QED
        BY <4>1, <4>2, <4>3, <4>4
    <3> QED
      BY <1>4, <3>1 DEF Fencing
  <2>2. \/ a \in Refusal("blocked") \/ a \in Refusal("migrated") \/ a \in Refusal("gone")
    BY <1>2, <2>1 DEF Refusal
  <2> QED
    BY <1>2, <2>2 DEF ChatState
<1>5. ResultStatus(o.code) \in {"delivered", "transient", "permanent"}
  BY DEF ResultStatus
<1> QED
  BY <1>1, <1>3, <1>4, <1>5

\* Details leave only when the definition of the release opens the channel.
LEMMA OnlyOpenIsDetail ==
  ASSUME NEW def \in RegisteredDefinitions, NEW ch \in External, NEW shape,
         ResolveContent(def, ch, shape) = "detail"
  PROVE  /\ def # Unknown /\ def.projects /\ shape \in def.accepts
         /\ \/ def.override[ch] = "detailed"
            \/ def.class = "PUBLIC" /\ def.override[ch] = "none"
<1>1. def # Unknown /\ ResolveExternalMode(def, ch) = "detailed" /\ def.projects
      /\ shape \in def.accepts
  BY DEF ResolveContent
<1>2. def \in TypeDefinition
  BY <1>1, DeliveryAssumption DEF RegisteredDefinitions
<1>3. CASE def.override[ch] # "none"
  BY <1>1, <1>3 DEF ResolveExternalMode
<1>4. CASE def.override[ch] = "none"
  <2>1. DefaultExternalMode(def.class) = "detailed" /\ def.class \in ContentClass
    BY <1>1, <1>2, <1>4 DEF ResolveExternalMode, TypeDefinition
  <2>2. def.class = "PUBLIC"
    BY <2>1 DEF DefaultExternalMode, ContentClass
  <2> QED
    BY <1>1, <1>4, <2>2
<1> QED
  BY <1>1, <1>3, <1>4

\* A retry is due in the range of due times, and no earlier than the wait a provider asked for.
LEMMA RetryIsDue ==
  ASSUME DeliveryTypeOK, NEW n, NEW wait \in Waits
  PROVE  /\ clock + BackoffOf(n) \in DueTime /\ clock + BackoffOf(n) >= clock
         /\ RetryFloor(clock + BackoffOf(n), wait) \in DueTime
         /\ RetryFloor(clock + BackoffOf(n), wait) >= clock + (IF wait <= WaitMax THEN wait ELSE WaitMax)
         /\ clock + (IF wait <= WaitMax THEN wait ELSE WaitMax) \in Nat
<1> DEFINE b == BackoffOf(n)
           w == IF wait <= WaitMax THEN wait ELSE WaitMax
<1>1. clock \in Nat /\ clock <= LastTick /\ LastTick \in Nat /\ WaitMax \in Nat /\ BackoffCap \in Nat
      /\ wait \in Nat
  BY CountsAreNat, DeliveryAssumption
<1>2. b \in Nat /\ b <= BackoffCap
  <2>1. CASE Doubled(n) \in 1 .. BackoffCap
    BY <1>1, <2>1 DEF BackoffOf
  <2>2. CASE Doubled(n) \notin 1 .. BackoffCap
    BY <1>1, <2>2 DEF BackoffOf
  <2> QED
    BY <2>1, <2>2
<1>3. w \in Nat /\ w <= WaitMax /\ (wait = 0 => w = 0)
  BY <1>1
<1>4. \A x \in Nat : x <= LastTick + BackoffCap \/ x <= LastTick + WaitMax => x \in DueTime
  BY <1>1 DEF DueTime
<1>5. RetryFloor(clock + b, wait) = IF wait > 0 /\ clock + w > clock + b THEN clock + w ELSE clock + b
  BY DEF RetryFloor
<1> HIDE DEF b, w
<1>6. clock + b \in DueTime /\ clock + b >= clock /\ clock + w \in Nat
  BY <1>1, <1>2, <1>3, <1>4
<1>7. CASE wait > 0 /\ clock + w > clock + b
  <2>1. RetryFloor(clock + b, wait) = clock + w /\ clock + w \in DueTime
    BY <1>1, <1>3, <1>4, <1>5, <1>7
  <2> QED
    BY <1>1, <1>3, <1>6, <2>1 DEF b, w
<1>8. CASE ~(wait > 0 /\ clock + w > clock + b)
  <2>1. RetryFloor(clock + b, wait) = clock + b /\ clock + b >= clock + w
    BY <1>1, <1>2, <1>3, <1>5, <1>8
  <2> QED
    BY <1>6, <2>1 DEF b, w
<1> QED
  BY <1>7, <1>8

LEMMA DeliveryStarts == DeliveryInit => DeliveryInv
<1> SUFFICES ASSUME DeliveryInit PROVE DeliveryInv
  OBVIOUS
<1>1. SomeChat \in Chats /\ (CHOOSE v \in PayloadShapes : TRUE) \in PayloadShapes
  BY DeliveryAssumption DEF SomeChat
<1>2. 0 \in DueTime /\ 0 \in 0 .. SendAttempts /\ 0 \in Binds /\ 0 \in 0 .. LastTick
  <2>1. LastTick \in Nat /\ WaitMax \in Nat /\ BackoffCap \in Nat /\ SendAttempts \in Nat
        /\ MaxBinds \in Nat
    BY DeliveryAssumption
  <2> QED
    BY <2>1 DEF DueTime, Binds
<1>3. parcel \in Parcel /\ parcel.status = "NONE" /\ parcel.count = 0
  <2>1. "NONE" \in ParcelStatus /\ "email" \in External
    BY DEF ParcelStatus, External
  <2> QED
    BY <1>1, <1>2, <2>1 DEF DeliveryInit, Parcel
<1>4. sender \in [Senders -> SenderRecord]
      /\ \A s \in Senders : sender[s].pc = "idle" /\ sender[s].n = 0
  BY RestingIsIdle DEF DeliveryInit
<1>5. DeliveryTypeOK
  BY <1>1, <1>2, <1>3, <1>4 DEF DeliveryInit, DeliveryTypeOK, ChatState
<1>6. ParcelFits /\ MailsFit /\ OnlyRefusedIsBlocked
  BY <1>3 DEF DeliveryInit, ParcelFits, MailsFit, OnlyRefusedIsBlocked, DueStatus
<1>7. \A s \in Senders : SenderFits(s)
  BY <1>3, <1>4 DEF SenderFits, SenderSays
<1> QED
  BY <1>5, <1>6, <1>7 DEF DeliveryInv

-----------------------------------------------------------------------------

\* What an action leaves alone.
LEMMA ParcelRests ==
  ASSUME DeliveryInv, UNCHANGED <<parcel, floor, clock>>
  PROVE  ParcelGrows /\ ParcelFits'
<1>1. parcel.count \in Nat
  BY CountsAreNat DEF DeliveryInv
<1> QED
  BY <1>1 DEF DeliveryInv, ParcelGrows, ParcelFits

LEMMA MailsRest ==
  ASSUME DeliveryInv, UNCHANGED <<late, mails>>
  PROVE  MailsFit'
BY DEF DeliveryInv, MailsFit

LEMMA CancelKeeps ==
  ASSUME DeliveryInv, NEW id, CancelDueOf(id), UNCHANGED <<floor, clock>>
  PROVE  parcel' \in Parcel /\ ParcelGrows /\ ParcelFits'
<1>t. /\ parcel \in Parcel /\ ParcelFits /\ parcel.count \in Nat
  BY CountsAreNat DEF DeliveryInv, DeliveryTypeOK
<1>1. CASE parcel' = parcel
  BY <1>t, <1>1, ParcelRests
<1>2. CASE parcel.status \in DueStatus /\ parcel' = [parcel EXCEPT !.status = "CANCELLED"]
  <2> DEFINE e == [parcel EXCEPT !.status = "CANCELLED"]
  <2>1. /\ e \in Parcel /\ e.status = "CANCELLED" /\ e.count = parcel.count /\ e.ref = parcel.ref
        /\ e.shape = parcel.shape /\ e.channel = parcel.channel
    BY <1>t DEF Parcel, ParcelStatus
  <2>2. parcel' = e
    BY <1>2
  <2> HIDE DEF e
  <2> QED
    BY <1>t, <2>1, <2>2 DEF ParcelGrows, ParcelFits, DueStatus
<1> QED
  BY <1>1, <1>2 DEF CancelDueOf

LEMMA RebindKeeps ==
  ASSUME DeliveryInv, NEW c \in Chats, Rebind(c)
  PROVE  DeliveryInv'
<1>t. /\ DeliveryTypeOK /\ UNCHANGED <<sender, chat, late, mails, refused, floor, clock>>
      /\ CancelDueOf(connection.id)
  BY DEF DeliveryInv, Rebind
<1>1. PICK id : id = connection.id
  OBVIOUS
<1>2. parcel' \in Parcel /\ ParcelGrows /\ ParcelFits'
  BY <1>t, <1>1, CancelKeeps
<1>3. /\ connection' \in [id : Binds, chat : Chats, status : {"none", "ACTIVE", "BLOCKED"}]
      /\ connection'.status = "ACTIVE"
  <2>1. connection.id + 1 \in Binds
    <3>1. connection.id \in 0 .. MaxBinds /\ MaxBinds \in Nat /\ connection.id < MaxBinds
      BY <1>t, DeliveryAssumption DEF DeliveryTypeOK, Binds, Rebind
    <3> QED
      BY <3>1 DEF Binds
  <2> QED
    BY <2>1 DEF Rebind
<1>4. DeliveryTypeOK'
  BY <1>t, <1>2, <1>3 DEF DeliveryTypeOK
<1>5. MailsFit' /\ OnlyRefusedIsBlocked'
  BY <1>t, <1>3, MailsRest DEF OnlyRefusedIsBlocked
<1> QED
  BY <1>t, <1>2, <1>4, <1>5, DeliveryMoves

LEMMA MaterializeKeeps ==
  ASSUME DeliveryInv, NEW ch \in External, NEW verified \in BOOLEAN, NEW v \in PayloadShapes,
         Materialize(ch, verified, v)
  PROVE  DeliveryInv'
<1>t. /\ DeliveryTypeOK /\ UNCHANGED <<sender, connection, chat, late, mails, refused, floor, clock>>
      /\ parcel.status = "NONE" /\ parcel \in Parcel /\ ParcelFits
  BY DEF DeliveryInv, DeliveryTypeOK, Materialize
<1>n. /\ parcel.count = 0 /\ floor = 0 /\ clock \in Nat /\ clock \in DueTime
      /\ SendAttempts \in Nat \ {0} /\ 0 \in Binds /\ connection.id \in Binds /\ connection.chat \in Chats
  <2>1. LastTick \in Nat /\ WaitMax \in Nat /\ BackoffCap \in Nat /\ MaxBinds \in Nat
        /\ clock \in 0 .. LastTick
    BY <1>t, DeliveryAssumption DEF DeliveryTypeOK
  <2> QED
    BY <1>t, <2>1, DeliveryAssumption DEF ParcelFits, DueTime, Binds, DeliveryTypeOK
<1>1. PICK status \in {"PENDING", "SKIPPED"}, ref \in Binds :
        parcel' = [parcel EXCEPT !.status = status, !.channel = ch, !.shape = v, !.ref = ref,
                                 !.chat = connection.chat, !.due = clock]
  BY <1>n DEF Materialize
<1>2. /\ parcel' \in Parcel /\ parcel'.status = status /\ parcel'.count = 0 /\ parcel'.due = clock
  <2> DEFINE e == [parcel EXCEPT !.status = status, !.channel = ch, !.shape = v, !.ref = ref,
                                 !.chat = connection.chat, !.due = clock]
  <2>1. e \in Parcel /\ e.status = status /\ e.count = 0 /\ e.due = clock
    <3>1. status \in ParcelStatus
      BY DEF ParcelStatus, DueStatus
    <3> QED
      BY <1>t, <1>n, <3>1 DEF Parcel
  <2>2. parcel' = e
    BY <1>1
  <2> HIDE DEF e
  <2> QED
    BY <2>1, <2>2
<1>3. ParcelGrows /\ ParcelFits'
  BY <1>t, <1>n, <1>2 DEF ParcelGrows, ParcelFits, DueStatus
<1>4. DeliveryTypeOK'
  BY <1>t, <1>2 DEF DeliveryTypeOK
<1>5. MailsFit' /\ OnlyRefusedIsBlocked'
  BY <1>t, MailsRest DEF DeliveryInv, OnlyRefusedIsBlocked
<1> QED
  BY <1>t, <1>3, <1>4, <1>5, DeliveryMoves

LEMMA WorldTurns ==
  ASSUME DeliveryInv,
         \/ \E s \in Senders : SenderDies(s)
         \/ \E c \in Chats, state \in ChatState : ChatTurns(c, state)
         \/ ClockTicks
  PROVE  DeliveryInv'
<1>t. DeliveryTypeOK /\ ParcelFits /\ OnlyRefusedIsBlocked /\ parcel.count \in Nat
      /\ floor \in Nat /\ clock \in Nat
  BY CountsAreNat DEF DeliveryInv
<1>1. ASSUME NEW s \in Senders, SenderDies(s) PROVE DeliveryInv'
  <2>1. /\ UNCHANGED <<parcel, connection, chat, late, mails, refused, floor, clock>>
        /\ sender' = [sender EXCEPT ![s] = Resting]
    BY <1>1 DEF SenderDies
  <2>2. /\ sender' \in [Senders -> SenderRecord] /\ sender'[s].pc = "idle" /\ sender'[s].n = 0
        /\ \A u \in Senders : u # s => sender'[u] = sender[u]
    BY <1>t, <2>1, SenderRests
  <2>3. DeliveryTypeOK'
    BY <1>t, <2>1, <2>2 DEF DeliveryTypeOK
  <2>4. ParcelGrows /\ ParcelFits' /\ MailsFit' /\ OnlyRefusedIsBlocked'
    BY <1>t, <2>1, ParcelRests, MailsRest DEF OnlyRefusedIsBlocked
  <2> QED
    BY <2>1, <2>2, <2>3, <2>4, DeliveryMoves
<1>2. ASSUME NEW c \in Chats, NEW state \in ChatState, ChatTurns(c, state) PROVE DeliveryInv'
  <2>1. UNCHANGED <<sender, parcel, connection, late, mails, refused, floor, clock>>
    BY <1>2 DEF ChatTurns
  <2>2. DeliveryTypeOK'
    BY <1>2, <1>t, <2>1 DEF ChatTurns, DeliveryTypeOK
  <2>3. ParcelGrows /\ ParcelFits' /\ MailsFit' /\ OnlyRefusedIsBlocked'
    BY <1>t, <2>1, ParcelRests, MailsRest DEF OnlyRefusedIsBlocked
  <2> QED
    BY <2>1, <2>2, <2>3, DeliveryMoves
<1>3. CASE ClockTicks
  <2>1. /\ UNCHANGED <<sender, parcel, connection, chat, late, mails, refused, floor>>
        /\ clock < LastTick /\ clock' = clock + 1
    BY <1>3 DEF ClockTicks
  <2>2. DeliveryTypeOK'
    <3>1. clock' \in 0 .. LastTick
      BY <1>t, <2>1, DeliveryAssumption
    <3> QED
      BY <1>t, <2>1, <3>1 DEF DeliveryTypeOK
  <2>3. ParcelFits' /\ ParcelGrows
    BY <1>t, <2>1 DEF ParcelFits, ParcelGrows
  <2>4. MailsFit' /\ OnlyRefusedIsBlocked'
    BY <1>t, <2>1, MailsRest DEF OnlyRefusedIsBlocked
  <2> QED
    BY <2>1, <2>2, <2>3, <2>4, DeliveryMoves
<1> QED
  BY <1>1, <1>2, <1>3

LEMMA TakeDueKeeps ==
  ASSUME DeliveryInv, NEW s \in Senders, NEW def \in RegisteredDefinitions, TakeDue(s, def)
  PROVE  DeliveryInv'
<1>t. /\ DeliveryTypeOK /\ ParcelFits /\ OnlyRefusedIsBlocked /\ parcel \in Parcel
      /\ UNCHANGED <<connection, chat, late, mails, refused, floor, clock>>
      /\ parcel.status \in DueStatus /\ parcel.due <= clock
  BY DEF DeliveryInv, DeliveryTypeOK, TakeDue
<1>n. /\ parcel.count \in Nat /\ SendAttempts \in Nat /\ parcel.count < SendAttempts
      /\ floor \in Nat /\ clock \in Nat /\ parcel.due \in Nat /\ floor <= parcel.due
  BY <1>t, CountsAreNat DEF ParcelFits
<1>1. PICK n \in 0 .. SendAttempts : n = parcel.count + 1
  BY <1>n
<1>2. /\ parcel' \in Parcel /\ parcel'.status = "PROCESSING" /\ parcel'.count = n
      /\ parcel'.ref = parcel.ref /\ parcel'.shape = parcel.shape /\ parcel'.channel = parcel.channel
  <2> DEFINE e == [parcel EXCEPT !.status = "PROCESSING", !.count = n]
  <2>1. /\ e \in Parcel /\ e.status = "PROCESSING" /\ e.count = n
        /\ e.ref = parcel.ref /\ e.shape = parcel.shape /\ e.channel = parcel.channel
    BY <1>t DEF Parcel, ParcelStatus
  <2>2. parcel' = e
    BY <1>1 DEF TakeDue
  <2> HIDE DEF e
  <2> QED
    BY <2>1, <2>2
<1>3. /\ sender' \in [Senders -> SenderRecord]
      /\ sender'[s].pc = "deliver" /\ sender'[s].n = n /\ sender'[s].at = clock
      /\ \A u \in Senders : u # s => sender'[u] = sender[u]
  <2> DEFINE e == [Resting EXCEPT !.pc = "deliver", !.n = n, !.at = clock, !.def = def]
  <2>1. e \in SenderRecord /\ e.pc = "deliver" /\ e.n = n /\ e.at = clock
    <3>1. n \in Nat /\ clock \in Nat /\ 0 \in Waits
      BY <1>n, DeliveryAssumption
    <3> QED
      BY <3>1 DEF Resting, SenderRecord
  <2>2. sender' = [sender EXCEPT ![s] = e]
    BY <1>1 DEF TakeDue
  <2> HIDE DEF e
  <2> QED
    BY <1>t, <2>1, <2>2 DEF DeliveryTypeOK
<1>4. DeliveryTypeOK'
  BY <1>t, <1>2, <1>3 DEF DeliveryTypeOK
<1>5. ParcelFits'
  BY <1>t, <1>n, <1>1, <1>2 DEF ParcelFits, DueStatus
<1>6. ParcelGrows
  BY <1>t, <1>n, <1>1, <1>2 DEF ParcelGrows
<1>7. SenderFits(s)'
  <2>1. SenderSays(s)'
    BY <1>3 DEF SenderSays
  <2>2. sender'[s].n <= parcel'.count /\ parcel'.status # "NONE" /\ sender'[s].at >= floor'
    BY <1>t, <1>n, <1>1, <1>2, <1>3
  <2> QED
    BY <2>1, <2>2 DEF SenderFits
<1>8. MailsFit' /\ OnlyRefusedIsBlocked'
  BY <1>t, MailsRest DEF OnlyRefusedIsBlocked
<1> QED
  BY <1>t, <1>3, <1>4, <1>5, <1>6, <1>7, <1>8, DeliveryMoves

\* A worker moves on with the delivery it holds, and nothing but the mails or the late calls moves.
LEMMA SenderKeeps ==
  ASSUME DeliveryInv, NEW s \in Senders, sender[s].pc # "idle",
         sender' \in [Senders -> SenderRecord],
         sender'[s].n = sender[s].n, sender'[s].at = sender[s].at, SenderSays(s)',
         \A u \in Senders : u # s => sender'[u] = sender[u],
         UNCHANGED <<parcel, connection, chat, floor, clock>>,
         refused \subseteq refused', refused' \subseteq Binds,
         late' \subseteq CallRecord, mails' \subseteq [key : Nat, content : {"generic", "detail"}],
         MailsFit'
  PROVE  DeliveryInv'
<1>t. DeliveryTypeOK /\ OnlyRefusedIsBlocked
  BY DEF DeliveryInv
<1>1. DeliveryTypeOK'
  BY <1>t DEF DeliveryTypeOK
<1>2. ParcelGrows /\ ParcelFits'
  BY ParcelRests
<1>3. OnlyRefusedIsBlocked'
  BY <1>t DEF OnlyRefusedIsBlocked
<1> QED
  BY <1>1, <1>2, <1>3, DeliveryMoves

LEMMA ComposeKeeps ==
  ASSUME DeliveryInv, NEW s \in Senders, Compose(s)
  PROVE  DeliveryInv'
<1>t. /\ DeliveryTypeOK /\ UNCHANGED <<parcel, connection, chat, late, mails, refused, floor, clock>>
      /\ sender[s].pc = "deliver" /\ sender[s] \in SenderRecord /\ parcel \in Parcel
  BY DEF DeliveryInv, DeliveryTypeOK, Compose
<1>m. /\ refused \subseteq Binds /\ late \subseteq CallRecord
      /\ mails \subseteq [key : Nat, content : {"generic", "detail"}] /\ MailsFit'
  BY <1>t, MailsRest DEF DeliveryTypeOK
<1>1. CASE Goes(s, "permanent", 0)
  <2>1. /\ sender' \in [Senders -> SenderRecord]
        /\ sender'[s].pc = "permanent" /\ sender'[s].n = sender[s].n /\ sender'[s].at = sender[s].at
        /\ \A u \in Senders : u # s => sender'[u] = sender[u]
    <3>1. "permanent" \in SenderPcs /\ 0 \in Waits
      BY DeliveryAssumption DEF SenderPcs
    <3> QED
      BY <1>1, <1>t, <3>1, SenderGoes
  <2>2. SenderSays(s)'
    BY <2>1 DEF SenderSays
  <2> QED
    BY <1>t, <1>m, <2>1, <2>2, SenderKeeps
<1>2. ASSUME NEW content \in {"generic", "detail"},
             content = ResolveContent(sender[s].def, parcel.channel, parcel.shape),
             sender' = [sender EXCEPT ![s].pc = "call", ![s].content = content]
      PROVE  DeliveryInv'
  <2>1. /\ sender' \in [Senders -> SenderRecord]
        /\ sender'[s].pc = "call" /\ sender'[s].n = sender[s].n /\ sender'[s].at = sender[s].at
        /\ sender'[s].content = content /\ sender'[s].def = sender[s].def
        /\ \A u \in Senders : u # s => sender'[u] = sender[u]
    <3> DEFINE e == [sender[s] EXCEPT !.pc = "call", !.content = content]
    <3>1. /\ e \in SenderRecord /\ e.pc = "call" /\ e.n = sender[s].n /\ e.at = sender[s].at
          /\ e.content = content /\ e.def = sender[s].def
      BY <1>t DEF SenderRecord
    <3>2. sender' = [sender EXCEPT ![s] = e] /\ sender \in [Senders -> SenderRecord]
      BY <1>2, <1>t DEF DeliveryTypeOK
    <3> HIDE DEF e
    <3> QED
      BY <3>1, <3>2
  <2>2. SenderSays(s)'
    <3>1. PICK def \in RegisteredDefinitions, ch \in External :
            def = sender[s].def /\ ch = parcel.channel
      BY <1>t DEF SenderRecord, Parcel
    <3>2. ASSUME content = "detail"
          PROVE  /\ def # Unknown /\ def.projects /\ parcel.shape \in def.accepts
                 /\ \/ def.override[ch] = "detailed"
                    \/ def.class = "PUBLIC" /\ def.override[ch] = "none"
      <4>1. PICK shape : shape = parcel.shape
        OBVIOUS
      <4>2. ResolveContent(def, ch, shape) = "detail"
        BY <1>2, <3>1, <3>2, <4>1
      <4> QED
        BY <4>1, <4>2, OnlyOpenIsDetail
    <3>3. parcel' = parcel
      BY <1>t
    <3> QED
      BY <2>1, <3>1, <3>2, <3>3 DEF SenderSays
  <2> QED
    BY <1>t, <1>m, <2>1, <2>2, SenderKeeps
<1> QED
  BY <1>1, <1>2 DEF Compose

\* What a worker asks a provider for.
LEMMA CallIsOfItsParcel ==
  ASSUME DeliveryInv, NEW s \in Senders, sender[s].pc = "call"
  PROVE  /\ CallOf(s) \in CallRecord /\ CallOf(s).key = 0
         /\ CallOf(s).ref = parcel.ref /\ CallOf(s).chat = parcel.chat
         /\ CallOf(s).channel = parcel.channel
<1>1. sender[s] \in SenderRecord /\ parcel \in Parcel /\ sender[s].content # "none"
  BY DEF DeliveryInv, DeliveryTypeOK, SenderFits, SenderSays
<1> QED
  BY <1>1 DEF CallOf, DeliveryKey, CallRecord, SenderRecord, Parcel

\* A mail that goes out is the only one.
LEMMA PostedFits ==
  ASSUME DeliveryInv, NEW given \in CallRecord, given.key = 0,
         mails' = Posted(given), late' \subseteq CallRecord, \A c \in late' : c.key = 0
  PROVE  MailsFit' /\ mails' \subseteq [key : Nat, content : {"generic", "detail"}]
<1>t. /\ \A m \in mails : m.key = 0
      /\ \A m, o \in mails : m = o
      /\ mails \subseteq [key : Nat, content : {"generic", "detail"}]
  BY DEF DeliveryInv, MailsFit, DeliveryTypeOK
<1>1. CASE \E m \in mails : m.key = given.key
  BY <1>t, <1>1 DEF Posted, MailsFit
<1>2. CASE ~\E m \in mails : m.key = given.key
  <2>1. PICK o \in [key : Nat, content : {"generic", "detail"}] :
          o = [key |-> given.key, content |-> given.content] /\ o.key = 0
    <3>1. given.key \in Nat /\ given.content \in {"generic", "detail"}
      BY DEF CallRecord
    <3> DEFINE e == [key |-> given.key, content |-> given.content]
    <3>2. e \in [key : Nat, content : {"generic", "detail"}] /\ e.key = 0
      BY <3>1
    <3>3. e = [key |-> given.key, content |-> given.content]
      OBVIOUS
    <3> HIDE DEF e
    <3> QED
      BY <3>2, <3>3
  <2>2. mails = {}
    BY <1>t, <1>2
  <2>3. mails' = mails \cup {o}
    BY <1>2, <2>1 DEF Posted
  <2>4. \A m \in mails' : m = o
    BY <2>2, <2>3
  <2> QED
    BY <2>1, <2>4 DEF MailsFit
<1> QED
  BY <1>1, <1>2

LEMMA MailAnsweredKeeps ==
  ASSUME DeliveryInv, NEW s \in Senders, MailAnswered(s)
  PROVE  DeliveryInv'
<1>t. /\ DeliveryTypeOK /\ UNCHANGED <<parcel, connection, chat, late, refused, floor, clock>>
      /\ sender[s].pc = "call" /\ refused \subseteq Binds /\ late \subseteq CallRecord
      /\ \A c \in late : c.key = 0
  BY DEF DeliveryInv, DeliveryTypeOK, MailsFit, MailAnswered
<1>1. PICK pc \in {"delivered", "transient", "permanent"} :
        Goes(s, pc, 0) /\ (mails' = Posted(CallOf(s)) \/ mails' = mails)
  BY DEF MailAnswered
<1>2. /\ sender' \in [Senders -> SenderRecord]
      /\ sender'[s].pc = pc /\ sender'[s].n = sender[s].n /\ sender'[s].at = sender[s].at
      /\ \A u \in Senders : u # s => sender'[u] = sender[u]
  <2>1. pc \in SenderPcs /\ 0 \in Waits
    BY DeliveryAssumption DEF SenderPcs
  <2> QED
    BY <1>1, <1>t, <2>1, SenderGoes
<1>3. MailsFit' /\ mails' \subseteq [key : Nat, content : {"generic", "detail"}]
  <2>1. CASE mails' = mails
    BY <1>t, <2>1, MailsRest DEF DeliveryTypeOK
  <2>2. CASE mails' = Posted(CallOf(s))
    <3>1. PICK given \in CallRecord : given = CallOf(s) /\ given.key = 0
      BY <1>t, CallIsOfItsParcel
    <3> QED
      BY <1>t, <2>2, <3>1, PostedFits
  <2> QED
    BY <1>1, <2>1, <2>2
<1>4. SenderSays(s)'
  BY <1>2 DEF SenderSays
<1> QED
  BY <1>t, <1>2, <1>3, <1>4, SenderKeeps

LEMMA BotAnsweredKeeps ==
  ASSUME DeliveryInv, NEW s \in Senders, BotAnswered(s)
  PROVE  DeliveryInv'
<1>t. /\ DeliveryTypeOK /\ UNCHANGED <<parcel, connection, chat, late, mails, floor, clock>>
      /\ sender[s].pc = "call" /\ parcel.chat \in Chats /\ parcel.ref \in Binds
      /\ late \subseteq CallRecord /\ mails \subseteq [key : Nat, content : {"generic", "detail"}]
      /\ chat[parcel.chat] \in ChatState /\ refused \subseteq Binds
  BY DEF DeliveryInv, DeliveryTypeOK, BotAnswered, Parcel
<1>c. CallOf(s).ref = parcel.ref /\ CallOf(s).chat = parcel.chat
  BY <1>t, CallIsOfItsParcel
<1>s. PICK state \in ChatState : state = chat[parcel.chat]
  BY <1>t
<1>1. PICK o \in SendOutcomes[state] :
        /\ SendMessage(CallOf(s), o)
        /\ Goes(s, IF o.code \in Fencing THEN "fence" ELSE ResultStatus(o.code), o.wait)
  BY <1>c, <1>s DEF BotAnswered
<1>2. PICK pc \in SenderPcs : /\ pc = IF o.code \in Fencing THEN "fence" ELSE ResultStatus(o.code)
                              /\ pc # "call" /\ (pc = "fence" => o.code \in Fencing)
  BY FencingIsRefusal DEF SenderPcs
<1>3. o.wait \in Waits /\ (o.code \in Fencing => o.gone)
  BY FencingIsRefusal
<1>4. /\ sender' \in [Senders -> SenderRecord]
      /\ sender'[s].pc = pc /\ sender'[s].n = sender[s].n /\ sender'[s].at = sender[s].at
      /\ \A u \in Senders : u # s => sender'[u] = sender[u]
  <2>1. PICK wait \in Waits : wait = o.wait
    BY <1>3
  <2>2. Goes(s, pc, wait)
    BY <1>1, <1>2, <2>1
  <2> QED
    BY <1>t, <2>2, SenderGoes
<1>5. refused' = IF o.gone THEN refused \cup {parcel.ref} ELSE refused
  BY <1>1, <1>c DEF SendMessage
<1>6. /\ refused \subseteq refused' /\ refused' \subseteq Binds
      /\ (pc = "fence" => parcel.ref \in refused')
  BY <1>t, <1>2, <1>3, <1>5
<1>7. SenderSays(s)'
  BY <1>t, <1>2, <1>4, <1>6 DEF SenderSays
<1>8. late' \subseteq CallRecord /\ mails' \subseteq [key : Nat, content : {"generic", "detail"}]
      /\ MailsFit'
  BY <1>t, MailsRest
<1> QED
  BY <1>t, <1>4, <1>6, <1>7, <1>8, SenderKeeps

LEMMA GivesUpKeeps ==
  ASSUME DeliveryInv, NEW s \in Senders, GivesUp(s)
  PROVE  DeliveryInv'
<1>t. /\ DeliveryTypeOK /\ UNCHANGED <<parcel, connection, chat, mails, refused, floor, clock>>
      /\ sender[s].pc = "call" /\ refused \subseteq Binds /\ late \subseteq CallRecord
      /\ mails \subseteq [key : Nat, content : {"generic", "detail"}] /\ MailsFit
      /\ Goes(s, "transient", 0)
  BY DEF DeliveryInv, DeliveryTypeOK, GivesUp
<1>1. PICK given \in CallRecord : given = CallOf(s) /\ given.key = 0
  BY <1>t, CallIsOfItsParcel
<1>2. late' = late \cup {given}
  BY <1>1 DEF GivesUp
<1>3. /\ sender' \in [Senders -> SenderRecord]
      /\ sender'[s].pc = "transient" /\ sender'[s].n = sender[s].n /\ sender'[s].at = sender[s].at
      /\ \A u \in Senders : u # s => sender'[u] = sender[u]
  <2>1. "transient" \in SenderPcs /\ 0 \in Waits
    BY DeliveryAssumption DEF SenderPcs
  <2> QED
    BY <1>t, <2>1, SenderGoes
<1>4. SenderSays(s)' /\ MailsFit' /\ late' \subseteq CallRecord
  BY <1>t, <1>1, <1>2, <1>3 DEF SenderSays, MailsFit
<1> QED
  BY <1>t, <1>3, <1>4, SenderKeeps

\* A fence blocks a connection that the Bot API has refused, and cancels what waits for it.
LEMMA FenceDestinationKeeps ==
  ASSUME DeliveryInv, NEW id, NEW c, id \in refused', refused \subseteq refused',
         \/ FenceDestination(id, c)
         \/ UNCHANGED <<connection, parcel>>,
         UNCHANGED <<floor, clock>>
  PROVE  /\ parcel' \in Parcel /\ ParcelGrows /\ ParcelFits' /\ OnlyRefusedIsBlocked'
         /\ connection' \in [id : Binds, chat : Chats, status : {"none", "ACTIVE", "BLOCKED"}]
<1>t. /\ parcel \in Parcel /\ OnlyRefusedIsBlocked
      /\ connection \in [id : Binds, chat : Chats, status : {"none", "ACTIVE", "BLOCKED"}]
  BY DEF DeliveryInv, DeliveryTypeOK
<1>1. CASE UNCHANGED <<connection, parcel>>
  <2>1. ParcelGrows /\ ParcelFits'
    BY <1>1, ParcelRests
  <2> QED
    BY <1>1, <1>t, <2>1 DEF OnlyRefusedIsBlocked
<1>2. CASE /\ connection.id = id /\ connection' = [connection EXCEPT !.status = "BLOCKED"]
           /\ CancelDueOf(id)
  <2>1. parcel' \in Parcel /\ ParcelGrows /\ ParcelFits'
    BY <1>2, CancelKeeps
  <2> QED
    BY <1>t, <1>2, <2>1 DEF OnlyRefusedIsBlocked
<1> QED
  BY <1>1, <1>2 DEF FenceDestination

LEMMA FenceStepKeeps ==
  ASSUME DeliveryInv, NEW s \in Senders, FenceStep(s)
  PROVE  DeliveryInv'
<1>t. /\ DeliveryTypeOK /\ UNCHANGED <<chat, late, mails, refused, floor, clock>>
      /\ sender[s].pc = "fence" /\ parcel.ref \in refused
  BY DEF DeliveryInv, SenderFits, SenderSays, FenceStep
<1>1. PICK id, c : id = parcel.ref /\ c = parcel.chat
  OBVIOUS
<1>2. PICK pc \in {"permanent", "transient"} : Goes(s, pc, 0)
  BY DEF FenceStep
<1>3. FenceDestination(id, c) \/ UNCHANGED <<connection, parcel>>
  BY <1>1 DEF FenceStep
<1>4. /\ parcel' \in Parcel /\ ParcelGrows /\ ParcelFits' /\ OnlyRefusedIsBlocked'
      /\ connection' \in [id : Binds, chat : Chats, status : {"none", "ACTIVE", "BLOCKED"}]
  BY <1>t, <1>1, <1>3, FenceDestinationKeeps
<1>5. /\ sender' \in [Senders -> SenderRecord]
      /\ sender'[s].pc = pc /\ sender'[s].n = sender[s].n /\ sender'[s].at = sender[s].at
      /\ \A u \in Senders : u # s => sender'[u] = sender[u]
  <2>1. pc \in SenderPcs /\ 0 \in Waits
    BY DeliveryAssumption DEF SenderPcs
  <2> QED
    BY <1>t, <1>2, <2>1, SenderGoes
<1>6. DeliveryTypeOK'
  BY <1>t, <1>4, <1>5 DEF DeliveryTypeOK
<1>7. SenderSays(s)' /\ MailsFit'
  BY <1>t, <1>5, MailsRest DEF SenderSays
<1> QED
  BY <1>t, <1>4, <1>5, <1>6, <1>7, DeliveryMoves

LEMMA LateAnswerKeeps ==
  ASSUME DeliveryInv, NEW given \in late, LateAnswer(given)
  PROVE  DeliveryInv'
<1>t. /\ DeliveryTypeOK /\ UNCHANGED <<sender, chat, floor, clock>> /\ MailsFit /\ OnlyRefusedIsBlocked
      /\ given \in CallRecord /\ given.key = 0 /\ late' = late \ {given} /\ parcel \in Parcel
      /\ late \subseteq CallRecord /\ given.chat \in Chats /\ given.ref \in Binds
      /\ refused \subseteq Binds /\ chat[given.chat] \in ChatState
      /\ mails \subseteq [key : Nat, content : {"generic", "detail"}]
  BY DEF DeliveryInv, DeliveryTypeOK, MailsFit, LateAnswer, CallRecord
<1>l. late' \subseteq CallRecord /\ \A c \in late' : c.key = 0
  BY <1>t DEF MailsFit
<1>1. CASE given.channel = "email" /\ mails' = Posted(given) /\ UNCHANGED <<connection, parcel, refused>>
  <2>1. PICK k \in CallRecord : k = given /\ k.key = 0
    BY <1>t
  <2>2. MailsFit' /\ mails' \subseteq [key : Nat, content : {"generic", "detail"}]
    BY <1>1, <1>l, <2>1, PostedFits
  <2>3. DeliveryTypeOK'
    BY <1>1, <1>t, <1>l, <2>2 DEF DeliveryTypeOK
  <2>4. ParcelGrows /\ ParcelFits' /\ OnlyRefusedIsBlocked'
    BY <1>1, <1>t, ParcelRests DEF OnlyRefusedIsBlocked
  <2> QED
    BY <1>1, <1>t, <2>2, <2>3, <2>4, DeliveryMoves
<1>2. ASSUME UNCHANGED mails, NEW state \in ChatState, NEW o \in SendOutcomes[state],
             SendMessage(given, o),
             IF o.code \in Fencing THEN FenceDestination(given.ref, given.chat)
             ELSE UNCHANGED <<connection, parcel>>
      PROVE  DeliveryInv'
  <2>1. refused' = IF o.gone THEN refused \cup {given.ref} ELSE refused
    BY <1>2 DEF SendMessage
  <2>2. refused \subseteq refused' /\ refused' \subseteq Binds
    BY <1>t, <2>1
  <2>3. /\ parcel' \in Parcel /\ ParcelGrows /\ ParcelFits' /\ OnlyRefusedIsBlocked'
        /\ connection' \in [id : Binds, chat : Chats, status : {"none", "ACTIVE", "BLOCKED"}]
    <3>1. CASE o.code \in Fencing
      <4>1. given.ref \in refused'
        BY <2>1, <3>1, FencingIsRefusal
      <4>2. PICK id, c : id = given.ref /\ c = given.chat
        OBVIOUS
      <4> QED
        BY <1>2, <1>t, <2>2, <3>1, <4>1, <4>2, FenceDestinationKeeps
    <3>2. CASE o.code \notin Fencing
      <4>1. UNCHANGED <<connection, parcel>>
        BY <1>2, <3>2
      <4>2. ParcelGrows /\ ParcelFits'
        BY <1>t, <4>1, ParcelRests
      <4> QED
        BY <1>t, <2>2, <4>1, <4>2 DEF OnlyRefusedIsBlocked, DeliveryTypeOK
    <3> QED
      BY <3>1, <3>2
  <2>4. DeliveryTypeOK'
    BY <1>2, <1>t, <1>l, <2>2, <2>3 DEF DeliveryTypeOK
  <2>5. MailsFit'
    BY <1>2, <1>t, <1>l DEF MailsFit
  <2> QED
    BY <1>t, <2>2, <2>3, <2>4, <2>5, DeliveryMoves
<1>3. CASE /\ UNCHANGED mails
           /\ \E o \in SendOutcomes[chat[given.chat]] :
                /\ SendMessage(given, o)
                /\ IF o.code \in Fencing THEN FenceDestination(given.ref, given.chat)
                   ELSE UNCHANGED <<connection, parcel>>
  <2>1. PICK state \in ChatState : state = chat[given.chat]
    BY <1>t
  <2> QED
    BY <1>2, <1>3, <2>1
<1> QED
  BY <1>1, <1>3 DEF LateAnswer

\* A result is written by the owner of the claim, and by nobody else.
LEMMA SettleParcelKeeps ==
  ASSUME DeliveryInv, NEW s \in Senders, SettleParcel(s)
  PROVE  DeliveryInv'
<1>t. /\ DeliveryTypeOK /\ ParcelFits /\ OnlyRefusedIsBlocked /\ parcel \in Parcel /\ MailsFit
      /\ UNCHANGED <<connection, chat, late, mails, refused, clock>>
      /\ sender[s].wait \in Waits /\ sender' = [sender EXCEPT ![s] = Resting]
  BY DEF DeliveryInv, DeliveryTypeOK, SettleParcel, SenderRecord
<1>n. /\ parcel.count \in Nat /\ SendAttempts \in Nat /\ floor \in Nat /\ clock \in Nat
      /\ sender[s].n \in Nat
  BY <1>t, CountsAreNat
<1>1. /\ sender' \in [Senders -> SenderRecord]
      /\ sender'[s].pc = "idle" /\ sender'[s].n = 0
      /\ \A u \in Senders : u # s => sender'[u] = sender[u]
  BY <1>t, SenderRests
<1>2. MailsFit' /\ OnlyRefusedIsBlocked'
  BY <1>t, MailsRest DEF OnlyRefusedIsBlocked, DeliveryInv
<1>3. CASE UNCHANGED <<parcel, floor>>
  <2>1. ParcelGrows /\ ParcelFits'
    BY <1>t, <1>3, ParcelRests
  <2>2. DeliveryTypeOK'
    BY <1>t, <1>1, <1>3 DEF DeliveryTypeOK
  <2> QED
    BY <1>t, <1>1, <1>2, <2>1, <2>2, DeliveryMoves
<1>4. ASSUME OwnsParcel(s), ~(sender[s].n >= SendAttempts),
             parcel' = [parcel EXCEPT !.status = "RETRY_SCHEDULED",
                          !.due = RetryFloor(clock + BackoffOf(sender[s].n), sender[s].wait)],
             floor' = clock + (IF sender[s].wait <= WaitMax THEN sender[s].wait ELSE WaitMax)
      PROVE  DeliveryInv'
  <2>1. PICK dueAt \in DueTime :
          /\ dueAt = RetryFloor(clock + BackoffOf(sender[s].n), sender[s].wait)
          /\ dueAt >= floor' /\ floor' \in Nat
    <3>1. PICK n : n = sender[s].n
      OBVIOUS
    <3>2. PICK wait \in Waits : wait = sender[s].wait
      BY <1>t
    <3>3. /\ RetryFloor(clock + BackoffOf(n), wait) \in DueTime
          /\ RetryFloor(clock + BackoffOf(n), wait) >= clock + (IF wait <= WaitMax THEN wait ELSE WaitMax)
          /\ clock + (IF wait <= WaitMax THEN wait ELSE WaitMax) \in Nat
      BY <1>t, RetryIsDue
    <3> QED
      BY <1>4, <3>1, <3>2, <3>3
  <2>2. /\ parcel' \in Parcel /\ parcel'.status = "RETRY_SCHEDULED" /\ parcel'.due = dueAt
        /\ parcel'.count = parcel.count /\ parcel'.ref = parcel.ref
        /\ parcel'.shape = parcel.shape /\ parcel'.channel = parcel.channel
    <3> DEFINE e == [parcel EXCEPT !.status = "RETRY_SCHEDULED", !.due = dueAt]
    <3>1. /\ e \in Parcel /\ e.status = "RETRY_SCHEDULED" /\ e.due = dueAt
          /\ e.count = parcel.count /\ e.ref = parcel.ref
          /\ e.shape = parcel.shape /\ e.channel = parcel.channel
      BY <1>t DEF Parcel, ParcelStatus, DueStatus
    <3>2. parcel' = e
      BY <1>4, <2>1
    <3> HIDE DEF e
    <3> QED
      BY <3>1, <3>2
  <2>3. DeliveryTypeOK'
    BY <1>t, <1>1, <2>1, <2>2 DEF DeliveryTypeOK
  <2>4. parcel.status = "PROCESSING" /\ parcel.count < SendAttempts
    BY <1>4, <1>n DEF OwnsParcel
  <2>5. floor' <= parcel'.due
    <3>1. dueAt \in Nat
      <4>1. parcel'.due \in Nat
        BY <2>3, CountsAreNat, <1>n, DeliveryAssumption DEF DeliveryTypeOK, Parcel, DueTime
      <4> QED
        BY <2>2, <4>1
    <3> QED
      BY <2>1, <2>2, <3>1
  <2>6. ParcelFits' /\ ParcelGrows
    BY <1>n, <2>2, <2>4, <2>5 DEF ParcelFits, ParcelGrows
  <2> QED
    BY <1>t, <1>1, <1>2, <2>3, <2>6, DeliveryMoves
<1>5. ASSUME OwnsParcel(s), NEW status \in {"DELIVERED", "FAILED"},
             parcel' = [parcel EXCEPT !.status = status], UNCHANGED floor
      PROVE  DeliveryInv'
  <2>1. /\ parcel' \in Parcel /\ parcel'.status = status
        /\ parcel'.count = parcel.count /\ parcel'.ref = parcel.ref
        /\ parcel'.shape = parcel.shape /\ parcel'.channel = parcel.channel
    <3> DEFINE e == [parcel EXCEPT !.status = status]
    <3>1. /\ e \in Parcel /\ e.status = status
          /\ e.count = parcel.count /\ e.ref = parcel.ref
          /\ e.shape = parcel.shape /\ e.channel = parcel.channel
      BY <1>t DEF Parcel, ParcelStatus
    <3>2. parcel' = e
      BY <1>5
    <3> HIDE DEF e
    <3> QED
      BY <3>1, <3>2
  <2>2. DeliveryTypeOK'
    BY <1>t, <1>1, <1>5, <2>1 DEF DeliveryTypeOK
  <2>3. ParcelFits' /\ ParcelGrows
    BY <1>n, <2>1 DEF ParcelFits, ParcelGrows, DueStatus
  <2> QED
    BY <1>t, <1>1, <1>2, <2>2, <2>3, DeliveryMoves
<1>6. \/ UNCHANGED <<parcel, floor>>
      \/ /\ OwnsParcel(s) /\ ~(sender[s].n >= SendAttempts)
         /\ parcel' = [parcel EXCEPT !.status = "RETRY_SCHEDULED",
                          !.due = RetryFloor(clock + BackoffOf(sender[s].n), sender[s].wait)]
         /\ floor' = clock + (IF sender[s].wait <= WaitMax THEN sender[s].wait ELSE WaitMax)
      \/ /\ OwnsParcel(s) /\ UNCHANGED floor
         /\ \E status \in {"DELIVERED", "FAILED"} : parcel' = [parcel EXCEPT !.status = status]
  BY DEF SettleParcel
<1> QED
  BY <1>3, <1>4, <1>5, <1>6

LEMMA ReapParcelKeeps ==
  ASSUME DeliveryInv, ReapParcel
  PROVE  DeliveryInv'
<1>t. /\ DeliveryTypeOK /\ ParcelFits /\ OnlyRefusedIsBlocked /\ parcel \in Parcel /\ MailsFit
      /\ UNCHANGED <<sender, connection, chat, late, mails, refused, floor, clock>>
      /\ parcel.status = "PROCESSING" /\ floor <= clock
  BY DEF DeliveryInv, DeliveryTypeOK, ReapParcel, ParcelFits
<1>n. /\ parcel.count \in Nat /\ SendAttempts \in Nat /\ floor \in Nat /\ clock \in Nat
      /\ LastTick \in Nat /\ WaitMax \in Nat /\ BackoffCap \in Nat /\ DueTime \subseteq Nat
  <2>1. LastTick \in Nat /\ WaitMax \in Nat /\ BackoffCap \in Nat
    BY DeliveryAssumption
  <2> QED
    BY <1>t, <2>1, CountsAreNat DEF DueTime
<1>1. PICK status \in {"FAILED", "RETRY_SCHEDULED"}, dueAt \in DueTime :
        /\ parcel' = [parcel EXCEPT !.status = status, !.due = dueAt]
        /\ (status = "RETRY_SCHEDULED" => parcel.count < SendAttempts /\ clock <= dueAt)
  <2>1. CASE parcel.count >= SendAttempts
    <3>1. parcel' = [parcel EXCEPT !.status = "FAILED"] /\ parcel.due \in DueTime
      BY <1>t, <2>1 DEF ReapParcel, Parcel
    <3>2. parcel' = [parcel EXCEPT !.status = "FAILED", !.due = parcel.due]
      BY <1>t, <3>1 DEF Parcel
    <3> QED
      BY <3>1, <3>2
  <2>2. CASE ~(parcel.count >= SendAttempts)
    <3>1. PICK n : n = parcel.count
      OBVIOUS
    <3>2. 0 \in Waits
      BY DeliveryAssumption
    <3>3. clock + BackoffOf(n) \in DueTime /\ clock + BackoffOf(n) >= clock
      BY <1>t, <3>2, RetryIsDue
    <3>4. PICK dueAt \in DueTime : dueAt = clock + BackoffOf(n)
      BY <3>3
    <3>5. dueAt \in Nat /\ clock <= dueAt
      BY <1>n, <3>3, <3>4
    <3>6. parcel' = [parcel EXCEPT !.status = "RETRY_SCHEDULED", !.due = dueAt]
      BY <2>2, <3>1, <3>4 DEF ReapParcel
    <3>7. parcel.count < SendAttempts
      BY <1>n, <2>2
    <3> QED
      BY <3>5, <3>6, <3>7
  <2> QED
    BY <2>1, <2>2
<1>2. /\ parcel' \in Parcel /\ parcel'.status = status /\ parcel'.due = dueAt
      /\ parcel'.count = parcel.count /\ parcel'.ref = parcel.ref
      /\ parcel'.shape = parcel.shape /\ parcel'.channel = parcel.channel
  <2> DEFINE e == [parcel EXCEPT !.status = status, !.due = dueAt]
  <2>1. /\ e \in Parcel /\ e.status = status /\ e.due = dueAt
        /\ e.count = parcel.count /\ e.ref = parcel.ref
        /\ e.shape = parcel.shape /\ e.channel = parcel.channel
    BY <1>t DEF Parcel, ParcelStatus, DueStatus
  <2>2. parcel' = e
    BY <1>1
  <2> HIDE DEF e
  <2> QED
    BY <2>1, <2>2
<1>3. DeliveryTypeOK'
  BY <1>t, <1>2 DEF DeliveryTypeOK
<1>4. ParcelFits'
  <2>1. dueAt \in Nat
    BY <1>n
  <2>2. CASE status = "FAILED"
    BY <1>2, <2>2 DEF ParcelFits, DueStatus
  <2>3. CASE status = "RETRY_SCHEDULED"
    BY <1>t, <1>n, <1>1, <1>2, <2>1, <2>3 DEF ParcelFits
  <2> QED
    BY <2>2, <2>3
<1>5. ParcelGrows
  BY <1>t, <1>n, <1>2 DEF ParcelGrows
<1>6. MailsFit' /\ OnlyRefusedIsBlocked'
  BY <1>t, MailsRest DEF OnlyRefusedIsBlocked
<1> QED
  BY <1>t, <1>3, <1>4, <1>5, <1>6, DeliveryMoves

LEMMA DeliverySteps == DeliveryInv /\ [DeliveryNext]_deliveryVars => DeliveryInv'
<1> SUFFICES ASSUME DeliveryInv, [DeliveryNext]_deliveryVars PROVE DeliveryInv'
  OBVIOUS
<1>1. CASE UNCHANGED deliveryVars
  <2>1. UNCHANGED <<sender, parcel, connection, chat, late, mails, refused, floor, clock>>
    BY <1>1 DEF deliveryVars
  <2>2. DeliveryTypeOK' /\ OnlyRefusedIsBlocked'
    BY <2>1 DEF DeliveryInv, DeliveryTypeOK, OnlyRefusedIsBlocked
  <2>3. ParcelGrows /\ ParcelFits' /\ MailsFit'
    BY <2>1, ParcelRests, MailsRest
  <2> QED
    BY <2>1, <2>2, <2>3, DeliveryMoves
<1>2. CASE \E c \in Chats : Rebind(c)
  BY <1>2, RebindKeeps
<1>3. CASE \E c \in Chats, state \in ChatState : ChatTurns(c, state)
  BY <1>3, WorldTurns
<1>4. CASE \E ch \in External, verified \in BOOLEAN, v \in PayloadShapes : Materialize(ch, verified, v)
  BY <1>4, MaterializeKeeps
<1>5. CASE \E s \in Senders : SenderDies(s)
  BY <1>5, WorldTurns
<1>6. CASE \E s \in Senders : Compose(s) \/ MailAnswered(s) \/ BotAnswered(s) \/ FenceStep(s)
                              \/ GivesUp(s) \/ SettleParcel(s)
  BY <1>6, ComposeKeeps, MailAnsweredKeeps, BotAnsweredKeeps, FenceStepKeeps, GivesUpKeeps,
     SettleParcelKeeps
<1>7. CASE \E s \in Senders, def \in RegisteredDefinitions : TakeDue(s, def)
  BY <1>7, TakeDueKeeps
<1>8. CASE \E given \in late : LateAnswer(given)
  BY <1>8, LateAnswerKeeps
<1>9. CASE ReapParcel
  BY <1>9, ReapParcelKeeps
<1>10. CASE ClockTicks
  BY <1>10, WorldTurns
<1> QED
  BY <1>1, <1>2, <1>3, <1>4, <1>5, <1>6, <1>7, <1>8, <1>9, <1>10 DEF DeliveryNext

\* The invariant of a delivery, its workers and the providers, for every release, retry budget,
\* backoff cap and wait.
THEOREM DeliveryInvariant == DeliverySpec => []DeliveryInv
BY DeliveryStarts, DeliverySteps, PTL DEF DeliverySpec

\* What leaves is what the definition opens, one mail goes out, the waits a provider asked for
\* are kept, and only a refused connection is blocked.
THEOREM DeliveryHolds == DeliverySpec => []DeliveryIsSound
<1>1. ASSUME DeliveryInv PROVE DeliveryIsSound
  <2>1. OneMailPerDelivery
    <3>1. CASE mails = {}
      BY <3>1, FS_EmptySet DEF OneMailPerDelivery
    <3>2. ASSUME NEW m \in mails PROVE OneMailPerDelivery
      <4>1. mails = {m}
        BY <1>1 DEF DeliveryInv, MailsFit
      <4> QED
        BY <4>1, FS_Singleton DEF OneMailPerDelivery
    <3> QED
      BY <3>1, <3>2
  <2> QED
    BY <1>1, <2>1 DEF DeliveryIsSound, DeliveryInv, SenderFits, SenderSays, OnlyOpenContentLeaves,
                      WaitsAreKept
<1> QED
  BY <1>1, DeliveryInvariant, PTL

-----------------------------------------------------------------------------
(* AiConversation.                                                         *)

\* Messages are numbered as they were committed, and the bot's belong to completed runs.
SaidFits ==
  \A i \in DOMAIN said :
    /\ said[i].sequence = i - 1
    /\ said[i].author = "bot" =>
         said[i].run \in TalkRuns /\ talkRun[said[i].run].status = "COMPLETED"

\* What a transaction decided under the lock is still so when it writes.
DecisionStands(c) ==
  /\ call[c].sequence = Len(said)
  /\ call[c].work = "submit" =>
       /\ control.by = Nobody /\ ~KeyTaken(call[c].key)
       /\ call[c].run \in TalkRuns /\ talkRun[call[c].run].status = "NONE"
       /\ \A f \in call[c].refs : Bindable(f)
  /\ call[c].work = "answer" => ~TalkStale(call[c].run)
  /\ call[c].work = "post" => Holds(c)

CallFits(c) ==
  /\ call[c].collided = FALSE
  /\ call[c].work = "answer" => call[c].run \in TalkRuns
  /\ (call[c].pc \in {"locked", "decided"}) <=> rowLock = c
  /\ call[c].pc = "decided" => DecisionStands(c)

\* A reader has met every message before its cursor.
ReaderFits == reader.cursor <= Len(said) /\ reader.got = reader.cursor

\* The inductive invariant.
TalkInv ==
  /\ TalkTypeOK /\ SaidFits /\ SpeakersHadControl /\ ArtifactsStayBound /\ ReaderFits
  /\ \A c \in Calls : CallFits(c)

LEMMA TalkStarts == TalkInit => TalkInv
<1> SUFFICES ASSUME TalkInit PROVE TalkInv
  OBVIOUS
<1>1. IdleCall \in Call /\ IdleCall.pc = "idle" /\ IdleCall.collided = FALSE
      /\ IdleCall.work = "none"
  BY TalkAssumption DEF IdleCall, Call, Work
<1>2. TalkTypeOK
  BY <1>1, TalkAssumption
     DEF TalkInit, TalkTypeOK, Control, TalkRun, TalkStatus, ArtifactRow, Message
<1>3. said = <<>> /\ Len(said) = 0 /\ DOMAIN said = {}
  BY DEF TalkInit
<1>4. SaidFits /\ SpeakersHadControl /\ ReaderFits
  BY <1>3 DEF TalkInit, SaidFits, SpeakersHadControl, ReaderFits
<1>5. ArtifactsStayBound
  BY DEF TalkInit, ArtifactsStayBound, Status, RebindBlocked
<1>6. ASSUME NEW c \in Calls PROVE CallFits(c)
  BY <1>1, TalkAssumption DEF TalkInit, CallFits
<1> QED
  BY <1>2, <1>4, <1>5, <1>6 DEF TalkInv

\* Nothing but a transaction, its lock and its decision moves.
LEMMA TalkStill ==
  ASSUME TalkInv, NEW c \in Calls, call' \in [Calls -> Call],
         UNCHANGED <<control, talkRun, said, file, reader>>,
         rowLock' \in Calls \cup {Nobody},
         \A d \in Calls : d # c => call'[d] = call[d] /\ (rowLock' = d <=> rowLock = d),
         CallFits(c)'
  PROVE  TalkInv'
<1>t. /\ TalkTypeOK /\ SaidFits /\ SpeakersHadControl /\ ArtifactsStayBound /\ ReaderFits
      /\ \A d \in Calls : CallFits(d)
  BY DEF TalkInv
<1>1. TalkTypeOK' /\ ReaderFits'
  BY <1>t DEF TalkTypeOK, ReaderFits
<1>2. SaidFits' /\ SpeakersHadControl'
  BY <1>t DEF SaidFits, SpeakersHadControl
<1>3. ArtifactsStayBound'
  BY <1>t DEF ArtifactsStayBound, Status
<1>4. ASSUME NEW d \in Calls, d # c PROVE CallFits(d)'
  <2>1. call'[d] = call[d] /\ (rowLock' = d <=> rowLock = d) /\ CallFits(d)
    BY <1>t, <1>4
  <2>2. DecisionStands(d) => DecisionStands(d)'
    BY <2>1 DEF DecisionStands, KeyTaken, Bindable, Status, TalkStale, Holds
  <2> QED
    BY <2>1, <2>2 DEF CallFits
<1> QED
  BY <1>1, <1>2, <1>3, <1>4 DEF TalkInv

LEMMA BeginKeeps ==
  ASSUME TalkInv, NEW c \in Calls, NEW new \in Call, new.collided = FALSE,
         (new.work = "answer" => new.run \in TalkRuns), BeginCall(c, new)
  PROVE  TalkInv'
<1>t. /\ TalkTypeOK /\ CallFits(c) /\ call[c].pc = "idle"
      /\ UNCHANGED <<control, talkRun, said, file, rowLock, reader>>
  BY DEF TalkInv, BeginCall, CallAt
<1> DEFINE e == [new EXCEPT !.pc = "begun"]
<1>1. /\ e \in Call /\ e.pc = "begun" /\ e.collided = FALSE
      /\ (e.work = "answer" => e.run \in TalkRuns)
  BY DEF Call
<1>2. call' = [call EXCEPT ![c] = e]
  BY DEF BeginCall
<1> HIDE DEF e
<1>3. /\ call' \in [Calls -> Call] /\ call'[c] = e
      /\ \A d \in Calls : d # c => call'[d] = call[d]
  BY <1>t, <1>1, <1>2 DEF TalkTypeOK
<1>4. CallFits(c)'
  BY <1>t, <1>1, <1>3 DEF CallFits
<1> QED
  BY <1>t, <1>3, <1>4, TalkStill DEF TalkTypeOK

LEMMA BeginsKeep ==
  ASSUME TalkInv, NEW c \in Calls,
         \/ \E key \in TalkKeys \cup {Nobody}, refs \in SUBSET Files : Submit(c, key, refs)
         \/ \E r \in TalkRuns : Answer(c, r)
         \/ \E h \in People, work \in {"post", "take", "release"} : Operate(c, work, h)
  PROVE  TalkInv'
<1>i. IdleCall \in Call /\ IdleCall.collided = FALSE /\ IdleCall.work = "none"
  BY TalkAssumption DEF IdleCall, Call, Work
<1>1. ASSUME NEW key \in TalkKeys \cup {Nobody}, NEW refs \in SUBSET Files, Submit(c, key, refs)
      PROVE  TalkInv'
  <2> DEFINE e == [IdleCall EXCEPT !.work = "submit", !.key = key, !.refs = refs]
  <2>1. e \in Call /\ e.collided = FALSE /\ e.work = "submit"
    BY <1>i DEF Call, Work
  <2>2. BeginCall(c, e)
    BY <1>1 DEF Submit
  <2> HIDE DEF e
  <2> QED
    BY <2>1, <2>2, BeginKeeps
<1>2. ASSUME NEW r \in TalkRuns, Answer(c, r) PROVE TalkInv'
  <2> DEFINE e == [IdleCall EXCEPT !.work = "answer", !.run = r]
  <2>1. e \in Call /\ e.collided = FALSE /\ e.run \in TalkRuns
    BY <1>i DEF Call, Work
  <2>2. BeginCall(c, e)
    BY <1>2 DEF Answer
  <2> HIDE DEF e
  <2> QED
    BY <2>1, <2>2, BeginKeeps
<1>3. ASSUME NEW h \in People, NEW work \in {"post", "take", "release"}, Operate(c, work, h)
      PROVE  TalkInv'
  <2> DEFINE e == [IdleCall EXCEPT !.work = work, !.who = h]
  <2>1. e \in Call /\ e.collided = FALSE /\ e.work = work
    BY <1>i DEF Call, Work
  <2>2. BeginCall(c, e)
    BY <1>3 DEF Operate
  <2> HIDE DEF e
  <2> QED
    BY <2>1, <2>2, BeginKeeps
<1> QED
  BY <1>1, <1>2, <1>3

LEMMA ControlLockKeeps ==
  ASSUME TalkInv, NEW c \in Calls, Lock(c)
  PROVE  TalkInv'
<1>t. /\ TalkTypeOK /\ CallFits(c) /\ call[c] \in Call
      /\ rowLock = Nobody /\ rowLock' = c /\ Nobody \notin Calls
      /\ UNCHANGED <<control, talkRun, said, file, reader>>
  BY TalkAssumption DEF TalkInv, TalkTypeOK, Lock, LockConversation
<1> DEFINE e == [call[c] EXCEPT !.pc = "locked"]
<1>1. /\ e \in Call /\ e.pc = "locked" /\ e.collided = call[c].collided
      /\ e.work = call[c].work /\ e.run = call[c].run
  BY <1>t DEF Call
<1>2. call' = [call EXCEPT ![c] = e]
  BY DEF Lock
<1> HIDE DEF e
<1>3. /\ call' \in [Calls -> Call] /\ call'[c] = e
      /\ \A d \in Calls : d # c => call'[d] = call[d]
  BY <1>t, <1>1, <1>2 DEF TalkTypeOK
<1>4. CallFits(c)'
  BY <1>t, <1>1, <1>3 DEF CallFits
<1> QED
  BY <1>t, <1>3, <1>4, TalkStill

LEMMA RollbackKeeps ==
  ASSUME TalkInv, NEW c \in Calls, RollbackCall(c)
  PROVE  TalkInv'
<1>t. /\ TalkTypeOK /\ CallFits(c) /\ rowLock = c /\ rowLock' = Nobody /\ Nobody \notin Calls
      /\ UNCHANGED <<control, talkRun, said, file, reader>>
  BY TalkAssumption DEF TalkInv, RollbackCall, CallFits, Unlocked
<1>1. IdleCall \in Call /\ IdleCall.pc = "idle" /\ IdleCall.collided = FALSE
      /\ IdleCall.work = "none"
  BY TalkAssumption DEF IdleCall, Call, Work
<1>2. /\ call' \in [Calls -> Call] /\ call'[c] = IdleCall
      /\ \A d \in Calls : d # c => call'[d] = call[d]
  BY <1>t, <1>1 DEF TalkTypeOK, RollbackCall
<1>3. CallFits(c)'
  BY <1>t, <1>1, <1>2 DEF CallFits
<1> QED
  BY <1>t, <1>2, <1>3, TalkStill

LEMMA DecideKeeps ==
  ASSUME TalkInv, NEW c \in Calls, DecideCall(c)
  PROVE  TalkInv'
<1>t. /\ TalkTypeOK /\ CallFits(c) /\ call[c] \in Call /\ call[c].pc = "locked" /\ rowLock = c
      /\ Len(said) \in Nat /\ rowLock \in Calls \cup {Nobody}
  BY DEF TalkInv, TalkTypeOK, DecideCall, CallAt, CallFits
<1>1. ASSUME NEW r \in TalkRuns \cup {Nobody}, Decided(c, r),
             (call[c].work = "answer" => r \in TalkRuns),
             (call[c].work = "submit" =>
                /\ control.by = Nobody /\ ~KeyTaken(call[c].key)
                /\ r \in TalkRuns /\ talkRun[r].status = "NONE"
                /\ \A f \in call[c].refs : Bindable(f)),
             (call[c].work = "answer" => ~TalkStale(r)),
             (call[c].work = "post" => Holds(c))
      PROVE  TalkInv'
  <2>t. UNCHANGED <<control, talkRun, said, file, rowLock, reader>>
    BY <1>1 DEF Decided
  <2>n. PICK n \in Nat : n = Len(said)
    BY <1>t
  <2> DEFINE e == [call[c] EXCEPT !.pc = "decided", !.sequence = n, !.run = r]
  <2>1. /\ e \in Call /\ e.pc = "decided" /\ e.collided = call[c].collided /\ e.sequence = n
        /\ e.work = call[c].work /\ e.run = r /\ e.key = call[c].key /\ e.refs = call[c].refs
        /\ e.who = call[c].who
    BY <1>t DEF Call
  <2>2. call' = [call EXCEPT ![c] = e]
    BY <1>1, <2>n DEF Decided, NextSequence
  <2> HIDE DEF e
  <2>3. /\ call' \in [Calls -> Call] /\ call'[c] = e
        /\ \A d \in Calls : d # c => call'[d] = call[d]
    BY <1>t, <2>1, <2>2 DEF TalkTypeOK
  <2>4. DecisionStands(c)'
    BY <1>1, <2>t, <2>n, <2>1, <2>3
       DEF DecisionStands, KeyTaken, Bindable, Status, TalkStale, Holds
  <2>5. CallFits(c)'
    BY <1>t, <1>1, <2>t, <2>1, <2>3, <2>4 DEF CallFits
  <2> QED
    BY <1>t, <2>t, <2>3, <2>5, TalkStill
<1>2. CASE /\ call[c].work = "submit" /\ control.by = Nobody /\ ~KeyTaken(call[c].key)
           /\ \A f \in call[c].refs : Bindable(f)
           /\ \E r \in TalkRuns : Status(r) = "NONE" /\ Decided(c, r)
  BY <1>1, <1>2 DEF Status
<1>3. CASE call[c].work = "answer" /\ ~TalkStale(call[c].run) /\ Decided(c, call[c].run)
  <2>1. PICK r \in TalkRuns : r = call[c].run
    BY <1>t, <1>3 DEF CallFits
  <2> QED
    BY <1>1, <1>3, <2>1
<1>4. CASE call[c].work = "post" /\ Holds(c) /\ Decided(c, Nobody)
  BY <1>1, <1>4
<1>5. CASE call[c].work \in {"take", "release"} /\ Decided(c, Nobody)
  BY <1>1, <1>5
<1> QED
  BY <1>2, <1>3, <1>4, <1>5 DEF DecideCall

-----------------------------------------------------------------------------

\* What was said stays as it was said: a completed run keeps its generation.
LEMMA SaidRests ==
  ASSUME TalkInv, UNCHANGED <<said, reader>>,
         \A r \in TalkRuns : talkRun[r].status = "COMPLETED" =>
           talkRun'[r].status = "COMPLETED" /\ talkRun'[r].gen = talkRun[r].gen
  PROVE  SaidFits' /\ SpeakersHadControl' /\ ReaderFits'
<1>t. SaidFits /\ SpeakersHadControl /\ ReaderFits
  BY DEF TalkInv
<1>1. SaidFits' /\ ReaderFits'
  BY <1>t DEF SaidFits, ReaderFits
<1>2. ASSUME NEW i \in DOMAIN said, said[i].author = "bot"
      PROVE  said[i].control.by = Nobody /\ said[i].control.gen = talkRun'[said[i].run].gen
  <2>1. PICK r \in TalkRuns : r = said[i].run /\ talkRun[r].status = "COMPLETED"
    BY <1>t, <1>2 DEF SaidFits
  <2> QED
    BY <1>t, <1>2, <2>1 DEF SpeakersHadControl
<1>3. SpeakersHadControl'
  BY <1>t, <1>2 DEF SpeakersHadControl
<1> QED
  BY <1>1, <1>3

\* A message that takes the next number, from who holds the control.
LEMMA SaidGrows ==
  ASSUME TalkInv, NEW m \in Message, said' = Append(said, m), reader' = reader,
         m.sequence = Len(said),
         (m.author = "bot" =>
            /\ m.run \in TalkRuns /\ talkRun'[m.run].status = "COMPLETED"
            /\ m.control.by = Nobody /\ m.control.gen = talkRun'[m.run].gen),
         (m.author \in People => m.control.by = m.author),
         \A r \in TalkRuns : talkRun[r].status = "COMPLETED" =>
           talkRun'[r].status = "COMPLETED" /\ talkRun'[r].gen = talkRun[r].gen
  PROVE  said' \in Seq(Message) /\ SaidFits' /\ SpeakersHadControl' /\ ReaderFits'
<1>t. SaidFits /\ SpeakersHadControl /\ ReaderFits /\ said \in Seq(Message) /\ Len(said) \in Nat
  BY DEF TalkInv, TalkTypeOK
<1>1. /\ said' \in Seq(Message) /\ Len(said') = Len(said) + 1
      /\ DOMAIN said' = 1 .. Len(said) + 1 /\ DOMAIN said = 1 .. Len(said)
      /\ said'[Len(said) + 1] = m
      /\ \A i \in DOMAIN said : said'[i] = said[i]
  BY <1>t
<1>2. ASSUME NEW i \in DOMAIN said'
      PROVE  \/ i \in DOMAIN said /\ said'[i] = said[i]
             \/ i = Len(said) + 1 /\ said'[i] = m
  BY <1>t, <1>1
<1>3. ASSUME NEW i \in DOMAIN said
      PROVE  /\ said[i].sequence = i - 1
             /\ (said[i].author = "bot" =>
                   /\ said[i].run \in TalkRuns /\ talkRun'[said[i].run].status = "COMPLETED"
                   /\ said[i].control.by = Nobody
                   /\ said[i].control.gen = talkRun'[said[i].run].gen)
             /\ (said[i].author \in People => said[i].control.by = said[i].author)
  <2>1. said[i].sequence = i - 1 /\ (said[i].author \in People => said[i].control.by = said[i].author)
    BY <1>t DEF SaidFits, SpeakersHadControl
  <2>2. ASSUME said[i].author = "bot"
        PROVE  /\ said[i].run \in TalkRuns /\ talkRun'[said[i].run].status = "COMPLETED"
               /\ said[i].control.by = Nobody
               /\ said[i].control.gen = talkRun'[said[i].run].gen
    <3>1. PICK r \in TalkRuns : r = said[i].run /\ talkRun[r].status = "COMPLETED"
      BY <1>t, <2>2 DEF SaidFits
    <3> QED
      BY <1>t, <2>2, <3>1 DEF SpeakersHadControl
  <2> QED
    BY <2>1, <2>2
<1>4. SaidFits'
  <2> SUFFICES ASSUME NEW i \in DOMAIN said'
               PROVE  /\ said'[i].sequence = i - 1
                      /\ (said'[i].author = "bot" =>
                            said'[i].run \in TalkRuns /\ talkRun'[said'[i].run].status = "COMPLETED")
    BY DEF SaidFits
  <2>1. CASE i \in DOMAIN said /\ said'[i] = said[i]
    BY <1>3, <2>1
  <2>2. CASE i = Len(said) + 1 /\ said'[i] = m
    BY <1>t, <2>2
  <2> QED
    BY <1>2, <2>1, <2>2
<1>5. SpeakersHadControl'
  <2> SUFFICES ASSUME NEW i \in DOMAIN said'
               PROVE  /\ (said'[i].author = "bot" =>
                            /\ said'[i].control.by = Nobody
                            /\ said'[i].control.gen = talkRun'[said'[i].run].gen)
                      /\ (said'[i].author \in People => said'[i].control.by = said'[i].author)
    BY DEF SpeakersHadControl
  <2>1. CASE i \in DOMAIN said /\ said'[i] = said[i]
    BY <1>3, <2>1
  <2>2. CASE i = Len(said) + 1 /\ said'[i] = m
    BY <2>2
  <2> QED
    BY <1>2, <2>1, <2>2
<1>6. ReaderFits'
  <2>1. reader.cursor \in Nat
    BY DEF TalkInv, TalkTypeOK
  <2> QED
    BY <1>t, <1>1, <2>1 DEF ReaderFits
<1> QED
  BY <1>1, <1>4, <1>5, <1>6

\* Once the owner of the lock has written, nobody holds it and nobody has decided.
LEMMA LockGoes ==
  ASSUME TalkInv, NEW c \in Calls, rowLock = c, rowLock' = Unlocked(c),
         call' = [call EXCEPT ![c] = IdleCall]
  PROVE  /\ call' \in [Calls -> Call] /\ rowLock' \in Calls \cup {Nobody}
         /\ \A d \in Calls : CallFits(d)'
<1>t. TalkTypeOK /\ (\A d \in Calls : CallFits(d)) /\ rowLock' = Nobody /\ Nobody \notin Calls
  BY TalkAssumption DEF TalkInv, Unlocked
<1>1. IdleCall \in Call /\ IdleCall.pc = "idle" /\ IdleCall.collided = FALSE
      /\ IdleCall.work = "none"
  BY TalkAssumption DEF IdleCall, Call, Work
<1>2. /\ call' \in [Calls -> Call] /\ call'[c] = IdleCall
      /\ \A d \in Calls : d # c => call'[d] = call[d]
  BY <1>t, <1>1 DEF TalkTypeOK
<1>3. CallFits(c)'
  BY <1>t, <1>1, <1>2 DEF CallFits
<1>4. ASSUME NEW d \in Calls, d # c PROVE CallFits(d)'
  BY <1>t, <1>2, <1>4 DEF CallFits
<1> QED
  BY <1>t, <1>2, <1>3, <1>4

\* No number and no key is taken when its transaction writes.
LEMMA NothingCollides ==
  ASSUME TalkInv, NEW c \in Calls, call[c].pc = "decided"
  PROVE  ~Collides(c)
<1>1. DecisionStands(c) /\ SaidFits /\ Len(said) \in Nat /\ DOMAIN said = 1 .. Len(said)
  BY DEF TalkInv, TalkTypeOK, CallFits
<1>2. \A i \in DOMAIN said : said[i].sequence # call[c].sequence
  BY <1>1 DEF SaidFits, DecisionStands
<1> QED
  BY <1>1, <1>2 DEF Collides, DecisionStands

LEMMA WriteSubmitKeeps ==
  ASSUME TalkInv, NEW c \in Calls, call[c].pc = "decided", call[c].work = "submit", WriteSubmit(c),
         reader' = reader
  PROVE  /\ said' \in Seq(Message) /\ talkRun' \in [TalkRuns -> TalkRun]
         /\ file' \in [Files -> ArtifactRow] /\ control' \in Control
         /\ SaidFits' /\ SpeakersHadControl' /\ ArtifactsStayBound' /\ ReaderFits'
<1>t. /\ TalkTypeOK /\ ArtifactsStayBound /\ DecisionStands(c) /\ call[c] \in Call
      /\ control \in Control /\ Len(said) \in Nat
  BY DEF TalkInv, TalkTypeOK, CallFits
<1>1. PICK r \in TalkRuns : r = call[c].run /\ talkRun[r].status = "NONE"
  BY <1>t DEF DecisionStands
<1> DEFINE newRow == [status |-> "QUEUED", gen |-> control.gen, key |-> call[c].key,
                   refs |-> call[c].refs]
           m == [sequence |-> call[c].sequence, author |-> "user", run |-> r, control |-> control]
<1>2. newRow \in TalkRun /\ newRow.refs = call[c].refs /\ newRow.status = "QUEUED"
  BY <1>t DEF TalkRun, TalkStatus, Call, Control
<1>3. talkRun' = [talkRun EXCEPT ![r] = newRow]
  BY <1>1 DEF WriteSubmit
<1>4. m \in Message /\ m.sequence = Len(said) /\ m.author = "user"
  BY <1>t, <1>1 DEF Message, DecisionStands
<1>5. said' = Append(said, m)
  BY <1>1 DEF WriteSubmit, Append1
<1> HIDE DEF newRow, m
<1>6. /\ talkRun' \in [TalkRuns -> TalkRun] /\ talkRun'[r] = newRow
      /\ \A q \in TalkRuns : q # r => talkRun'[q] = talkRun[q]
  BY <1>t, <1>2, <1>3 DEF TalkTypeOK
<1>7. "user" # "bot" /\ "user" \notin People
  BY TalkAssumption
<1>8. /\ said' \in Seq(Message) /\ SaidFits' /\ SpeakersHadControl' /\ ReaderFits'
  <2>1. PICK n \in Message : n = m
    BY <1>4
  <2> QED
    BY <1>1, <1>4, <1>5, <1>6, <1>7, <2>1, SaidGrows
<1>9. /\ file' \in [Files -> ArtifactRow]
      /\ \A f \in Files : file'[f].run = IF f \in call[c].refs THEN r ELSE file[f].run
  <2>1. \A f \in Files : file[f] \in ArtifactRow
    BY <1>t DEF TalkTypeOK
  <2>2. \A f \in Files : /\ [file[f] EXCEPT !.run = r] \in ArtifactRow
                         /\ [file[f] EXCEPT !.run = r].run = r
    BY <2>1 DEF ArtifactRow
  <2>3. file' = [f \in Files |-> IF f \in call[c].refs THEN [file[f] EXCEPT !.run = r] ELSE file[f]]
    BY <1>1 DEF WriteSubmit
  <2> QED
    BY <2>1, <2>2, <2>3
<1>10. ArtifactsStayBound'
  <2> SUFFICES ASSUME NEW q \in TalkRuns, talkRun'[q].status \in RebindBlocked,
                      NEW f \in talkRun'[q].refs
               PROVE  file'[f].run = q
    BY DEF ArtifactsStayBound, Status
  <2>1. f \in Files
    BY <1>6 DEF TalkRun
  <2>2. CASE q = r
    BY <1>2, <1>6, <1>9, <2>1, <2>2
  <2>3. CASE q # r
    <3>1. file[f].run = q /\ talkRun[q].status \in RebindBlocked
      BY <1>t, <1>6, <2>3 DEF ArtifactsStayBound, Status
    <3>2. q # Nobody
      BY TalkAssumption
    <3>3. f \notin call[c].refs
      BY <1>t, <3>1, <3>2 DEF DecisionStands, Bindable, Status
    <3> QED
      BY <1>9, <2>1, <3>1, <3>3
  <2> QED
    BY <2>2, <2>3
<1>11. control' \in Control
  BY <1>t DEF WriteSubmit
<1> QED
  BY <1>6, <1>8, <1>9, <1>10, <1>11

LEMMA WriteAnswerKeeps ==
  ASSUME TalkInv, NEW c \in Calls, call[c].pc = "decided", call[c].work = "answer", WriteAnswer(c),
         reader' = reader
  PROVE  /\ said' \in Seq(Message) /\ talkRun' \in [TalkRuns -> TalkRun]
         /\ file' \in [Files -> ArtifactRow] /\ control' \in Control
         /\ SaidFits' /\ SpeakersHadControl' /\ ArtifactsStayBound' /\ ReaderFits'
<1>t. /\ TalkTypeOK /\ ArtifactsStayBound /\ DecisionStands(c) /\ call[c] \in Call
      /\ control \in Control /\ Len(said) \in Nat /\ file \in [Files -> ArtifactRow]
      /\ UNCHANGED <<control, file>>
  BY DEF TalkInv, TalkTypeOK, CallFits, WriteAnswer
<1>1. PICK r \in TalkRuns : r = call[c].run /\ talkRun[r].status = "RUNNING" /\ ~TalkStale(r)
  BY <1>t DEF TalkInv, CallFits, DecisionStands, WriteAnswer, Status
<1> DEFINE newRow == [talkRun[r] EXCEPT !.status = "COMPLETED"]
           m == [sequence |-> call[c].sequence, author |-> "bot", run |-> r, control |-> control]
<1>2. newRow \in TalkRun /\ newRow.refs = talkRun[r].refs /\ newRow.status = "COMPLETED"
      /\ newRow.gen = talkRun[r].gen
  <2>1. talkRun[r] \in TalkRun
    BY <1>t DEF TalkTypeOK
  <2> QED
    BY <2>1 DEF TalkRun, TalkStatus
<1>3. talkRun' = [talkRun EXCEPT ![r] = newRow]
  BY <1>1 DEF WriteAnswer, SetStatus
<1>4. m \in Message /\ m.sequence = Len(said) /\ m.author = "bot" /\ m.run = r /\ m.control = control
  BY <1>t, <1>1 DEF Message, DecisionStands
<1>5. said' = Append(said, m)
  BY <1>1 DEF WriteAnswer, Append1
<1> HIDE DEF newRow, m
<1>6. /\ talkRun' \in [TalkRuns -> TalkRun] /\ talkRun'[r] = newRow
      /\ \A q \in TalkRuns : q # r => talkRun'[q] = talkRun[q]
  BY <1>t, <1>2, <1>3 DEF TalkTypeOK
<1>7. "bot" \notin People
  BY TalkAssumption
<1>8. /\ said' \in Seq(Message) /\ SaidFits' /\ SpeakersHadControl' /\ ReaderFits'
  <2>1. PICK n \in Message : n = m
    BY <1>4
  <2>2. n.control.by = Nobody /\ n.control.gen = talkRun'[r].gen
    BY <1>1, <1>2, <1>4, <1>6, <2>1 DEF TalkStale
  <2>3. \A q \in TalkRuns : talkRun[q].status = "COMPLETED" =>
           talkRun'[q].status = "COMPLETED" /\ talkRun'[q].gen = talkRun[q].gen
    BY <1>1, <1>6
  <2> QED
    BY <1>2, <1>4, <1>5, <1>6, <1>7, <2>1, <2>2, <2>3, SaidGrows
<1>9. ArtifactsStayBound'
  <2>1. talkRun[r].status \in RebindBlocked
    BY <1>1 DEF RebindBlocked
  <2> QED
    BY <1>t, <1>2, <1>6, <2>1 DEF ArtifactsStayBound, Status
<1> QED
  BY <1>t, <1>6, <1>8, <1>9

LEMMA WritePostKeeps ==
  ASSUME TalkInv, NEW c \in Calls, call[c].pc = "decided", call[c].work = "post", WritePost(c),
         reader' = reader
  PROVE  /\ said' \in Seq(Message) /\ talkRun' \in [TalkRuns -> TalkRun]
         /\ file' \in [Files -> ArtifactRow] /\ control' \in Control
         /\ SaidFits' /\ SpeakersHadControl' /\ ArtifactsStayBound' /\ ReaderFits'
<1>t. /\ TalkTypeOK /\ ArtifactsStayBound /\ DecisionStands(c) /\ call[c] \in Call
      /\ control \in Control /\ UNCHANGED <<control, talkRun, file>>
  BY DEF TalkInv, TalkTypeOK, CallFits, WritePost
<1> DEFINE m == [sequence |-> call[c].sequence, author |-> call[c].who, run |-> Nobody,
                 control |-> control]
<1>1. /\ m \in Message /\ m.sequence = Len(said) /\ m.author \in People /\ m.control.by = m.author
  BY <1>t DEF Message, DecisionStands, Holds, Call
<1>2. said' = Append(said, m)
  BY DEF WritePost, Append1
<1> HIDE DEF m
<1>3. m.author # "bot"
  BY <1>1, TalkAssumption
<1>4. said' \in Seq(Message) /\ SaidFits' /\ SpeakersHadControl' /\ ReaderFits'
  <2>1. PICK n \in Message : n = m
    BY <1>1
  <2> QED
    BY <1>t, <1>1, <1>2, <1>3, <2>1, SaidGrows
<1>5. ArtifactsStayBound'
  BY <1>t DEF ArtifactsStayBound, Status
<1> QED
  BY <1>t, <1>4, <1>5 DEF TalkTypeOK

LEMMA WriteControlKeeps ==
  ASSUME TalkInv, NEW c \in Calls, WriteTake(c) \/ WriteRelease(c), control.gen < MaxControl,
         reader' = reader
  PROVE  /\ said' \in Seq(Message) /\ talkRun' \in [TalkRuns -> TalkRun]
         /\ file' \in [Files -> ArtifactRow] /\ control' \in Control
         /\ SaidFits' /\ SpeakersHadControl' /\ ArtifactsStayBound' /\ ReaderFits'
<1>t. /\ TalkTypeOK /\ ArtifactsStayBound /\ call[c] \in Call /\ control \in Control
      /\ UNCHANGED <<said, file>> /\ talkRun \in [TalkRuns -> TalkRun]
  BY DEF TalkInv, TalkTypeOK, WriteTake, WriteRelease
<1>1. control' \in Control
  <2>1. PICK g \in 0 .. MaxControl : g = control.gen + 1
    BY <1>t, TalkAssumption DEF Control
  <2>2. PICK by \in People \cup {Nobody} : control' = [by |-> by, gen |-> g]
    BY <1>t, <2>1 DEF WriteTake, WriteRelease, Call
  <2> QED
    BY <2>2 DEF Control
<1>2. \A r \in TalkRuns : /\ [talkRun[r] EXCEPT !.status = "ENDED"] \in TalkRun
                          /\ [talkRun[r] EXCEPT !.status = "ENDED"].status = "ENDED"
  <2>1. \A r \in TalkRuns : talkRun[r] \in TalkRun
    BY <1>t
  <2> QED
    BY <2>1 DEF TalkRun, TalkStatus
<1>3. /\ talkRun' \in [TalkRuns -> TalkRun]
      /\ \A r \in TalkRuns :
           \/ talkRun'[r] = talkRun[r]
           \/ talkRun'[r].status = "ENDED" /\ talkRun[r].status \in {"QUEUED", "WAITING_APPROVAL"}
  <2>1. CASE talkRun' = talkRun
    BY <1>t, <2>1
  <2>2. CASE talkRun' = [r \in TalkRuns |->
                           IF Status(r) \in {"QUEUED", "WAITING_APPROVAL"}
                           THEN [talkRun[r] EXCEPT !.status = "ENDED"] ELSE talkRun[r]]
    BY <1>t, <1>2, <2>2 DEF Status
  <2> QED
    BY <2>1, <2>2 DEF WriteTake, WriteRelease
<1>4. SaidFits' /\ SpeakersHadControl' /\ ReaderFits'
  <2>1. \A r \in TalkRuns : talkRun[r].status = "COMPLETED" =>
           talkRun'[r].status = "COMPLETED" /\ talkRun'[r].gen = talkRun[r].gen
    BY <1>3
  <2> QED
    BY <1>t, <2>1, SaidRests
<1>5. ArtifactsStayBound'
  <2>1. "ENDED" \notin RebindBlocked
    BY DEF RebindBlocked
  <2> QED
    BY <1>t, <1>3, <2>1 DEF ArtifactsStayBound, Status
<1> QED
  BY <1>t, <1>1, <1>3, <1>4, <1>5 DEF TalkTypeOK

LEMMA WriteCallKeeps ==
  ASSUME TalkInv, NEW c \in Calls, control.gen < MaxControl, WriteCall(c)
  PROVE  TalkInv'
<1>t. /\ TalkTypeOK /\ CallFits(c) /\ call[c].pc = "decided" /\ rowLock = c
  BY DEF TalkInv, WriteCall, CallAt, CallFits
<1>1. ~Collides(c)
  BY <1>t, NothingCollides
<1>2. /\ \/ call[c].work = "submit" /\ WriteSubmit(c)
         \/ call[c].work = "answer" /\ WriteAnswer(c)
         \/ call[c].work = "post" /\ WritePost(c)
         \/ call[c].work = "take" /\ WriteTake(c)
         \/ call[c].work = "release" /\ WriteRelease(c)
      /\ call' = [call EXCEPT ![c] = IdleCall] /\ rowLock' = Unlocked(c) /\ reader' = reader
  BY <1>1 DEF WriteCall
<1>3. /\ said' \in Seq(Message) /\ talkRun' \in [TalkRuns -> TalkRun]
      /\ file' \in [Files -> ArtifactRow] /\ control' \in Control
      /\ SaidFits' /\ SpeakersHadControl' /\ ArtifactsStayBound' /\ ReaderFits'
  BY <1>t, <1>2, WriteSubmitKeeps, WriteAnswerKeeps, WritePostKeeps, WriteControlKeeps
<1>4. /\ call' \in [Calls -> Call] /\ rowLock' \in Calls \cup {Nobody}
      /\ \A d \in Calls : CallFits(d)'
  BY <1>t, <1>2, LockGoes
<1>5. TalkTypeOK'
  BY <1>t, <1>2, <1>3, <1>4 DEF TalkTypeOK
<1> QED
  BY <1>3, <1>4, <1>5 DEF TalkInv

-----------------------------------------------------------------------------

\* What others may do to runs and artifacts leaves a decision under the lock as it was.
LEMMA DecisionsLast ==
  ASSUME TalkInv, UNCHANGED <<control, said, call, rowLock, reader>>,
         talkRun' \in [TalkRuns -> TalkRun], file' \in [Files -> ArtifactRow],
         \A r \in TalkRuns :
           /\ talkRun'[r].gen = talkRun[r].gen /\ talkRun'[r].key = talkRun[r].key
           /\ talkRun'[r].refs = talkRun[r].refs
           /\ \/ talkRun'[r].status = talkRun[r].status
              \/ talkRun[r].status \in {"QUEUED", "RUNNING", "WAITING_APPROVAL"}
                 /\ talkRun'[r].status # "NONE",
         \A f \in Files : file'[f].run = file[f].run /\ (file[f].exists => file'[f].exists)
  PROVE  TalkInv'
<1>t. /\ TalkTypeOK /\ ArtifactsStayBound /\ \A c \in Calls : CallFits(c)
  BY DEF TalkInv
<1>1. TalkTypeOK'
  BY <1>t DEF TalkTypeOK
<1>2. SaidFits' /\ SpeakersHadControl' /\ ReaderFits'
  BY SaidRests
<1>3. ArtifactsStayBound'
  <2> SUFFICES ASSUME NEW r \in TalkRuns, talkRun'[r].status \in RebindBlocked,
                      NEW f \in talkRun[r].refs
               PROVE  file'[f].run = r
    BY DEF ArtifactsStayBound, Status
  <2>1. talkRun[r].status \in RebindBlocked
    BY DEF RebindBlocked
  <2>2. f \in Files
    BY <1>t DEF TalkTypeOK, TalkRun
  <2> QED
    BY <1>t, <2>1, <2>2 DEF ArtifactsStayBound, Status
<1>4. ASSUME NEW f \in Files, Bindable(f) PROVE Bindable(f)'
  <2>1. file[f].exists /\ file'[f].exists /\ file'[f].run = file[f].run
    BY <1>4 DEF Bindable
  <2>2. CASE file[f].run = Nobody
    BY <2>1, <2>2 DEF Bindable
  <2>3. ASSUME NEW r \in TalkRuns, talkRun[r].status \notin RebindBlocked, file[f].run = r
        PROVE  Bindable(f)'
    <3>1. talkRun'[r].status \notin RebindBlocked
      BY <2>3 DEF RebindBlocked
    <3> QED
      BY <2>1, <2>3, <3>1 DEF Bindable, Status
  <2> QED
    BY <1>4, <2>2, <2>3 DEF Bindable, Status
<1>5. ASSUME NEW key, KeyTaken(key)' PROVE KeyTaken(key)
  BY <1>5 DEF KeyTaken, Status
<1>6. ASSUME NEW c \in Calls PROVE CallFits(c)'
  <2>1. CallFits(c) /\ call[c] \in Call
    BY <1>t DEF TalkTypeOK
  <2>2. ASSUME call[c].pc = "decided" PROVE DecisionStands(c)'
    <3>1. DecisionStands(c)
      BY <2>1, <2>2 DEF CallFits
    <3>2. ASSUME call[c].work = "submit"
          PROVE  /\ control'.by = Nobody /\ ~KeyTaken(call[c].key)'
                 /\ call[c].run \in TalkRuns /\ talkRun'[call[c].run].status = "NONE"
                 /\ \A f \in call[c].refs : Bindable(f)'
      <4>1. PICK key : key = call[c].key
        OBVIOUS
      <4>2. ~KeyTaken(call[c].key)'
        BY <1>5, <3>1, <3>2, <4>1 DEF DecisionStands
      <4>3. PICK r \in TalkRuns : r = call[c].run /\ talkRun[r].status = "NONE"
        BY <3>1, <3>2 DEF DecisionStands
      <4>4. \A f \in call[c].refs : f \in Files
        BY <2>1 DEF Call
      <4>5. \A f \in call[c].refs : Bindable(f)'
        BY <1>4, <3>1, <3>2, <4>4 DEF DecisionStands
      <4>6. control'.by = Nobody
        BY <3>1, <3>2 DEF DecisionStands
      <4> QED
        BY <4>2, <4>3, <4>5, <4>6
    <3>3. ASSUME call[c].work = "answer" PROVE ~TalkStale(call[c].run)'
      BY <2>1, <3>1, <3>3 DEF DecisionStands, TalkStale, CallFits
    <3>4. (call[c].work = "post" => Holds(c)') /\ call[c].sequence = Len(said)
      BY <3>1 DEF DecisionStands, Holds
    <3> QED
      BY <3>2, <3>3, <3>4 DEF DecisionStands
  <2> QED
    BY <2>1, <2>2 DEF CallFits
<1> QED
  BY <1>1, <1>2, <1>3, <1>6 DEF TalkInv

LEMMA UploadArtifactKeeps ==
  ASSUME TalkInv, NEW f \in Files, UploadArtifact(f)
  PROVE  TalkInv'
<1>t. /\ UNCHANGED <<control, talkRun, said, call, rowLock, reader>>
      /\ file \in [Files -> ArtifactRow] /\ talkRun \in [TalkRuns -> TalkRun]
  BY DEF TalkInv, TalkTypeOK, UploadArtifact
<1> DEFINE e == [file[f] EXCEPT !.exists = TRUE]
<1>1. e \in ArtifactRow /\ e.run = file[f].run /\ e.exists = TRUE
  BY <1>t DEF ArtifactRow
<1>2. file' = [file EXCEPT ![f] = e]
  BY DEF UploadArtifact
<1> HIDE DEF e
<1>3. /\ file' \in [Files -> ArtifactRow]
      /\ \A g \in Files : file'[g].run = file[g].run /\ (file[g].exists => file'[g].exists)
  BY <1>t, <1>1, <1>2
<1> QED
  BY <1>t, <1>3, DecisionsLast

LEMMA MoveRunKeeps ==
  ASSUME TalkInv, NEW r \in TalkRuns, NEW s \in TalkStatus, MoveRun(r, s)
  PROVE  TalkInv'
<1>t. /\ UNCHANGED <<control, said, file, call, rowLock, reader>>
      /\ file \in [Files -> ArtifactRow] /\ talkRun \in [TalkRuns -> TalkRun]
  BY DEF TalkInv, TalkTypeOK, MoveRun
<1>1. talkRun[r].status \in {"QUEUED", "RUNNING", "WAITING_APPROVAL"} /\ s # "NONE"
  BY DEF MoveRun, Status
<1> DEFINE e == [talkRun[r] EXCEPT !.status = s]
<1>2. /\ e \in TalkRun /\ e.status = s /\ e.gen = talkRun[r].gen /\ e.key = talkRun[r].key
      /\ e.refs = talkRun[r].refs
  BY <1>t DEF TalkRun
<1>3. talkRun' = [talkRun EXCEPT ![r] = e]
  BY DEF MoveRun, SetStatus
<1> HIDE DEF e
<1>4. talkRun' \in [TalkRuns -> TalkRun]
  BY <1>t, <1>2, <1>3
<1>5. ASSUME NEW q \in TalkRuns
      PROVE  /\ talkRun'[q].gen = talkRun[q].gen /\ talkRun'[q].key = talkRun[q].key
             /\ talkRun'[q].refs = talkRun[q].refs
             /\ \/ talkRun'[q].status = talkRun[q].status
                \/ talkRun[q].status \in {"QUEUED", "RUNNING", "WAITING_APPROVAL"}
                   /\ talkRun'[q].status # "NONE"
  BY <1>t, <1>1, <1>2, <1>3
<1> QED
  BY <1>t, <1>4, <1>5, DecisionsLast

\* A page is the next ReadLimit messages, or all that are left.
LEMMA PageIsNext ==
  ASSUME TalkInv, NEW n \in Nat, n <= Len(said)
  PROVE  FirstPage(After(n)) =
           n + 1 .. (IF n + ReadLimit < Len(said) THEN n + ReadLimit ELSE Len(said))
<1>t. /\ SaidFits /\ Len(said) \in Nat /\ DOMAIN said = 1 .. Len(said)
      /\ ReadLimit \in Nat /\ ReadLimit > 0
  BY TalkAssumption DEF TalkInv, TalkTypeOK
<1>1. After(n) = n + 1 .. Len(said)
  <2>1. \A i \in 1 .. Len(said) : said[i].sequence = i - 1
    BY <1>t DEF SaidFits
  <2> QED
    BY <1>t, <2>1 DEF After
<1>2. ASSUME NEW i \in n + 1 .. Len(said)
      PROVE  Cardinality({j \in After(n) : said[j].sequence < said[i].sequence}) = i - n - 1
  <2>1. \A j \in n + 1 .. Len(said) : said[j].sequence = j - 1
    BY <1>t DEF SaidFits
  <2>2. {j \in After(n) : said[j].sequence < said[i].sequence} = n + 1 .. i - 1
    BY <1>t, <1>1, <2>1
  <2>3. n + 1 \in Int /\ i - 1 \in Int
    BY <1>t
  <2>4. Cardinality(n + 1 .. i - 1) = IF n + 1 > i - 1 THEN 0 ELSE (i - 1) - (n + 1) + 1
    BY <2>3, FS_Interval
  <2>5. (IF n + 1 > i - 1 THEN 0 ELSE (i - 1) - (n + 1) + 1) = i - n - 1
    BY <1>t
  <2> QED
    BY <2>2, <2>4, <2>5
<1>3. \A i \in n + 1 .. Len(said) : i \in FirstPage(After(n)) <=> i - n - 1 < ReadLimit
  BY <1>1, <1>2 DEF FirstPage
<1>4. FirstPage(After(n)) \subseteq n + 1 .. Len(said)
  BY <1>1 DEF FirstPage
<1>5. CASE n + ReadLimit < Len(said)
  <2>1. \A i \in n + 1 .. Len(said) : i - n - 1 < ReadLimit <=> i \in n + 1 .. n + ReadLimit
    BY <1>t
  <2>2. n + 1 .. n + ReadLimit \subseteq n + 1 .. Len(said)
    BY <1>t, <1>5
  <2> QED
    BY <1>3, <1>4, <1>5, <2>1, <2>2
<1>6. CASE ~(n + ReadLimit < Len(said))
  <2>1. \A i \in n + 1 .. Len(said) : i - n - 1 < ReadLimit
    BY <1>t, <1>6
  <2> QED
    BY <1>3, <1>4, <1>6, <2>1
<1> QED
  BY <1>5, <1>6

LEMMA ReadTranscriptKeeps ==
  ASSUME TalkInv, ReadTranscript
  PROVE  TalkInv'
<1>t. /\ TalkTypeOK /\ SaidFits /\ SpeakersHadControl /\ ArtifactsStayBound /\ ReaderFits
      /\ (\A d \in Calls : CallFits(d)) /\ Len(said) \in Nat /\ DOMAIN said = 1 .. Len(said)
      /\ UNCHANGED <<control, talkRun, said, file, call, rowLock>>
      /\ ReadLimit \in Nat /\ ReadLimit > 0
  BY TalkAssumption DEF TalkInv, TalkTypeOK, ReadTranscript
<1>1. PICK n \in Nat : n = reader.cursor /\ n = reader.got /\ n <= Len(said)
  BY <1>t DEF TalkTypeOK, ReaderFits
<1>2. PICK last \in Nat :
        /\ last = IF n + ReadLimit < Len(said) THEN n + ReadLimit ELSE Len(said)
        /\ last <= Len(said)
  <2>1. CASE n + ReadLimit < Len(said)
    BY <1>t, <2>1
  <2>2. CASE ~(n + ReadLimit < Len(said))
    <3>1. PICK len \in Nat : len = Len(said)
      BY <1>t
    <3> QED
      BY <2>2, <3>1
  <2> QED
    BY <2>1, <2>2
<1>3. FirstPage(After(reader.cursor)) = n + 1 .. last
  BY <1>1, <1>2, PageIsNext
<1>4. PICK i \in n + 1 .. last :
        /\ \A j \in n + 1 .. last : said[j].sequence <= said[i].sequence
        /\ reader' = [cursor |-> said[i].sequence + 1,
                      got |-> reader.got + Cardinality(n + 1 .. last)]
  BY <1>3 DEF ReadTranscript
<1>5. \A j \in n + 1 .. last : said[j].sequence = j - 1
  <2> SUFFICES ASSUME NEW j \in n + 1 .. last PROVE said[j].sequence = j - 1
    OBVIOUS
  <2>1. PICK len \in Nat : len = Len(said) /\ last <= len
    BY <1>t, <1>2
  <2>2. j \in 1 .. len
    BY <2>1
  <2>3. j \in DOMAIN said
    BY <1>t, <2>1, <2>2
  <2> QED
    BY <1>t, <2>3 DEF SaidFits
<1>6. i = last
  BY <1>4, <1>5
<1>7. Cardinality(n + 1 .. last) = last - n
  <2>1. n + 1 \in Int /\ last \in Int
    OBVIOUS
  <2>2. Cardinality(n + 1 .. last) = IF n + 1 > last THEN 0 ELSE last - (n + 1) + 1
    BY <2>1, FS_Interval
  <2> QED
    BY <1>4, <2>2
<1>8. reader' = [cursor |-> last, got |-> last]
  <2>1. said[i].sequence + 1 = last
    BY <1>5, <1>6
  <2>2. reader.got + Cardinality(n + 1 .. last) = last
    BY <1>1, <1>7
  <2> QED
    BY <1>4, <2>1, <2>2
<1>9. ReaderFits' /\ reader' \in [cursor : Nat, got : Nat]
  BY <1>t, <1>2, <1>8 DEF ReaderFits
<1>10. TalkTypeOK'
  BY <1>t, <1>9 DEF TalkTypeOK
<1>11. SaidFits' /\ SpeakersHadControl' /\ ArtifactsStayBound'
  BY <1>t DEF SaidFits, SpeakersHadControl, ArtifactsStayBound, Status
<1>12. ASSUME NEW c \in Calls PROVE CallFits(c)'
  <2>1. CallFits(c)
    BY <1>t
  <2>2. DecisionStands(c) => DecisionStands(c)'
    BY <1>t DEF DecisionStands, KeyTaken, Bindable, Status, TalkStale, Holds
  <2> QED
    BY <1>t, <2>1, <2>2 DEF CallFits
<1> QED
  BY <1>9, <1>10, <1>11, <1>12 DEF TalkInv

LEMMA TalkSteps == TalkInv /\ [TalkNext]_talkVars => TalkInv'
<1> SUFFICES ASSUME TalkInv, [TalkNext]_talkVars PROVE TalkInv'
  OBVIOUS
<1>1. CASE UNCHANGED talkVars
  <2>1. /\ UNCHANGED <<control, said, call, rowLock, reader, talkRun, file>>
        /\ talkRun \in [TalkRuns -> TalkRun] /\ file \in [Files -> ArtifactRow]
    BY <1>1 DEF talkVars, TalkInv, TalkTypeOK
  <2> QED
    BY <2>1, DecisionsLast
<1>2. CASE \E c \in Calls :
             \/ \E key \in TalkKeys \cup {Nobody}, refs \in SUBSET Files : Submit(c, key, refs)
             \/ \E r \in TalkRuns : Answer(c, r)
             \/ \E h \in People, work \in {"post", "take", "release"} : Operate(c, work, h)
  BY <1>2, BeginsKeep
<1>3. CASE \E c \in Calls : Lock(c) \/ DecideCall(c) \/ RollbackCall(c)
  BY <1>3, ControlLockKeeps, DecideKeeps, RollbackKeeps
<1>4. CASE \E c \in Calls : control.gen < MaxControl /\ WriteCall(c)
  BY <1>4, WriteCallKeeps
<1>5. CASE \E f \in Files : UploadArtifact(f)
  BY <1>5, UploadArtifactKeeps
<1>6. CASE \E r \in TalkRuns, s \in TalkStatus : MoveRun(r, s)
  BY <1>6, MoveRunKeeps
<1>7. CASE ReadTranscript
  BY <1>7, ReadTranscriptKeeps
<1> QED
  BY <1>1, <1>2, <1>3, <1>4, <1>5, <1>6, <1>7 DEF TalkNext

\* The invariant of a conversation, its transactions and its readers, for every number of them.
THEOREM TalkInvariant == TalkSpec => []TalkInv
BY TalkStarts, TalkSteps, PTL DEF TalkSpec

\* No two writers take one number or key, everybody who speaks has the control, a run keeps its
\* artifacts, and a reader meets every message once.
THEOREM TalkHolds == TalkSpec => []TalkIsSound
<1>1. ASSUME TalkInv PROVE TalkIsSound
  <2>1. /\ SaidFits /\ SpeakersHadControl /\ ArtifactsStayBound /\ Len(said) \in Nat
        /\ DOMAIN said = 1 .. Len(said) /\ \A c \in Calls : CallFits(c)
    BY <1>1 DEF TalkInv, TalkTypeOK
  <2>2. NobodyCollides
    BY <2>1 DEF NobodyCollides, CallFits
  <2>3. TranscriptIsReadOnce
    <3>1. PICK n \in Nat : n = reader.cursor /\ n = reader.got /\ n <= Len(said)
      BY <1>1 DEF TalkInv, TalkTypeOK, ReaderFits
    <3>2. \A i \in 1 .. Len(said) : said[i].sequence = i - 1
      BY <2>1 DEF SaidFits
    <3>3. {i \in DOMAIN said : said[i].sequence < reader.cursor} = 1 .. n
      BY <2>1, <3>1, <3>2
    <3>4. 1 \in Int /\ n \in Int
      OBVIOUS
    <3>5. Cardinality(1 .. n) = IF 1 > n THEN 0 ELSE n - 1 + 1
      BY <3>4, FS_Interval
    <3>6. (IF 1 > n THEN 0 ELSE n - 1 + 1) = n
      OBVIOUS
    <3>7. reader.got = Cardinality(1 .. n)
      BY <3>1, <3>5, <3>6
    <3> QED
      BY <3>3, <3>7 DEF TranscriptIsReadOnce
  <2> QED
    BY <2>1, <2>2, <2>3 DEF TalkIsSound
<1> QED
  BY <1>1, TalkInvariant, PTL

-----------------------------------------------------------------------------
(* AiAdmission.                                                            *)

Selected(v, m) ==
  \E n \in DOMAIN assistant[v].draft.pins : assistant[v].draft.pins[n] = m

\* The run has its model; the attempt has looked at the kill switch.
Admitted == AdStatus \ {"NONE", "resolving", "rejected"}
Checked == {"guards", "artifacts", "resume", "loop", "asked"}

\* A run whose attempt began with the assistant off has an assistant that is still off.
VersionFits(rec) ==
  /\ rec.version = 0 \/ rec.version \in DOMAIN assistant
  /\ rec.off => rec.version # 0 /\ assistant[rec.version].enabled = FALSE
  /\ rec.pc \in Checked => rec.off = FALSE

\* What is left to try, what was chosen and what is used are of the selection.
SelectionFits(rec) ==
  /\ rec.pc = "resolving" /\ rec.version # 0 =>
       rec.todo # <<>> /\ \A n \in DOMAIN rec.todo : Selected(rec.version, rec.todo[n])
  /\ rec.pc \in Admitted =>
       /\ HasCredential(rec.snapshot.slug)
       /\ rec.version = 0 => rec.snapshot.slug \in {DefaultModel, MockModel}
       /\ rec.version # 0 => Selected(rec.version, rec.snapshot.slug)
  /\ rec.pc = "asked" => rec.used.slug = rec.snapshot.slug /\ (rec.image => rec.used.vision)

Gated(v, x) ==
  /\ x.class # "absent" /\ v # 0
  /\ x.tool \in assistant[v].draft.tools
  /\ (x.class # "SAFE" \/ x.approved # "absent") => x.approved = x.class

\* A call that waits was allowed, and so was every call that ran.
ToolsFit(rec) ==
  /\ rec.pending.decision # "none" =>
       /\ rec.pending.tool \in Tools /\ rec.pending.class # "absent" /\ rec.version # 0
       /\ rec.pending.tool \in assistant[rec.version].draft.tools
  /\ (rec.pending.decision = "asked") <=> rec.pc = "WAITING_APPROVAL"
  /\ \A n \in DOMAIN rec.steps : rec.steps[n].done => Gated(rec.version, rec.steps[n])
  /\ rec.pc \in {"loop", "asked"} => rec.told = rec.steps

RunFits(rec) == rec \in AdRun /\ VersionFits(rec) /\ SelectionFits(rec) /\ ToolsFit(rec)

Published(n) == trail[n].action \in {"created", "version_published"}

\* Every version was published once, and its last entry tells its state.
TrailFits ==
  /\ \A n \in DOMAIN trail : trail[n].version \in DOMAIN assistant
  /\ \A v \in DOMAIN assistant :
       /\ \E n \in EntriesOf(v) : Published(n) /\ \A k \in EntriesOf(v) : Published(k) => k = n
       /\ \E n \in EntriesOf(v) : /\ \A k \in EntriesOf(v) : k <= n
                                  /\ trail[n].enabled = assistant[v].enabled

EditorFits(e) ==
  /\ editor[e].pc = "update" =>
       /\ editor[e].version \in DOMAIN assistant
       /\ editor[e].action \notin {"created", "version_published"}
  /\ editor[e].pc = "version" => editor[e].action \in {"created", "version_published"}

\* The inductive invariant.
AdmissionInv ==
  /\ AdmissionTypeOK /\ TrailFits
  /\ \A e \in Editors : EditorFits(e)
  /\ \A r \in AdRuns : RunFits(adRun[r])

LEMMA VersionRow ==
  ASSUME AdmissionTypeOK, NEW v \in DOMAIN assistant
  PROVE  v \in Nat /\ assistant[v] \in [draft : Drafts, enabled : BOOLEAN]
<1> DEFINE S == [draft : Drafts, enabled : BOOLEAN]
<1>1. assistant \in Seq(S)
  BY DEF AdmissionTypeOK
<1> HIDE DEF S
<1>2. v \in Nat /\ assistant[v] \in S
  BY <1>1
<1> QED
  BY <1>2 DEF S

LEMMA IdleEditorFits ==
  IdleEditor \in EditorRecord /\ IdleEditor.pc = "idle"
<1>1. (CHOOSE d \in Drafts : TRUE) \in Drafts
  BY AdmissionAssumption
<1> QED
  BY <1>1 DEF IdleEditor, EditorRecord, Switch, Action

LEMMA NewRunFits ==
  /\ NewRun \in AdRun /\ NewRun.pc = "NONE" /\ NewRun.version = 0 /\ NewRun.off = FALSE
  /\ NewRun.pending.decision = "none" /\ NewRun.steps = <<>>
<1>1. (CHOOSE b \in Releases : TRUE) \in Releases
  BY AdmissionAssumption
<1>2. NoModelRow \in Row /\ {} \in SUBSET Row
  BY AdmissionAssumption DEF NoModelRow, Row
<1>3. /\ NoPending \in [tool : Tools \cup {"none"}, class : Class,
                        decision : {"none", "asked", "APPROVED", "REJECTED"}]
      /\ NoPending.decision = "none"
  BY DEF NoPending, Class
<1>4. "NONE" \in AdStatus /\ <<>> \in Seq(Models) /\ <<>> \in Seq(Step)
  BY DEF AdStatus
<1> QED
  BY <1>1, <1>2, <1>3, <1>4 DEF NewRun, AdRun

LEMMA AdmissionStarts == AdmissionInit => AdmissionInv
<1> SUFFICES ASSUME AdmissionInit PROVE AdmissionInv
  OBVIOUS
<1>1. catalog \in [held : BOOLEAN, rows : SUBSET Row]
  BY DEF AdmissionInit, NoCopy
<1>2. edits \in 0 .. MaxCatalogEdits
  BY AdmissionAssumption DEF AdmissionInit
<1>3. /\ assistant = <<>> /\ trail = <<>> /\ DOMAIN assistant = {} /\ DOMAIN trail = {}
      /\ assistant \in Seq([draft : Drafts, enabled : BOOLEAN]) /\ trail \in Seq(TrailEntry)
  BY DEF AdmissionInit
<1>4. \A e \in Editors : editor[e] = IdleEditor /\ EditorFits(e)
  BY IdleEditorFits DEF AdmissionInit, EditorFits
<1>5. \A r \in AdRuns : adRun[r] = NewRun
  BY DEF AdmissionInit
<1>6. RunFits(NewRun)
  <2>1. VersionFits(NewRun) /\ SelectionFits(NewRun)
    BY NewRunFits DEF VersionFits, SelectionFits, Checked, Admitted
  <2>2. ToolsFit(NewRun)
    BY NewRunFits DEF ToolsFit
  <2> QED
    BY NewRunFits, <2>1, <2>2 DEF RunFits
<1>7. AdmissionTypeOK
  <2>1. editor \in [Editors -> EditorRecord] /\ adRun \in [AdRuns -> AdRun]
    BY IdleEditorFits, NewRunFits DEF AdmissionInit
  <2>2. model \in [Models -> [enabled : BOOLEAN, vision : BOOLEAN]] /\ inputMode \in InputModes
    BY DEF AdmissionInit
  <2> QED
    BY <1>1, <1>2, <1>3, <2>1, <2>2 DEF AdmissionTypeOK
<1>8. TrailFits
  BY <1>3 DEF TrailFits
<1> QED
  BY <1>4, <1>5, <1>6, <1>7, <1>8 DEF AdmissionInv

-----------------------------------------------------------------------------
(* The administrator.                                                       *)

\* A run only looks at the drafts and the switches of the versions.
LEMMA RunsLast ==
  ASSUME AdmissionTypeOK, NEW rec, RunFits(rec),
         DOMAIN assistant \subseteq DOMAIN assistant',
         \A v \in DOMAIN assistant : assistant'[v].draft = assistant[v].draft,
         rec.off => assistant'[rec.version].enabled = FALSE
  PROVE  RunFits(rec)'
<1>0. 0 \notin DOMAIN assistant
  BY DEF AdmissionTypeOK
<1>1. VersionFits(rec)'
  BY DEF RunFits, VersionFits
<1>2. ASSUME rec.version # 0 PROVE assistant'[rec.version].draft = assistant[rec.version].draft
  BY <1>2 DEF RunFits, VersionFits
<1>3. ASSUME NEW m, rec.version # 0 PROVE Selected(rec.version, m)' <=> Selected(rec.version, m)
  BY <1>2, <1>3 DEF Selected
<1>4. SelectionFits(rec)'
  BY <1>3 DEF RunFits, SelectionFits, HasCredential
<1>5. ASSUME NEW x, Gated(rec.version, x) PROVE Gated(rec.version, x)'
  BY <1>2, <1>5 DEF Gated
<1>6. ToolsFit(rec)'
  BY <1>2, <1>5 DEF RunFits, ToolsFit
<1> QED
  BY <1>1, <1>4, <1>6 DEF RunFits

LEMMA TrailRests ==
  ASSUME TrailFits, UNCHANGED <<trail, assistant>>
  PROVE  TrailFits'
BY DEF TrailFits, EntriesOf, Published

\* An entry that tells the state of its version, the first one of a version its publication.
LEMMA TrailGrows ==
  ASSUME AdmissionTypeOK, TrailFits, NEW entry \in TrailEntry, trail' = Append(trail, entry),
         \A v \in DOMAIN assistant : v # entry.version =>
           assistant'[v].enabled = assistant[v].enabled,
         DOMAIN assistant' = DOMAIN assistant \cup {entry.version},
         entry.enabled = assistant'[entry.version].enabled,
         entry.version \in DOMAIN assistant <=>
           entry.action \notin {"created", "version_published"}
  PROVE  trail' \in Seq(TrailEntry) /\ TrailFits'
<1>1. /\ trail' \in Seq(TrailEntry) /\ Len(trail) \in Nat
      /\ DOMAIN trail' = 1 .. Len(trail) + 1 /\ DOMAIN trail = 1 .. Len(trail)
      /\ trail'[Len(trail) + 1] = entry
      /\ \A n \in DOMAIN trail : trail'[n] = trail[n]
  BY DEF AdmissionTypeOK
<1>n. PICK new \in Nat : new = Len(trail) + 1
  BY <1>1
<1>2. /\ new \in DOMAIN trail' /\ new \notin DOMAIN trail /\ trail'[new] = entry
      /\ \A n \in DOMAIN trail : n \in Nat /\ n < new
      /\ DOMAIN trail' = DOMAIN trail \cup {new} /\ new \in Nat
  BY <1>1, <1>n
<1>3. ASSUME NEW v, v # entry.version PROVE EntriesOf(v)' = EntriesOf(v)
  BY <1>1, <1>2, <1>3 DEF EntriesOf
<1>4. EntriesOf(entry.version)' = EntriesOf(entry.version) \cup {new}
  BY <1>1, <1>2 DEF EntriesOf
<1>5. \A v : EntriesOf(v) \subseteq DOMAIN trail
  BY DEF EntriesOf
<1>6. \A n \in DOMAIN trail : Published(n)' <=> Published(n)
  BY <1>1 DEF Published
<1>7. ASSUME NEW v \in DOMAIN assistant, v # entry.version
      PROVE  /\ \E n \in EntriesOf(v)' : Published(n)' /\ \A k \in EntriesOf(v)' : Published(k)' => k = n
             /\ \E n \in EntriesOf(v)' : /\ \A k \in EntriesOf(v)' : k <= n
                                         /\ trail'[n].enabled = assistant'[v].enabled
  <2>1. EntriesOf(v)' = EntriesOf(v) /\ assistant'[v].enabled = assistant[v].enabled
    BY <1>3, <1>7
  <2>2. \A n \in EntriesOf(v) : (Published(n)' <=> Published(n)) /\ trail'[n] = trail[n]
    BY <1>1, <1>5, <1>6
  <2>3. \E n \in EntriesOf(v) : Published(n) /\ \A k \in EntriesOf(v) : Published(k) => k = n
    BY <1>7 DEF TrailFits
  <2>4. \E n \in EntriesOf(v) : /\ \A k \in EntriesOf(v) : k <= n
                                 /\ trail[n].enabled = assistant[v].enabled
    BY <1>7 DEF TrailFits
  <2>5. \E n \in EntriesOf(v)' : Published(n)' /\ \A k \in EntriesOf(v)' : Published(k)' => k = n
    <3>1. PICK n \in EntriesOf(v) : Published(n) /\ \A k \in EntriesOf(v) : Published(k) => k = n
      BY <2>3
    <3>2. Published(n)' /\ n \in EntriesOf(v)'
      BY <2>1, <2>2, <3>1
    <3>3. ASSUME NEW k \in EntriesOf(v)', Published(k)' PROVE k = n
      BY <2>1, <2>2, <3>1, <3>3
    <3> QED
      BY <3>2, <3>3
  <2>6. PICK n \in EntriesOf(v) : /\ \A k \in EntriesOf(v) : k <= n
                                  /\ trail[n].enabled = assistant[v].enabled
    BY <2>4
  <2>7. trail'[n].enabled = assistant'[v].enabled
    BY <2>1, <2>2, <2>6
  <2> QED
    BY <2>1, <2>5, <2>6, <2>7
<1>8. /\ \E n \in EntriesOf(entry.version)' :
           Published(n)' /\ \A k \in EntriesOf(entry.version)' : Published(k)' => k = n
      /\ \E n \in EntriesOf(entry.version)' :
           /\ \A k \in EntriesOf(entry.version)' : k <= n
           /\ trail'[n].enabled = assistant'[entry.version].enabled
  <2>1. \A k \in EntriesOf(entry.version)' : k <= new
    BY <1>2, <1>4, <1>5
  <2>2. CASE entry.version \in DOMAIN assistant
    <3>1. ~Published(new)'
      BY <1>2, <2>2 DEF Published
    <3>2. PICK n \in EntriesOf(entry.version) :
            Published(n) /\ \A k \in EntriesOf(entry.version) : Published(k) => k = n
      BY <2>2 DEF TrailFits
    <3> QED
      BY <1>2, <1>4, <1>5, <1>6, <2>1, <3>1, <3>2
  <2>3. CASE entry.version \notin DOMAIN assistant
    <3>1. Published(new)'
      BY <1>2, <2>3 DEF Published
    <3>2. EntriesOf(entry.version) = {}
      BY <2>3 DEF TrailFits, EntriesOf
    <3> QED
      BY <1>2, <1>4, <2>1, <3>1, <3>2
  <2> QED
    BY <2>2, <2>3
<1>9. \A n \in DOMAIN trail' : trail'[n].version \in DOMAIN assistant'
  BY <1>1, <1>2 DEF TrailFits
<1> QED
  BY <1>1, <1>7, <1>8, <1>9 DEF TrailFits

\* An editor moves, and what the others hold still fits.
LEMMA EditorMoves ==
  ASSUME AdmissionInv, NEW e \in Editors, NEW new \in EditorRecord,
         editor' = [editor EXCEPT ![e] = new],
         DOMAIN assistant \subseteq DOMAIN assistant',
         new.pc = "update" =>
           new.version \in DOMAIN assistant' /\ new.action \notin {"created", "version_published"},
         new.pc = "version" => new.action \in {"created", "version_published"}
  PROVE  editor' \in [Editors -> EditorRecord] /\ \A d \in Editors : EditorFits(d)'
<1>1. /\ editor' \in [Editors -> EditorRecord] /\ editor'[e] = new
      /\ \A d \in Editors : d # e => editor'[d] = editor[d]
  BY DEF AdmissionInv, AdmissionTypeOK
<1>2. EditorFits(e)'
  BY <1>1 DEF EditorFits
<1>3. ASSUME NEW d \in Editors, d # e PROVE EditorFits(d)'
  <2>1. EditorFits(d) /\ editor'[d] = editor[d]
    BY <1>1, <1>3 DEF AdmissionInv
  <2> QED
    BY <2>1 DEF EditorFits
<1> QED
  BY <1>1, <1>2, <1>3

LEMMA BeginEditKeeps ==
  ASSUME AdmissionInv, NEW e \in Editors, NEW new \in EditorRecord, BeginEdit(e, new),
         new.pc = "update" =>
           new.version \in DOMAIN assistant /\ new.action \notin {"created", "version_published"},
         new.pc = "version" => new.action \in {"created", "version_published"}
  PROVE  AdmissionInv'
<1>t. /\ editor' = [editor EXCEPT ![e] = new] /\ AdmissionTypeOK /\ TrailFits
      /\ UNCHANGED <<model, edits, catalog, assistant, trail, adRun, inputMode>>
      /\ \A r \in AdRuns : RunFits(adRun[r])
  BY DEF BeginEdit, AdmissionInv
<1>1. editor' \in [Editors -> EditorRecord] /\ \A d \in Editors : EditorFits(d)'
  BY <1>t, EditorMoves
<1>2. AdmissionTypeOK' /\ TrailFits'
  BY <1>t, <1>1, TrailRests DEF AdmissionTypeOK
<1>3. ASSUME NEW r \in AdRuns PROVE RunFits(adRun[r])'
  <2>1. PICK rec : rec = adRun[r] /\ RunFits(rec)
    BY <1>t
  <2>2. RunFits(rec)'
    BY <1>t, <2>1, RunsLast DEF RunFits, VersionFits
  <2> QED
    BY <1>t, <2>1, <2>2
<1> QED
  BY <1>1, <1>2, <1>3 DEF AdmissionInv

LEMMA DraftVersionKeeps ==
  ASSUME AdmissionInv, NEW e \in Editors, NEW d \in Drafts, NEW enabled \in BOOLEAN,
         DraftVersion(e, d, enabled)
  PROVE  AdmissionInv'
<1>1. PICK v \in Nat, action \in {"created", "version_published"}, set \in {"on", "off"} :
        /\ v = Len(assistant) + 1 /\ set = (IF enabled THEN "on" ELSE "off")
        /\ action = (IF assistant = <<>> THEN "created" ELSE "version_published")
  <2>1. Len(assistant) + 1 \in Nat
    BY DEF AdmissionInv, AdmissionTypeOK
  <2>2. PICK v \in Nat : v = Len(assistant) + 1
    BY <2>1
  <2> QED
    BY <2>2
<1> DEFINE new == [IdleEditor EXCEPT !.pc = "version", !.version = v, !.draft = d, !.set = set,
                                     !.action = action]
<1>2. new \in EditorRecord /\ new.pc = "version" /\ new.action = action
  BY IdleEditorFits DEF EditorRecord, Switch, Action
<1>3. BeginEdit(e, new)
  BY <1>1 DEF DraftVersion
<1> HIDE DEF new
<1> QED
  BY <1>2, <1>3, BeginEditKeeps

LEMMA PlanUpdateKeeps ==
  ASSUME AdmissionInv, NEW e \in Editors, NEW v \in DOMAIN assistant, NEW set \in Switch,
         NEW renames \in BOOLEAN, PlanUpdate(e, v, set, renames)
  PROVE  AdmissionInv'
<1>t. assistant \in Seq([draft : Drafts, enabled : BOOLEAN])
  BY DEF AdmissionInv, AdmissionTypeOK
<1>1. PICK w \in Nat, before \in BOOLEAN : w = v /\ before = assistant[v].enabled
  <2>1. v \in Nat /\ assistant[v] \in [draft : Drafts, enabled : BOOLEAN]
    BY VersionRow DEF AdmissionInv
  <2>2. assistant[v].enabled \in BOOLEAN
    BY <2>1
  <2> QED
    BY <2>1, <2>2
<1>2. PICK action \in {"updated", "enabled", "disabled"} :
        action = IF ~(set # "keep" /\ (set = "on") # before) THEN "updated"
                 ELSE IF set = "on" THEN "enabled" ELSE "disabled"
  OBVIOUS
<1> DEFINE new == [IdleEditor EXCEPT !.pc = "update", !.version = w, !.set = set,
                                     !.before = before, !.action = action]
<1>3. new \in EditorRecord /\ new.pc = "update" /\ new.action = action /\ new.version = w
  BY IdleEditorFits DEF EditorRecord, Action
<1>4. BeginEdit(e, new)
  BY <1>1, <1>2 DEF PlanUpdate
<1> HIDE DEF new
<1> QED
  BY <1>1, <1>3, <1>4, BeginEditKeeps

\* An editor has written, or found its version taken.
LEMMA EditorLeaves ==
  ASSUME AdmissionInv, NEW e \in Editors, Leave(e), DOMAIN assistant \subseteq DOMAIN assistant'
  PROVE  editor' \in [Editors -> EditorRecord] /\ \A d \in Editors : EditorFits(d)'
<1>1. PICK new \in EditorRecord : new = IdleEditor /\ new.pc = "idle"
  BY IdleEditorFits
<1>2. editor' = [editor EXCEPT ![e] = new]
  BY <1>1 DEF Leave
<1> QED
  BY <1>1, <1>2, EditorMoves

LEMMA WriteVersionKeeps ==
  ASSUME AdmissionInv, NEW e \in Editors, WriteVersion(e)
  PROVE  AdmissionInv'
<1>t. /\ AdmissionTypeOK /\ TrailFits /\ EditorFits(e) /\ editor[e] \in EditorRecord
      /\ editor[e].pc = "version" /\ Leave(e)
      /\ UNCHANGED <<model, edits, catalog, adRun, inputMode>>
      /\ \A r \in AdRuns : RunFits(adRun[r])
  BY DEF WriteVersion, AdmissionInv, AdmissionTypeOK
<1>a. /\ assistant \in Seq([draft : Drafts, enabled : BOOLEAN]) /\ Len(assistant) \in Nat
      /\ DOMAIN assistant = 1 .. Len(assistant)
  BY <1>t DEF AdmissionTypeOK
<1>1. CASE UNCHANGED <<assistant, trail>>
  <2>1. editor' \in [Editors -> EditorRecord] /\ \A d \in Editors : EditorFits(d)'
    BY <1>t, <1>1, EditorLeaves
  <2>2. AdmissionTypeOK' /\ TrailFits'
    BY <1>t, <1>1, <2>1, TrailRests DEF AdmissionTypeOK
  <2>3. ASSUME NEW r \in AdRuns PROVE RunFits(adRun[r])'
    <3>1. PICK rec : rec = adRun[r] /\ RunFits(rec)
      BY <1>t
    <3>2. RunFits(rec)'
      BY <1>1, <1>t, <3>1, RunsLast DEF RunFits, VersionFits
    <3> QED
      BY <1>t, <3>1, <3>2
  <2> QED
    BY <2>1, <2>2, <2>3 DEF AdmissionInv
<1>2. CASE /\ editor[e].version = Len(assistant) + 1
           /\ assistant' = Append(assistant, [draft |-> editor[e].draft,
                                              enabled |-> editor[e].set = "on"])
           /\ Recorded(e, editor[e].set = "on")
  <2> DEFINE made == [draft |-> editor[e].draft, enabled |-> editor[e].set = "on"]
             entry == [version |-> editor[e].version, action |-> editor[e].action,
                       enabled |-> editor[e].set = "on"]
  <2>1. made \in [draft : Drafts, enabled : BOOLEAN] /\ made.enabled = (editor[e].set = "on")
    BY <1>t DEF EditorRecord
  <2>2. /\ entry \in TrailEntry /\ entry.version = Len(assistant) + 1
        /\ entry.action \in {"created", "version_published"}
        /\ entry.enabled = (editor[e].set = "on")
    BY <1>t, <1>2 DEF EditorRecord, TrailEntry, EditorFits
  <2>3. assistant' = Append(assistant, made) /\ trail' = Append(trail, entry)
    BY <1>2 DEF Recorded
  <2> HIDE DEF made, entry
  <2>4. /\ assistant' \in Seq([draft : Drafts, enabled : BOOLEAN])
        /\ DOMAIN assistant' = DOMAIN assistant \cup {entry.version}
        /\ entry.version \notin DOMAIN assistant
        /\ assistant'[entry.version] = made
        /\ \A v \in DOMAIN assistant : assistant'[v] = assistant[v]
    BY <1>a, <2>1, <2>2, <2>3
  <2>5. trail' \in Seq(TrailEntry) /\ TrailFits'
    <3>1. PICK x \in TrailEntry : x = entry
      BY <2>2
    <3> QED
      BY <1>t, <2>1, <2>2, <2>3, <2>4, <3>1, TrailGrows
  <2>6. editor' \in [Editors -> EditorRecord] /\ \A d \in Editors : EditorFits(d)'
    BY <1>t, <2>4, EditorLeaves
  <2>7. AdmissionTypeOK'
    BY <1>t, <2>4, <2>5, <2>6 DEF AdmissionTypeOK
  <2>8. ASSUME NEW r \in AdRuns PROVE RunFits(adRun[r])'
    <3>1. PICK rec : rec = adRun[r] /\ RunFits(rec)
      BY <1>t
    <3>2. rec.off => assistant'[rec.version].enabled = FALSE
      BY <2>4, <3>1 DEF RunFits, VersionFits
    <3>3. RunFits(rec)'
      BY <1>t, <2>4, <3>1, <3>2, RunsLast
    <3> QED
      BY <1>t, <3>1, <3>3
  <2> QED
    BY <2>5, <2>6, <2>7, <2>8 DEF AdmissionInv
<1> QED
  BY <1>1, <1>2 DEF WriteVersion

LEMMA WriteUpdateKeeps ==
  ASSUME AdmissionInv, NEW e \in Editors, WriteUpdate(e)
  PROVE  AdmissionInv'
<1>t. /\ AdmissionTypeOK /\ TrailFits /\ EditorFits(e) /\ editor[e] \in EditorRecord
      /\ editor[e].pc = "update" /\ Leave(e)
      /\ UNCHANGED <<model, edits, catalog, inputMode>>
      /\ \A r \in AdRuns : RunFits(adRun[r])
  BY DEF WriteUpdate, AdmissionInv, AdmissionTypeOK
<1>a. /\ assistant \in Seq([draft : Drafts, enabled : BOOLEAN]) /\ Len(assistant) \in Nat
      /\ DOMAIN assistant = 1 .. Len(assistant)
  BY <1>t DEF AdmissionTypeOK
<1>1. PICK v \in DOMAIN assistant : v = editor[e].version
  BY <1>t DEF EditorFits
<1>o. PICK old \in [draft : Drafts, enabled : BOOLEAN] : old = assistant[v]
  BY <1>t, VersionRow
<1>2. PICK now \in BOOLEAN : now = Updated(e, assistant[v].enabled)
  <2>1. Updated(e, old.enabled) \in BOOLEAN
    BY DEF Updated
  <2> QED
    BY <1>o, <2>1
<1>3. /\ assistant' = [assistant EXCEPT ![v].enabled = now] /\ Recorded(e, now)
      /\ adRun' = [r \in AdRuns |-> IF adRun[r].version = v /\ now
                                    THEN [adRun[r] EXCEPT !.off = FALSE] ELSE adRun[r]]
  BY <1>1, <1>2 DEF WriteUpdate, Audited
<1> DEFINE made == [old EXCEPT !.enabled = now]
           entry == [version |-> v, action |-> editor[e].action, enabled |-> now]
<1>4. /\ made \in [draft : Drafts, enabled : BOOLEAN] /\ made.enabled = now
      /\ made.draft = assistant[v].draft
  BY <1>o
<1>5. /\ entry \in TrailEntry /\ entry.version = v /\ entry.enabled = now
      /\ entry.action \notin {"created", "version_published"}
  BY <1>t, <1>a, <1>1 DEF EditorRecord, TrailEntry, EditorFits
<1>6. assistant' = [assistant EXCEPT ![v] = made] /\ trail' = Append(trail, entry)
  BY <1>1, <1>3, <1>o DEF Recorded
<1> HIDE DEF made, entry
<1>7. /\ assistant' \in Seq([draft : Drafts, enabled : BOOLEAN])
      /\ DOMAIN assistant' = DOMAIN assistant /\ assistant'[v] = made
      /\ \A w \in DOMAIN assistant : w # v => assistant'[w] = assistant[w]
  BY <1>a, <1>4, <1>6
<1>8. trail' \in Seq(TrailEntry) /\ TrailFits'
  <2>1. PICK x \in TrailEntry : x = entry
    BY <1>5
  <2> QED
    BY <1>t, <1>4, <1>5, <1>6, <1>7, <2>1, TrailGrows
<1>9. editor' \in [Editors -> EditorRecord] /\ \A d \in Editors : EditorFits(d)'
  BY <1>t, <1>7, EditorLeaves
<1>10. \A w \in DOMAIN assistant : assistant'[w].draft = assistant[w].draft
  BY <1>4, <1>7
<1>11. ASSUME NEW r \in AdRuns PROVE adRun'[r] \in AdRun /\ RunFits(adRun[r])'
  <2>1. PICK rec \in AdRun : rec = adRun[r] /\ RunFits(rec)
    BY <1>t DEF AdmissionTypeOK
  <2>2. CASE rec.version = v /\ now
    <3> DEFINE new == [rec EXCEPT !.off = FALSE]
    <3>1. /\ new \in AdRun /\ new.off = FALSE /\ new.version = rec.version /\ new.pc = rec.pc
          /\ new.todo = rec.todo /\ new.snapshot = rec.snapshot /\ new.used = rec.used
          /\ new.image = rec.image /\ new.pending = rec.pending /\ new.steps = rec.steps
          /\ new.told = rec.told
      BY DEF AdRun
    <3>2. adRun'[r] = new
      BY <1>3, <2>1, <2>2
    <3> HIDE DEF new
    <3>3. VersionFits(new) /\ SelectionFits(new) /\ ToolsFit(new)
      BY <2>1, <3>1 DEF RunFits, VersionFits, SelectionFits, ToolsFit
    <3>4. RunFits(new)
      BY <3>1, <3>3 DEF RunFits
    <3>5. RunFits(new)'
      BY <1>t, <1>7, <1>10, <3>1, <3>4, RunsLast
    <3> QED
      BY <3>1, <3>2, <3>5
  <2>3. CASE ~(rec.version = v /\ now)
    <3>1. adRun'[r] = rec
      BY <1>3, <2>1, <2>3
    <3>2. rec.off => assistant'[rec.version].enabled = FALSE
      BY <1>4, <1>7, <2>1, <2>3 DEF RunFits, VersionFits
    <3>3. RunFits(rec)'
      BY <1>t, <1>7, <1>10, <2>1, <3>2, RunsLast
    <3> QED
      BY <2>1, <3>1, <3>3
  <2> QED
    BY <2>2, <2>3
<1>12. adRun' \in [AdRuns -> AdRun]
  BY <1>3, <1>11
<1>13. AdmissionTypeOK'
  BY <1>t, <1>7, <1>8, <1>9, <1>12 DEF AdmissionTypeOK
<1> QED
  BY <1>8, <1>9, <1>11, <1>13 DEF AdmissionInv

-----------------------------------------------------------------------------
(* The catalogue.                                                           *)

LEMMA CatalogMoves ==
  ASSUME AdmissionInv, UNCHANGED <<assistant, trail, editor, adRun, inputMode>>,
         model' \in [Models -> [enabled : BOOLEAN, vision : BOOLEAN]],
         edits' \in 0 .. MaxCatalogEdits,
         catalog' \in [held : BOOLEAN, rows : SUBSET Row]
  PROVE  AdmissionInv'
<1>t. /\ AdmissionTypeOK /\ TrailFits /\ (\A e \in Editors : EditorFits(e))
      /\ \A r \in AdRuns : RunFits(adRun[r])
  BY DEF AdmissionInv
<1>1. AdmissionTypeOK' /\ TrailFits'
  BY <1>t, TrailRests DEF AdmissionTypeOK
<1>2. \A e \in Editors : EditorFits(e)'
  BY <1>t DEF EditorFits
<1>3. ASSUME NEW r \in AdRuns PROVE RunFits(adRun[r])'
  <2>1. PICK rec : rec = adRun[r] /\ RunFits(rec)
    BY <1>t
  <2>2. RunFits(rec)'
    BY <1>t, <2>1, RunsLast DEF RunFits, VersionFits
  <2> QED
    BY <2>1, <2>2
<1> QED
  BY <1>1, <1>2, <1>3 DEF AdmissionInv

LEMMA EditModelKeeps ==
  ASSUME AdmissionInv, NEW m \in Models, NEW enabled \in BOOLEAN, NEW vision \in BOOLEAN,
         EditModel(m, enabled, vision)
  PROVE  AdmissionInv'
<1>1. edits' \in 0 .. MaxCatalogEdits
  BY AdmissionAssumption DEF EditModel, AdmissionInv, AdmissionTypeOK
<1>2. model' \in [Models -> [enabled : BOOLEAN, vision : BOOLEAN]]
  BY DEF EditModel, AdmissionInv, AdmissionTypeOK
<1>3. UNCHANGED <<catalog, assistant, trail, editor, adRun, inputMode>>
  BY DEF EditModel
<1> QED
  BY <1>1, <1>2, <1>3, CatalogMoves DEF AdmissionInv, AdmissionTypeOK

LEMMA CopyGoesKeeps ==
  ASSUME AdmissionInv, CopyGoes
  PROVE  AdmissionInv'
<1>1. catalog' \in [held : BOOLEAN, rows : SUBSET Row]
  BY DEF CopyGoes, NoCopy
<1>2. UNCHANGED <<model, edits, assistant, trail, editor, adRun, inputMode>>
  BY DEF CopyGoes
<1> QED
  BY <1>1, <1>2, CatalogMoves DEF AdmissionInv, AdmissionTypeOK

-----------------------------------------------------------------------------
(* A run and its attempts.                                                  *)

LEMMA RunMoves ==
  ASSUME AdmissionInv, NEW r \in AdRuns, NEW rec, RunFits(rec), To(r, rec),
         catalog' \in [held : BOOLEAN, rows : SUBSET Row]
  PROVE  AdmissionInv'
<1>t. /\ AdmissionTypeOK /\ TrailFits /\ (\A e \in Editors : EditorFits(e))
      /\ (\A q \in AdRuns : RunFits(adRun[q])) /\ rec \in AdRun
      /\ UNCHANGED <<model, edits, assistant, trail, editor, inputMode>>
      /\ adRun' = [adRun EXCEPT ![r] = rec]
  BY DEF AdmissionInv, To, RunFits
<1>1. /\ adRun' \in [AdRuns -> AdRun] /\ adRun'[r] = rec
      /\ \A q \in AdRuns : q # r => adRun'[q] = adRun[q]
  BY <1>t DEF AdmissionTypeOK
<1>2. AdmissionTypeOK' /\ TrailFits'
  BY <1>t, <1>1, TrailRests DEF AdmissionTypeOK
<1>3. \A e \in Editors : EditorFits(e)'
  BY <1>t DEF EditorFits
<1>4. ASSUME NEW q \in AdRuns PROVE RunFits(adRun[q])'
  <2>1. PICK x : x = adRun'[q] /\ RunFits(x)
    BY <1>t, <1>1
  <2>2. RunFits(x)'
    BY <1>t, <2>1, RunsLast DEF RunFits, VersionFits
  <2> QED
    BY <2>1, <2>2
<1> QED
  BY <1>2, <1>3, <1>4 DEF AdmissionInv

\* Only the phase of an attempt moves, and what it holds in memory.
LEMMA RunStays ==
  ASSUME NEW old, RunFits(old), NEW rec \in AdRun,
         rec.version = old.version, rec.image = old.image, rec.off = old.off,
         rec.snapshot = old.snapshot, rec.pending = old.pending, rec.steps = old.steps,
         old.pc \in Admitted, old.pc # "WAITING_APPROVAL",
         rec.pc \in Admitted, rec.pc # "WAITING_APPROVAL",
         rec.pc \in Checked => rec.off = FALSE,
         rec.pc = "asked" => rec.used.slug = rec.snapshot.slug /\ (rec.image => rec.used.vision),
         rec.pc \in {"loop", "asked"} => rec.told = rec.steps
  PROVE  RunFits(rec)
<1>1. VersionFits(rec)
  BY DEF RunFits, VersionFits
<1>2. SelectionFits(rec)
  BY DEF RunFits, SelectionFits, Admitted
<1>3. ToolsFit(rec)
  BY DEF RunFits, ToolsFit
<1> QED
  BY <1>1, <1>2, <1>3 DEF RunFits

LEMMA ForgetsFits ==
  ASSUME NEW rec \in AdRun, NEW pc \in AdStatus
  PROVE  LET new == Forgets([rec EXCEPT !.pc = pc]) IN
         /\ new \in AdRun /\ new.pc = pc /\ new.version = rec.version /\ new.image = rec.image
         /\ new.off = rec.off /\ new.snapshot = rec.snapshot /\ new.pending = rec.pending
         /\ new.steps = rec.steps /\ new.box = rec.box
<1>1. NoModelRow \in Row /\ <<>> \in Seq(Step) /\ {} \in SUBSET Row
  BY AdmissionAssumption DEF NoModelRow, Row
<1> DEFINE e == [rec EXCEPT !.pc = pc, !.missed = FALSE, !.rows = {}, !.told = <<>>,
                            !.used = NoModelRow]
<1>2. /\ e \in AdRun /\ e.pc = pc /\ e.version = rec.version /\ e.image = rec.image
      /\ e.off = rec.off /\ e.snapshot = rec.snapshot /\ e.pending = rec.pending
      /\ e.steps = rec.steps /\ e.box = rec.box
  BY <1>1 DEF AdRun
<1>3. Forgets([rec EXCEPT !.pc = pc]) = e
  BY DEF Forgets, AdRun
<1> HIDE DEF e
<1> QED
  BY <1>2, <1>3

LEMMA BecomesKeeps ==
  ASSUME AdmissionInv, NEW r \in AdRuns, NEW pc \in Admitted, pc \notin {"loop", "asked", "WAITING_APPROVAL"},
         adRun[r].pc \in Admitted, adRun[r].pc # "WAITING_APPROVAL",
         pc \in Checked => adRun[r].off = FALSE,
         Becomes(r, pc), UNCHANGED catalog
  PROVE  AdmissionInv'
<1>1. PICK old \in AdRun : old = adRun[r] /\ RunFits(old)
  BY DEF AdmissionInv, RunFits
<1>2. PICK new : new = Forgets([old EXCEPT !.pc = pc])
  OBVIOUS
<1>3. /\ new \in AdRun /\ new.pc = pc /\ new.version = old.version /\ new.image = old.image
      /\ new.off = old.off /\ new.snapshot = old.snapshot /\ new.pending = old.pending
      /\ new.steps = old.steps
  BY <1>2, ForgetsFits DEF Admitted
<1>4. RunFits(new)
  BY <1>1, <1>3, RunStays
<1>5. To(r, new) /\ catalog' \in [held : BOOLEAN, rows : SUBSET Row]
  BY <1>1, <1>2 DEF Becomes, AdmissionInv, AdmissionTypeOK
<1> QED
  BY <1>4, <1>5, RunMoves

LEMMA AgainKeeps ==
  ASSUME AdmissionInv, NEW r \in AdRuns,
         adRun[r].pc \in Admitted, adRun[r].pc # "WAITING_APPROVAL",
         To(r, Again(adRun[r])), UNCHANGED catalog
  PROVE  AdmissionInv'
<1>1. PICK old \in AdRun : old = adRun[r] /\ RunFits(old)
  BY DEF AdmissionInv, RunFits
<1>2. PICK pc \in {"FAILED", "QUEUED"} :
        pc = IF old.attempts >= AdAttempts THEN "FAILED" ELSE "QUEUED"
  OBVIOUS
<1>3. PICK new : new = Forgets([old EXCEPT !.pc = pc])
  OBVIOUS
<1>p. pc \in AdStatus /\ pc \in Admitted /\ pc \notin Checked
  BY DEF Admitted, AdStatus, Checked
<1>4. /\ new \in AdRun /\ new.pc = pc /\ new.version = old.version /\ new.image = old.image
      /\ new.off = old.off /\ new.snapshot = old.snapshot /\ new.pending = old.pending
      /\ new.steps = old.steps
  BY <1>3, <1>p, ForgetsFits
<1>5. RunFits(new)
  BY <1>1, <1>4, <1>p, RunStays
<1>6. To(r, new) /\ catalog' \in [held : BOOLEAN, rows : SUBSET Row]
  BY <1>1, <1>2, <1>3 DEF Again, AdmissionInv, AdmissionTypeOK
<1> QED
  BY <1>5, <1>6, RunMoves

LEMMA AdmittedPhases ==
  /\ AtWork \subseteq Admitted /\ "WAITING_APPROVAL" \notin AtWork
  /\ {"FAILED", "ENDED", "COMPLETED", "QUEUED", "WAITING_APPROVAL"} \subseteq Admitted \ Checked
  /\ Checked \subseteq AtWork /\ Admitted \subseteq AdStatus
BY DEF AtWork, Admitted, AdStatus, Checked

LEMMA AttemptsKeep ==
  ASSUME AdmissionInv, NEW r \in AdRuns,
         \/ Preflight(r) \/ (\E verdict \in Verdict : InputGuards(r, verdict))
         \/ FetchArtifacts(r) \/ Exhausted(r) \/ AttemptDies(r)
         \/ (\E fault \in Fault : ProviderFails(r, fault))
         \/ (\E reply \in ProviderReply : ProviderAnswers(r, reply))
  PROVE  AdmissionInv'
<1>1. RunFits(adRun[r])
  BY DEF AdmissionInv
<1>2. ASSUME adRun[r].pc \in AtWork, UNCHANGED catalog,
             \/ \E pc \in {"FAILED", "ENDED", "COMPLETED"} : Becomes(r, pc)
             \/ To(r, Again(adRun[r]))
      PROVE  AdmissionInv'
  BY <1>2, AdmittedPhases, BecomesKeeps, AgainKeeps
<1>3. ASSUME Preflight(r) PROVE AdmissionInv'
  <2>1. adRun[r].pc = "preflight" /\ UNCHANGED catalog
    BY <1>3 DEF Preflight, RunIsAt
  <2>2. CASE Becomes(r, "FAILED")
    BY <1>2, <2>1, <2>2 DEF AtWork
  <2>3. CASE ~Off(r) /\ Becomes(r, "guards")
    <3>1. adRun[r].off = FALSE
      BY <1>1, <2>3 DEF Off, RunFits, VersionFits, AdRun
    <3>2. "guards" \in Admitted /\ "preflight" \in Admitted
      BY DEF Admitted, AdStatus, AtWork
    <3> QED
      BY <2>1, <2>3, <3>1, <3>2, BecomesKeeps
  <2> QED
    BY <1>3, <2>2, <2>3 DEF Preflight
<1>4. ASSUME NEW verdict \in Verdict, InputGuards(r, verdict) PROVE AdmissionInv'
  <2>1. adRun[r].pc = "guards" /\ UNCHANGED catalog /\ (Becomes(r, "ENDED") \/ Becomes(r, "artifacts"))
    BY <1>4 DEF InputGuards, RunIsAt
  <2>2. adRun[r].off = FALSE
    BY <1>1, <2>1 DEF RunFits, VersionFits, Checked
  <2>3. "guards" \in Admitted /\ "artifacts" \in Admitted
    BY DEF Admitted, AdStatus, AtWork
  <2>4. CASE Becomes(r, "ENDED")
    BY <1>2, <2>1, <2>4 DEF AtWork
  <2>5. CASE Becomes(r, "artifacts")
    BY <2>1, <2>2, <2>3, <2>5, BecomesKeeps
  <2> QED
    BY <2>1, <2>4, <2>5
<1>5. ASSUME FetchArtifacts(r) PROVE AdmissionInv'
  <2>1. /\ adRun[r].pc = "artifacts" /\ UNCHANGED catalog
        /\ Becomes(r, "resume") \/ Becomes(r, "FAILED") \/ To(r, Again(adRun[r]))
    BY <1>5 DEF FetchArtifacts, RunIsAt
  <2>2. adRun[r].off = FALSE
    BY <1>1, <2>1 DEF RunFits, VersionFits, Checked
  <2>3. "artifacts" \in Admitted /\ "resume" \in Admitted
    BY DEF Admitted, AdStatus, AtWork
  <2>4. CASE Becomes(r, "FAILED") \/ To(r, Again(adRun[r]))
    BY <1>2, <2>1, <2>4 DEF AtWork
  <2>5. CASE Becomes(r, "resume")
    BY <2>1, <2>2, <2>3, <2>5, BecomesKeeps
  <2> QED
    BY <2>1, <2>4, <2>5
<1>6. ASSUME Exhausted(r) \/ AttemptDies(r) PROVE AdmissionInv'
  BY <1>2, <1>6 DEF Exhausted, AttemptDies, RunIsAt, AtWork
<1>7. ASSUME NEW fault \in Fault, ProviderFails(r, fault) PROVE AdmissionInv'
  BY <1>2, <1>7 DEF ProviderFails, RunIsAt, AtWork
<1>8. ASSUME NEW reply \in ProviderReply, ProviderAnswers(r, reply) PROVE AdmissionInv'
  <2>1. /\ adRun[r].pc = "asked" /\ UNCHANGED catalog
        /\ Becomes(r, "ENDED") \/ Becomes(r, "COMPLETED") \/ Becomes(r, "FAILED")
    BY <1>8 DEF ProviderAnswers, ProviderReply, RunIsAt
  <2> QED
    BY <1>2, <2>1 DEF AtWork
<1> QED
  BY <1>3, <1>4, <1>5, <1>6, <1>7, <1>8

LEMMA StartAtKeeps ==
  ASSUME AdmissionInv, NEW r \in AdRuns, NEW box \in Releases, StartAt(r, box)
  PROVE  AdmissionInv'
<1>1. PICK old \in AdRun : old = adRun[r] /\ RunFits(old) /\ old.pc = "QUEUED"
  BY DEF AdmissionInv, RunFits, StartAt, RunIsAt
<1>2. PICK n \in Nat, off \in BOOLEAN :
        /\ n = old.attempts + 1
        /\ off = (old.version # 0 /\ ~assistant[old.version].enabled)
  <2>1. PICK n \in Nat : n = old.attempts + 1
    BY <1>1 DEF AdRun
  <2>2. PICK off \in BOOLEAN : off = (old.version # 0 /\ ~assistant[old.version].enabled)
    OBVIOUS
  <2> QED
    BY <2>1, <2>2
<1> DEFINE new == [old EXCEPT !.pc = "preflight", !.box = box, !.attempts = n, !.off = off]
<1>3. /\ new \in AdRun /\ new.pc = "preflight" /\ new.version = old.version
      /\ new.image = old.image /\ new.off = off /\ new.snapshot = old.snapshot
      /\ new.pending = old.pending /\ new.steps = old.steps
  <2>1. "preflight" \in AdStatus
    BY DEF AdStatus, AtWork
  <2> QED
    BY <2>1 DEF AdRun
<1>4. To(r, new) /\ catalog' \in [held : BOOLEAN, rows : SUBSET Row]
  BY <1>1, <1>2 DEF StartAt, AdmissionInv, AdmissionTypeOK
<1> HIDE DEF new
<1>5. VersionFits(new)
  <2>1. CASE old.version = 0
    BY <1>1, <1>2, <1>3, <2>1 DEF RunFits, VersionFits, Checked
  <2>2. CASE old.version # 0
    <3>1. old.version \in DOMAIN assistant
      BY <1>1, <2>2 DEF RunFits, VersionFits
    <3>2. assistant[old.version].enabled \in BOOLEAN
      BY <3>1, VersionRow DEF AdmissionInv
    <3> QED
      BY <1>2, <1>3, <3>1, <3>2 DEF VersionFits, Checked
  <2> QED
    BY <2>1, <2>2
<1>6. SelectionFits(new)
  BY <1>1, <1>3, AdmittedPhases DEF RunFits, SelectionFits
<1>7. ToolsFit(new)
  BY <1>1, <1>3 DEF RunFits, ToolsFit
<1>8. RunFits(new)
  BY <1>3, <1>5, <1>6, <1>7 DEF RunFits
<1> QED
  BY <1>4, <1>8, RunMoves

LEMMA ToolAllowed ==
  ASSUME NEW rec \in AdRun, NEW t \in Tools, Allowed(rec, t)
  PROVE  /\ rec.box[t] \in Class /\ rec.box[t] # "absent" /\ rec.version # 0
         /\ t \in assistant[rec.version].draft.tools
BY AdmissionAssumption DEF Allowed, AdRun

\* A step is added in the table and in memory alike.
LEMMA SteppedFits ==
  ASSUME NEW old, RunFits(old), old.pc \in Admitted, old.pc \in Checked, NEW rec \in AdRun,
         rec.version = old.version, rec.image = old.image, rec.off = old.off,
         rec.snapshot = old.snapshot, rec.steps = old.steps, rec.told = rec.steps,
         NEW t \in Tools, NEW approved \in Class, NEW done \in BOOLEAN,
         done => Gated(rec.version, [tool |-> t, class |-> rec.box[t], approved |-> approved,
                                     done |-> done])
  PROVE  RunFits(Stepped(rec, t, approved, done))
<1>1. rec.box[t] \in Class
  BY AdmissionAssumption DEF AdRun
<1>2. PICK step \in Step : /\ step = [tool |-> t, class |-> rec.box[t], approved |-> approved,
                                      done |-> done]
                           /\ step.done = done
  <2> DEFINE e == [tool |-> t, class |-> rec.box[t], approved |-> approved, done |-> done]
  <2>1. e \in Step /\ e.done = done
    BY <1>1 DEF Step
  <2>2. e = [tool |-> t, class |-> rec.box[t], approved |-> approved, done |-> done]
    OBVIOUS
  <2> HIDE DEF e
  <2> QED
    BY <2>1, <2>2
<1>3. rec.steps \in Seq(Step) /\ rec.told \in Seq(Step)
  BY DEF AdRun
<1>4. PICK steps \in Seq(Step) :
        /\ steps = Append(rec.steps, step)
        /\ \A n \in DOMAIN steps :
             (n \in DOMAIN rec.steps /\ steps[n] = rec.steps[n]) \/ steps[n] = step
  <2>1. /\ Append(rec.steps, step) \in Seq(Step)
        /\ \A n \in DOMAIN Append(rec.steps, step) :
             \/ n \in DOMAIN rec.steps /\ Append(rec.steps, step)[n] = rec.steps[n]
             \/ Append(rec.steps, step)[n] = step
    BY <1>3
  <2> QED
    BY <2>1
<1>5. /\ NoPending.decision = "none" /\ "loop" \in AdStatus
      /\ NoPending \in [tool : Tools \cup {"none"}, class : Class,
                        decision : {"none", "asked", "APPROVED", "REJECTED"}]
  BY DEF NoPending, Class, AdStatus, AtWork
<1> DEFINE new == [rec EXCEPT !.pc = "loop", !.pending = NoPending, !.steps = steps, !.told = steps]
<1>6. /\ new \in AdRun /\ new.pc = "loop" /\ new.version = rec.version /\ new.image = rec.image
      /\ new.off = rec.off /\ new.snapshot = rec.snapshot /\ new.pending = NoPending
      /\ new.steps = steps /\ new.told = steps
  BY <1>5 DEF AdRun
<1>7. Stepped(rec, t, approved, done) = new
  BY <1>2, <1>4 DEF Stepped
<1> HIDE DEF new
<1>8. VersionFits(new)
  BY <1>6 DEF RunFits, VersionFits, Checked
<1>9. SelectionFits(new)
  BY <1>6 DEF RunFits, SelectionFits
<1>10. ToolsFit(new)
  <2>1. ASSUME NEW n \in DOMAIN steps, steps[n].done PROVE Gated(new.version, steps[n])
    <3>1. CASE n \in DOMAIN rec.steps /\ steps[n] = rec.steps[n]
      BY <1>6, <2>1, <3>1 DEF RunFits, ToolsFit
    <3>2. CASE steps[n] = step
      BY <1>2, <1>6, <2>1, <3>2
    <3> QED
      BY <1>4, <3>1, <3>2
  <2> QED
    BY <1>5, <1>6, <2>1 DEF ToolsFit
<1>11. RunFits(new)
  BY <1>6, <1>8, <1>9, <1>10 DEF RunFits
<1> QED
  BY <1>7, <1>11

LEMMA ResumeRunKeeps ==
  ASSUME AdmissionInv, NEW r \in AdRuns, ResumeRun(r)
  PROVE  AdmissionInv'
<1>1. PICK old \in AdRun : old = adRun[r] /\ RunFits(old) /\ old.pc = "resume"
  BY DEF AdmissionInv, RunFits, ResumeRun, RunIsAt
<1>t. UNCHANGED catalog /\ catalog' \in [held : BOOLEAN, rows : SUBSET Row]
  BY DEF ResumeRun, AdmissionInv, AdmissionTypeOK
<1>p. "resume" \in Checked /\ "resume" \in Admitted /\ "loop" \in Admitted /\ "loop" \in AdStatus
  BY DEF Checked, Admitted, AdStatus, AtWork
<1>o. old.off = FALSE
  BY <1>1, <1>p DEF RunFits, VersionFits
<1> DEFINE rec == [old EXCEPT !.pc = "loop", !.told = old.steps]
<1>2. /\ rec \in AdRun /\ rec.pc = "loop" /\ rec.version = old.version /\ rec.image = old.image
      /\ rec.off = old.off /\ rec.snapshot = old.snapshot /\ rec.pending = old.pending
      /\ rec.steps = old.steps /\ rec.told = old.steps /\ rec.box = old.box
  BY <1>p DEF AdRun
<1>3. rec = [adRun[r] EXCEPT !.pc = "loop", !.told = Rounds(adRun[r].steps)]
  BY <1>1 DEF Rounds
<1>4. \/ rec.pending.decision = "none" /\ To(r, rec)
      \/ rec.pending.decision = "REJECTED" /\ To(r, Stepped(rec, rec.pending.tool, "absent", FALSE))
      \/ /\ rec.pending.decision \notin {"none", "REJECTED"} /\ StillTheTool(rec)
         /\ To(r, RunsTool(rec, rec.pending.tool, rec.pending.class))
      \/ Becomes(r, "FAILED")
  BY <1>3 DEF ResumeRun
<1> HIDE DEF rec
<1>5. PICK new \in AdRun : new = rec
  BY <1>2
<1>6. CASE To(r, rec)
  <2>1. RunFits(new)
    BY <1>1, <1>2, <1>5, <1>o, <1>p, RunStays
  <2> QED
    BY <1>t, <1>5, <1>6, <2>1, RunMoves
<1>7. CASE Becomes(r, "FAILED")
  BY <1>1, <1>7, <1>p, <1>t, AdmittedPhases, BecomesKeeps
<1>8. ASSUME rec.pending.decision # "none"
      PROVE  /\ new.pending.tool \in Tools /\ new.pending.class \in Class
             /\ new.pending.class # "absent" /\ new.version # 0
             /\ new.pending.tool \in assistant[new.version].draft.tools
  BY <1>1, <1>2, <1>5, <1>8 DEF RunFits, ToolsFit, AdRun
<1>9. CASE rec.pending.decision = "REJECTED" /\ To(r, Stepped(rec, rec.pending.tool, "absent", FALSE))
  <2>1. PICK t \in Tools : t = new.pending.tool
    BY <1>8, <1>9
  <2>2. "absent" \in Class /\ FALSE \in BOOLEAN
    BY DEF Class
  <2>3. RunFits(Stepped(new, t, "absent", FALSE))
    BY <1>1, <1>2, <1>5, <1>p, <2>2, SteppedFits
  <2>4. PICK x : x = Stepped(new, t, "absent", FALSE)
    OBVIOUS
  <2>5. RunFits(x) /\ To(r, x)
    BY <1>5, <1>9, <2>1, <2>3, <2>4
  <2> QED
    BY <1>t, <2>5, RunMoves
<1>10. CASE /\ rec.pending.decision \notin {"none", "REJECTED"} /\ StillTheTool(rec)
            /\ To(r, RunsTool(rec, rec.pending.tool, rec.pending.class))
  <2>1. PICK t \in Tools, approved \in Class : t = new.pending.tool /\ approved = new.pending.class
    BY <1>8, <1>10
  <2>2. new.box[t] = approved /\ TRUE \in BOOLEAN
    BY <1>5, <1>10, <2>1 DEF StillTheTool
  <2>3. Gated(new.version, [tool |-> t, class |-> new.box[t], approved |-> approved, done |-> TRUE])
    BY <1>8, <1>10, <2>1, <2>2 DEF Gated
  <2>4. RunFits(Stepped(new, t, approved, TRUE))
    BY <1>1, <1>2, <1>5, <1>p, <2>2, <2>3, SteppedFits
  <2>5. PICK x : x = Stepped(new, t, approved, TRUE)
    OBVIOUS
  <2>6. RunFits(x) /\ To(r, x)
    BY <1>5, <1>10, <2>1, <2>4, <2>5 DEF RunsTool
  <2> QED
    BY <1>t, <2>6, RunMoves
<1> QED
  BY <1>4, <1>6, <1>7, <1>9, <1>10

LEMMA ProviderCallsToolKeeps ==
  ASSUME AdmissionInv, NEW r \in AdRuns, NEW t \in Tools, ProviderCallsTool(r, t)
  PROVE  AdmissionInv'
<1>1. PICK old \in AdRun : old = adRun[r] /\ RunFits(old) /\ old.pc = "asked"
  BY DEF AdmissionInv, RunFits, ProviderCallsTool, RunIsAt
<1>t. UNCHANGED catalog /\ catalog' \in [held : BOOLEAN, rows : SUBSET Row]
  BY DEF ProviderCallsTool, AdmissionInv, AdmissionTypeOK
<1>p. /\ {"asked", "FAILED", "WAITING_APPROVAL"} \subseteq Admitted /\ "asked" \in Checked
      /\ {"FAILED", "WAITING_APPROVAL"} \cap Checked = {} /\ Admitted \subseteq AdStatus
  BY DEF Admitted, AdStatus, AtWork, Checked
<1>o. old.told = old.steps
  BY <1>1 DEF RunFits, ToolsFit
<1>n. PICK n \in Nat : n = old.calls + 1
  BY <1>1 DEF AdRun
<1> DEFINE e == [old EXCEPT !.calls = n]
<1>2. /\ e \in AdRun /\ e.pc = "asked" /\ e.version = old.version /\ e.image = old.image
      /\ e.off = old.off /\ e.snapshot = old.snapshot /\ e.pending = old.pending
      /\ e.steps = old.steps /\ e.told = old.told /\ e.box = old.box
  BY <1>1 DEF AdRun
<1>3. e = [adRun[r] EXCEPT !.calls = @ + 1]
  BY <1>1, <1>n
<1> HIDE DEF e
<1>4. PICK rec \in AdRun : rec = e
  BY <1>2
<1>5. \/ Allowed(rec, t) /\ rec.box[t] = "SAFE" /\ To(r, RunsTool(rec, t, "absent"))
      \/ /\ Allowed(rec, t) /\ rec.box[t] # "SAFE"
         /\ To(r, [Forgets(rec) EXCEPT !.pc = "WAITING_APPROVAL",
                   !.pending = [tool |-> t, class |-> rec.box[t], decision |-> "asked"]])
      \/ To(r, [rec EXCEPT !.pc = "FAILED"])
  BY <1>3, <1>4 DEF ProviderCallsTool
<1>6. CASE Allowed(rec, t) /\ rec.box[t] = "SAFE" /\ To(r, RunsTool(rec, t, "absent"))
  <2>1. /\ rec.version # 0 /\ t \in assistant[rec.version].draft.tools
    BY <1>6, ToolAllowed
  <2>2. "absent" \in Class /\ TRUE \in BOOLEAN
    BY DEF Class
  <2>3. Gated(rec.version, [tool |-> t, class |-> rec.box[t], approved |-> "absent", done |-> TRUE])
    BY <1>6, <2>1 DEF Gated
  <2>4. RunFits(Stepped(rec, t, "absent", TRUE))
    BY <1>1, <1>2, <1>4, <1>o, <1>p, <2>2, <2>3, SteppedFits
  <2>5. PICK x : x = Stepped(rec, t, "absent", TRUE)
    OBVIOUS
  <2>6. RunFits(x) /\ To(r, x)
    BY <1>6, <2>4, <2>5 DEF RunsTool
  <2> QED
    BY <1>t, <2>6, RunMoves
<1>7. CASE /\ Allowed(rec, t) /\ rec.box[t] # "SAFE"
           /\ To(r, [Forgets(rec) EXCEPT !.pc = "WAITING_APPROVAL",
                     !.pending = [tool |-> t, class |-> rec.box[t], decision |-> "asked"]])
  <2>1. /\ rec.box[t] \in Class /\ rec.box[t] # "absent" /\ rec.version # 0
        /\ t \in assistant[rec.version].draft.tools
    BY <1>7, ToolAllowed
  <2>2. PICK pending \in [tool : Tools \cup {"none"}, class : Class,
                          decision : {"none", "asked", "APPROVED", "REJECTED"}] :
          /\ pending = [tool |-> t, class |-> rec.box[t], decision |-> "asked"]
          /\ pending.tool = t /\ pending.class = rec.box[t] /\ pending.decision = "asked"
    <3> DEFINE p == [tool |-> t, class |-> rec.box[t], decision |-> "asked"]
    <3>1. /\ p \in [tool : Tools \cup {"none"}, class : Class,
                    decision : {"none", "asked", "APPROVED", "REJECTED"}]
          /\ p.tool = t /\ p.class = rec.box[t] /\ p.decision = "asked"
      BY <2>1
    <3>2. p = [tool |-> t, class |-> rec.box[t], decision |-> "asked"]
      OBVIOUS
    <3> HIDE DEF p
    <3> QED
      BY <3>1, <3>2
  <2>3. NoModelRow \in Row /\ <<>> \in Seq(Step) /\ {} \in SUBSET Row
    BY AdmissionAssumption DEF NoModelRow, Row
  <2> DEFINE new == [rec EXCEPT !.missed = FALSE, !.rows = {}, !.told = <<>>, !.used = NoModelRow,
                                !.pc = "WAITING_APPROVAL", !.pending = pending]
  <2>4. /\ new \in AdRun /\ new.pc = "WAITING_APPROVAL" /\ new.version = old.version
        /\ new.image = old.image /\ new.off = old.off /\ new.snapshot = old.snapshot
        /\ new.pending = pending /\ new.steps = old.steps
    <3>1. "WAITING_APPROVAL" \in AdStatus
      BY <1>p
    <3> QED
      BY <1>2, <1>4, <2>3, <3>1 DEF AdRun
  <2>5. To(r, new)
    BY <1>7, <2>2 DEF Forgets
  <2> HIDE DEF new
  <2>6. VersionFits(new)
    BY <1>1, <1>p, <2>4 DEF RunFits, VersionFits
  <2>7. SelectionFits(new)
    BY <1>1, <1>p, <2>4 DEF RunFits, SelectionFits
  <2>8. ToolsFit(new)
    BY <1>1, <1>2, <1>4, <2>1, <2>2, <2>4 DEF RunFits, ToolsFit
  <2>9. RunFits(new)
    BY <2>4, <2>6, <2>7, <2>8 DEF RunFits
  <2> QED
    BY <1>t, <2>5, <2>9, RunMoves
<1>8. CASE To(r, [rec EXCEPT !.pc = "FAILED"])
  <2> DEFINE new == [rec EXCEPT !.pc = "FAILED"]
  <2>1. /\ new \in AdRun /\ new.pc = "FAILED" /\ new.version = old.version
        /\ new.image = old.image /\ new.off = old.off /\ new.snapshot = old.snapshot
        /\ new.pending = old.pending /\ new.steps = old.steps
    <3>1. "FAILED" \in AdStatus
      BY <1>p
    <3> QED
      BY <1>2, <1>4, <3>1 DEF AdRun
  <2>2. To(r, new)
    BY <1>8
  <2> HIDE DEF new
  <2>3. RunFits(new)
    BY <1>1, <1>p, <2>1, RunStays
  <2> QED
    BY <1>t, <2>2, <2>3, RunMoves
<1> QED
  BY <1>5, <1>6, <1>7, <1>8

LEMMA DecideToolKeeps ==
  ASSUME AdmissionInv, NEW r \in AdRuns, NEW decision \in {"APPROVED", "REJECTED"},
         DecideTool(r, decision)
  PROVE  AdmissionInv'
<1>1. PICK old \in AdRun : old = adRun[r] /\ RunFits(old) /\ old.pc = "WAITING_APPROVAL"
  BY DEF AdmissionInv, RunFits, DecideTool, RunIsAt
<1>t. UNCHANGED catalog /\ catalog' \in [held : BOOLEAN, rows : SUBSET Row]
  BY DEF DecideTool, AdmissionInv, AdmissionTypeOK
<1>2. PICK n \in Nat : n = IF old.attempts > 0 THEN old.attempts - 1 ELSE old.attempts
  <2>1. old.attempts \in Nat
    BY DEF AdRun
  <2>2. (IF old.attempts > 0 THEN old.attempts - 1 ELSE old.attempts) \in Nat
    BY <2>1
  <2> QED
    BY <2>2
<1>3. /\ {"QUEUED", "WAITING_APPROVAL"} \subseteq Admitted /\ "QUEUED" \notin Checked
      /\ Admitted \subseteq AdStatus
  BY DEF Admitted, AdStatus, Checked
<1>4. PICK pending \in [tool : Tools \cup {"none"}, class : Class,
                        decision : {"none", "asked", "APPROVED", "REJECTED"}] :
        /\ pending = [old.pending EXCEPT !.decision = decision]
        /\ pending.tool = old.pending.tool /\ pending.class = old.pending.class
        /\ pending.decision = decision
  <2> DEFINE p == [old.pending EXCEPT !.decision = decision]
  <2>1. /\ p \in [tool : Tools \cup {"none"}, class : Class,
                  decision : {"none", "asked", "APPROVED", "REJECTED"}]
        /\ p.tool = old.pending.tool /\ p.class = old.pending.class /\ p.decision = decision
    BY DEF AdRun
  <2>2. p = [old.pending EXCEPT !.decision = decision]
    OBVIOUS
  <2> HIDE DEF p
  <2> QED
    BY <2>1, <2>2
<1> DEFINE new == [old EXCEPT !.pc = "QUEUED", !.pending = pending, !.attempts = n]
<1>5. /\ new \in AdRun /\ new.pc = "QUEUED" /\ new.version = old.version
      /\ new.image = old.image /\ new.off = old.off /\ new.snapshot = old.snapshot
      /\ new.pending = pending /\ new.steps = old.steps
  <2>1. "QUEUED" \in AdStatus
    BY <1>3
  <2> QED
    BY <2>1 DEF AdRun
<1>6. To(r, new)
  BY <1>1, <1>2, <1>4 DEF DecideTool
<1> HIDE DEF new
<1>7. VersionFits(new)
  BY <1>1, <1>3, <1>5 DEF RunFits, VersionFits
<1>8. SelectionFits(new)
  BY <1>1, <1>3, <1>5 DEF RunFits, SelectionFits
<1>9. ToolsFit(new)
  BY <1>1, <1>4, <1>5 DEF RunFits, ToolsFit
<1>10. RunFits(new)
  BY <1>5, <1>7, <1>8, <1>9 DEF RunFits
<1> QED
  BY <1>t, <1>6, <1>10, RunMoves

-----------------------------------------------------------------------------
(* Submitting a run, and asking the catalogue.                              *)

LEMMA SubmitRunKeeps ==
  ASSUME AdmissionInv, NEW r \in AdRuns, NEW v \in 0 .. Len(assistant), NEW image \in BOOLEAN,
         SubmitRun(r, v, image)
  PROVE  AdmissionInv'
<1>t. /\ UNCHANGED catalog /\ catalog' \in [held : BOOLEAN, rows : SUBSET Row]
      /\ AdmissionTypeOK /\ (v = 0 \/ v \in DOMAIN assistant)
  BY DEF SubmitRun, AdmissionInv, AdmissionTypeOK
<1>n. v \in Nat
  BY <1>t DEF AdmissionTypeOK
<1>1. PICK todo \in Seq(Models) :
        /\ todo = IF v = 0 THEN <<>> ELSE assistant[v].draft.pins
        /\ v # 0 => todo # <<>> /\ \A n \in DOMAIN todo : Selected(v, todo[n])
  <2>1. CASE v = 0
    <3>1. <<>> \in Seq(Models)
      OBVIOUS
    <3>2. (IF v = 0 THEN <<>> ELSE assistant[v].draft.pins) = <<>>
      BY <2>1
    <3> QED
      BY <2>1, <3>1, <3>2
  <2>2. CASE v # 0
    <3>1. assistant[v].draft \in Drafts
      BY <1>t, <2>2, VersionRow
    <3>2. assistant[v].draft.pins \in Seq(Models) /\ assistant[v].draft.pins # <<>>
      BY <3>1, AdmissionAssumption DEF Draft
    <3>3. \A n \in DOMAIN assistant[v].draft.pins : Selected(v, assistant[v].draft.pins[n])
      BY DEF Selected
    <3> QED
      BY <2>2, <3>2, <3>3
  <2> QED
    BY <2>1, <2>2
<1>2. PICK pc \in {"rejected", "resolving"} :
        pc = IF v # 0 /\ ~assistant[v].enabled THEN "rejected" ELSE "resolving"
  OBVIOUS
<1> DEFINE new == [NewRun EXCEPT !.version = v, !.image = image, !.pc = pc, !.todo = todo]
<1>3. /\ new \in AdRun /\ new.pc = pc /\ new.version = v /\ new.off = FALSE /\ new.todo = todo
      /\ new.pending.decision = "none" /\ new.steps = <<>>
  <2>1. pc \in AdStatus
    BY DEF AdStatus
  <2> QED
    BY <1>n, <2>1, NewRunFits DEF AdRun
<1>4. To(r, new)
  BY <1>1, <1>2 DEF SubmitRun
<1> HIDE DEF new
<1>5. pc \notin Checked /\ pc \notin Admitted /\ pc \notin {"WAITING_APPROVAL", "loop", "asked"}
  BY DEF Checked, Admitted
<1>6. VersionFits(new)
  BY <1>t, <1>3, <1>5 DEF VersionFits
<1>7. SelectionFits(new)
  BY <1>1, <1>3, <1>5 DEF SelectionFits
<1>8. ToolsFit(new)
  BY <1>3, <1>5 DEF ToolsFit
<1>9. RunFits(new)
  BY <1>3, <1>6, <1>7, <1>8 DEF RunFits
<1> QED
  BY <1>t, <1>4, <1>9, RunMoves

\* A model that may be used: of the selection, or the default when there is none.
Chosen(rec, listed) ==
  /\ HasCredential(listed.slug)
  /\ rec.version = 0 => listed.slug \in {DefaultModel, MockModel}
  /\ rec.version # 0 => Selected(rec.version, listed.slug)

\* A run that is being resolved, as its record stands without what was read for it.
Resolving(rec) ==
  /\ rec \in AdRun /\ rec.pc = "resolving" /\ VersionFits(rec) /\ SelectionFits(rec) /\ ToolsFit(rec)

LEMMA BindFits ==
  ASSUME NEW rec, Resolving(rec), NEW listed \in Row, Chosen(rec, listed)
  PROVE  RunFits(Bind(rec, listed))
<1>1. {"rejected", "QUEUED"} \subseteq AdStatus /\ {"rejected", "QUEUED"} \cap Checked = {}
      /\ "rejected" \notin Admitted
  BY DEF AdStatus, Checked, Admitted
<1> DEFINE e1 == [rec EXCEPT !.pc = "rejected"]
           e2 == [rec EXCEPT !.pc = "QUEUED", !.snapshot = listed, !.todo = <<>>]
<1>2. /\ e1 \in AdRun /\ e1.pc = "rejected" /\ e1.version = rec.version /\ e1.off = rec.off
      /\ e1.pending = rec.pending /\ e1.steps = rec.steps
  BY <1>1 DEF Resolving, AdRun
<1>3. /\ e2 \in AdRun /\ e2.pc = "QUEUED" /\ e2.version = rec.version /\ e2.off = rec.off
      /\ e2.pending = rec.pending /\ e2.steps = rec.steps /\ e2.snapshot = listed
  <2>1. <<>> \in Seq(Models)
    OBVIOUS
  <2> QED
    BY <1>1, <2>1 DEF Resolving, AdRun
<1>4. Bind(rec, listed) = e1 \/ Bind(rec, listed) = e2
  BY DEF Bind
<1> HIDE DEF e1, e2
<1>5. RunFits(e1)
  <2>1. VersionFits(e1)
    BY <1>1, <1>2 DEF Resolving, VersionFits
  <2>2. SelectionFits(e1)
    BY <1>1, <1>2 DEF SelectionFits
  <2>3. ToolsFit(e1)
    BY <1>2 DEF Resolving, ToolsFit
  <2> QED
    BY <1>2, <2>1, <2>2, <2>3 DEF RunFits
<1>6. RunFits(e2)
  <2>1. VersionFits(e2)
    BY <1>1, <1>3 DEF Resolving, VersionFits
  <2>2. SelectionFits(e2)
    BY <1>3 DEF SelectionFits, Chosen
  <2>3. ToolsFit(e2)
    BY <1>3 DEF Resolving, ToolsFit
  <2> QED
    BY <1>3, <2>1, <2>2, <2>3 DEF RunFits
<1> QED
  BY <1>4, <1>5, <1>6

LEMMA BindAnyFits ==
  ASSUME NEW rec, Resolving(rec), NEW found \in SUBSET Row, \A listed \in found : Chosen(rec, listed)
  PROVE  RunFits(BindAny(rec, found))
<1>1. CASE found = {}
  <2> DEFINE e == [rec EXCEPT !.pc = "rejected"]
  <2>1. /\ e \in AdRun /\ e.pc = "rejected" /\ e.version = rec.version /\ e.off = rec.off
        /\ e.pending = rec.pending /\ e.steps = rec.steps
    <3>1. "rejected" \in AdStatus
      BY DEF AdStatus
    <3> QED
      BY <3>1 DEF Resolving, AdRun
  <2>2. BindAny(rec, found) = e
    BY <1>1 DEF BindAny
  <2> HIDE DEF e
  <2>3. "rejected" \notin Checked /\ "rejected" \notin Admitted
    BY DEF Checked, Admitted
  <2>4. VersionFits(e)
    BY <2>1, <2>3 DEF Resolving, VersionFits
  <2>5. SelectionFits(e)
    BY <2>1, <2>3 DEF SelectionFits
  <2>6. ToolsFit(e)
    BY <2>1 DEF Resolving, ToolsFit
  <2> QED
    BY <2>1, <2>2, <2>4, <2>5, <2>6 DEF RunFits
<1>2. CASE found # {}
  <2>1. (CHOOSE x \in found : TRUE) \in found
    BY <1>2
  <2>2. PICK listed \in Row : listed = (CHOOSE x \in found : TRUE) /\ Chosen(rec, listed)
    BY <2>1
  <2>3. BindAny(rec, found) = Bind(rec, listed)
    BY <1>2, <2>2 DEF BindAny
  <2> QED
    BY <2>2, <2>3, BindFits
<1> QED
  BY <1>1, <1>2

LEMMA ResolvedFits ==
  ASSUME NEW rec, Resolving(rec), NEW rows \in SUBSET Row
  PROVE  RunFits(Resolved(rec, rows))
<1>1. CASE rec.version = 0
  <2>1. DefaultRow(rows) \in SUBSET Row /\ \A listed \in DefaultRow(rows) : Chosen(rec, listed)
    BY <1>1 DEF DefaultRow, Usable, Chosen
  <2> QED
    BY <1>1, <2>1, BindAnyFits DEF Resolved
<1>2. CASE rec.version # 0
  <2>1. /\ rec.todo \in Seq(Models) /\ rec.todo # <<>>
        /\ \A n \in DOMAIN rec.todo : Selected(rec.version, rec.todo[n])
    BY <1>2 DEF Resolving, AdRun, SelectionFits
  <2>2. Selected(rec.version, Head(rec.todo))
    BY <2>1
  <2>3. CASE Usable(rows, Head(rec.todo)) = {} /\ Len(rec.todo) > 1
    <3>1. PICK todo \in Seq(Models) :
            /\ todo = Tail(rec.todo) /\ todo # <<>>
            /\ \A n \in DOMAIN todo : Selected(rec.version, todo[n])
      <4>1. /\ Tail(rec.todo) \in Seq(Models) /\ Tail(rec.todo) # <<>>
            /\ \A n \in DOMAIN Tail(rec.todo) :
                 n + 1 \in DOMAIN rec.todo /\ Tail(rec.todo)[n] = rec.todo[n + 1]
        <5>1. PICK s \in Seq(Models) : s = rec.todo /\ s # <<>> /\ Len(s) > 1
          BY <2>1, <2>3
        <5>2. /\ Tail(s) \in Seq(Models) /\ Len(Tail(s)) = Len(s) - 1 /\ Len(s) \in Nat
              /\ \A n \in 1 .. Len(Tail(s)) : Tail(s)[n] = s[n + 1]
          BY <5>1, HeadTailProperties
        <5>3. DOMAIN Tail(s) = 1 .. Len(Tail(s)) /\ DOMAIN s = 1 .. Len(s)
          BY <5>2
        <5>4. \A n \in DOMAIN Tail(s) : Tail(s)[n] = s[n + 1] /\ n + 1 \in DOMAIN s
          BY <5>2, <5>3
        <5>5. Tail(s) # <<>>
          BY <5>1, <5>2
        <5> QED
          BY <5>1, <5>2, <5>3, <5>4, <5>5
      <4> QED
        BY <2>1, <4>1
    <3> DEFINE e == [rec EXCEPT !.todo = todo]
    <3>2. /\ e \in AdRun /\ e.pc = rec.pc /\ e.version = rec.version /\ e.off = rec.off
          /\ e.pending = rec.pending /\ e.steps = rec.steps /\ e.todo = todo
      BY DEF Resolving, AdRun
    <3>3. Resolved(rec, rows) = e
      BY <1>2, <2>3, <3>1 DEF Resolved
    <3> HIDE DEF e
    <3>4. VersionFits(e)
      BY <3>2 DEF Resolving, VersionFits
    <3>5. SelectionFits(e)
      BY <3>1, <3>2 DEF Resolving, SelectionFits, Admitted
    <3>6. ToolsFit(e)
      BY <3>2 DEF Resolving, ToolsFit
    <3> QED
      BY <3>2, <3>3, <3>4, <3>5, <3>6 DEF RunFits
  <2>4. CASE ~(Usable(rows, Head(rec.todo)) = {} /\ Len(rec.todo) > 1)
    <3>1. PICK found \in SUBSET Row : found = Usable(rows, Head(rec.todo))
      BY DEF Usable
    <3>2. \A listed \in found : Chosen(rec, listed)
      BY <1>2, <2>2, <3>1 DEF Usable, Chosen
    <3>3. Resolved(rec, rows) = BindAny(rec, found)
      BY <1>2, <2>4, <3>1 DEF Resolved
    <3> QED
      BY <3>2, <3>3, BindAnyFits
  <2> QED
    BY <2>3, <2>4
<1> QED
  BY <1>1, <1>2

LEMMA PreparedFits ==
  ASSUME NEW rec, RunFits(rec), rec.pc = "loop", NEW rows \in SUBSET Row
  PROVE  RunFits(Prepared(rec, rows))
<1>p. /\ {"loop", "asked", "FAILED"} \subseteq Admitted /\ "loop" \in Checked
      /\ "FAILED" \notin Checked /\ Admitted \subseteq AdStatus
  BY DEF Admitted, AdStatus, AtWork, Checked
<1>1. rec \in AdRun /\ rec.off = FALSE /\ rec.told = rec.steps
  BY <1>p DEF RunFits, VersionFits, ToolsFit
<1>2. PICK found \in SUBSET Row :
        /\ found = {x \in Usable(rows, rec.snapshot.slug) : rec.image => x.vision}
        /\ \A x \in found : x.slug = rec.snapshot.slug /\ (rec.image => x.vision)
  <2> DEFINE F == {x \in Usable(rows, rec.snapshot.slug) : rec.image => x.vision}
  <2>1. F \in SUBSET Row /\ \A x \in F : x.slug = rec.snapshot.slug /\ (rec.image => x.vision)
    BY DEF Usable
  <2> HIDE DEF F
  <2>2. PICK found \in SUBSET Row :
          found = F /\ \A x \in found : x.slug = rec.snapshot.slug /\ (rec.image => x.vision)
    BY <2>1
  <2> QED
    BY <2>2 DEF F
<1>3. CASE found = {}
  <2> DEFINE e == [rec EXCEPT !.pc = "FAILED"]
  <2>1. /\ e \in AdRun /\ e.pc = "FAILED" /\ e.version = rec.version /\ e.image = rec.image
        /\ e.off = rec.off /\ e.snapshot = rec.snapshot /\ e.pending = rec.pending
        /\ e.steps = rec.steps
    <3>1. "FAILED" \in AdStatus
      BY <1>p
    <3> QED
      BY <1>1, <3>1 DEF AdRun
  <2>2. Prepared(rec, rows) = e
    BY <1>2, <1>3 DEF Prepared
  <2> HIDE DEF e
  <2> QED
    BY <1>p, <2>1, <2>2, RunStays
<1>4. CASE found # {}
  <2>1. PICK x \in found : x = (CHOOSE y \in found : TRUE)
    BY <1>4
  <2> DEFINE e == [rec EXCEPT !.pc = "asked", !.used = x]
  <2>2. /\ e \in AdRun /\ e.pc = "asked" /\ e.version = rec.version /\ e.image = rec.image
        /\ e.off = rec.off /\ e.snapshot = rec.snapshot /\ e.pending = rec.pending
        /\ e.steps = rec.steps /\ e.used = x /\ e.told = rec.told
    <3>1. "asked" \in AdStatus /\ x \in Row
      BY <1>p
    <3> QED
      BY <1>1, <3>1 DEF AdRun
  <2>3. Prepared(rec, rows) = e
    BY <1>2, <1>4, <2>1 DEF Prepared
  <2> HIDE DEF e
  <2>4. e.used.slug = e.snapshot.slug /\ (e.image => e.used.vision)
    BY <1>2, <2>2
  <2> QED
    BY <1>1, <1>p, <2>2, <2>3, <2>4, RunStays
<1> QED
  BY <1>3, <1>4

\* What a run read of the catalogue is not part of what it must keep.
LEMMA RereadFits ==
  ASSUME NEW old, RunFits(old), NEW missed \in BOOLEAN, NEW rows \in SUBSET Row
  PROVE  LET new == [old EXCEPT !.missed = missed, !.rows = rows] IN
         RunFits(new) /\ new.pc = old.pc
<1> DEFINE e == [old EXCEPT !.missed = missed, !.rows = rows]
<1>1. /\ e \in AdRun /\ e.pc = old.pc /\ e.version = old.version /\ e.image = old.image
      /\ e.off = old.off /\ e.snapshot = old.snapshot /\ e.pending = old.pending
      /\ e.steps = old.steps /\ e.used = old.used /\ e.told = old.told /\ e.todo = old.todo
  BY DEF RunFits, AdRun
<1> HIDE DEF e
<1>2. VersionFits(e)
  BY <1>1 DEF RunFits, VersionFits
<1>3. SelectionFits(e)
  BY <1>1 DEF RunFits, SelectionFits
<1>4. ToolsFit(e)
  BY <1>1 DEF RunFits, ToolsFit
<1>5. RunFits(e) /\ e.pc = old.pc
  BY <1>1, <1>2, <1>3, <1>4 DEF RunFits
<1> QED
  BY <1>5 DEF e

LEMMA GivenKeeps ==
  ASSUME AdmissionInv, NEW r \in AdRuns, Reads(r), NEW rows \in SUBSET Row, Given(r, rows),
         catalog' \in [held : BOOLEAN, rows : SUBSET Row]
  PROVE  AdmissionInv'
<1>1. PICK old : old = adRun[r] /\ RunFits(old) /\ old.pc \in {"resolving", "loop"}
  BY DEF AdmissionInv, Reads, RunIsAt
<1>2. PICK rec : rec = [old EXCEPT !.missed = FALSE, !.rows = {}]
  OBVIOUS
<1>3. RunFits(rec) /\ rec.pc = old.pc
  <2>1. FALSE \in BOOLEAN /\ {} \in SUBSET Row
    OBVIOUS
  <2> QED
    BY <1>1, <1>2, <2>1, RereadFits
<1>4. PICK new : new = IF rec.pc = "resolving" THEN Resolved(rec, rows) ELSE Prepared(rec, rows)
  OBVIOUS
<1>5. RunFits(new)
  <2>1. CASE rec.pc = "resolving"
    <3>1. Resolving(rec)
      BY <1>3, <2>1 DEF RunFits, Resolving
    <3> QED
      BY <1>4, <2>1, <3>1, ResolvedFits
  <2>2. CASE rec.pc = "loop"
    BY <1>3, <1>4, <2>2, PreparedFits
  <2> QED
    BY <1>1, <1>3, <2>1, <2>2
<1>6. To(r, new)
  BY <1>1, <1>2, <1>4 DEF Given
<1> QED
  BY <1>5, <1>6, RunMoves

LEMMA CatalogReadsKeep ==
  ASSUME AdmissionInv, NEW r \in AdRuns, CatalogHit(r) \/ CatalogMiss(r) \/ CatalogStore(r)
  PROVE  AdmissionInv'
<1>t. AdmissionTypeOK /\ RunFits(adRun[r])
  BY DEF AdmissionInv
<1>1. CASE CatalogHit(r)
  <2>1. PICK rows \in SUBSET Row : rows = catalog.rows
    BY <1>t DEF AdmissionTypeOK
  <2>2. Given(r, rows) /\ Reads(r) /\ catalog' \in [held : BOOLEAN, rows : SUBSET Row]
    BY <1>1, <1>t, <2>1 DEF CatalogHit, AdmissionTypeOK
  <2> QED
    BY <2>2, GivenKeeps
<1>2. CASE CatalogMiss(r)
  <2>1. Rows \in SUBSET Row
    <3>1. model \in [Models -> [enabled : BOOLEAN, vision : BOOLEAN]]
      BY <1>t DEF AdmissionTypeOK
    <3>2. \A m \in Models : [slug |-> m, vision |-> model[m].vision] \in Row
      BY <3>1 DEF Row
    <3> QED
      BY <3>2 DEF Rows
  <2>2. PICK rows \in SUBSET Row : rows = Rows
    BY <2>1
  <2>3. PICK old : old = adRun[r] /\ RunFits(old)
    BY <1>t
  <2>4. PICK new : new = [old EXCEPT !.missed = TRUE, !.rows = rows]
    OBVIOUS
  <2>5. RunFits(new)
    <3>1. TRUE \in BOOLEAN
      OBVIOUS
    <3> QED
      BY <2>3, <2>4, <3>1, RereadFits
  <2>6. To(r, new) /\ catalog' \in [held : BOOLEAN, rows : SUBSET Row]
    BY <1>2, <1>t, <2>2, <2>3, <2>4 DEF CatalogMiss, AdmissionTypeOK
  <2> QED
    BY <2>5, <2>6, RunMoves
<1>3. CASE CatalogStore(r)
  <2>1. PICK rows \in SUBSET Row : rows = adRun[r].rows
    BY <1>t DEF RunFits, AdRun
  <2>2. Given(r, rows) /\ Reads(r) /\ catalog' = [held |-> TRUE, rows |-> rows]
    BY <1>3, <2>1 DEF CatalogStore
  <2>3. catalog' \in [held : BOOLEAN, rows : SUBSET Row]
    BY <2>2
  <2> QED
    BY <2>2, <2>3, GivenKeeps
<1> QED
  BY <1>1, <1>2, <1>3

LEMMA AdmissionSteps == AdmissionInv /\ [AdmissionNext]_admissionVars => AdmissionInv'
<1> SUFFICES ASSUME AdmissionInv, [AdmissionNext]_admissionVars PROVE AdmissionInv'
  OBVIOUS
<1>1. CASE UNCHANGED admissionVars
  BY <1>1, CatalogMoves DEF admissionVars, AdmissionInv, AdmissionTypeOK
<1>2. CASE \E e \in Editors, d \in Drafts, enabled \in BOOLEAN : DraftVersion(e, d, enabled)
  BY <1>2, DraftVersionKeeps
<1>3. CASE \E e \in Editors, v \in DOMAIN assistant, set \in Switch, renames \in BOOLEAN :
             PlanUpdate(e, v, set, renames)
  <2>1. PICK e \in Editors, v \in DOMAIN assistant, set \in Switch, renames \in BOOLEAN :
          PlanUpdate(e, v, set, renames)
    BY <1>3
  <2> QED
    BY <2>1, PlanUpdateKeeps
<1>4. CASE \E e \in Editors : WriteVersion(e) \/ WriteUpdate(e)
  BY <1>4, WriteVersionKeeps, WriteUpdateKeeps
<1>5. CASE \E m \in Credentialed \ {MockModel}, enabled, vision \in BOOLEAN :
             EditModel(m, enabled, vision)
  BY <1>5, EditModelKeeps, AdmissionAssumption
<1>6. CASE CopyGoes
  BY <1>6, CopyGoesKeeps
<1>7. CASE \E r \in AdRuns, v \in 0 .. Len(assistant), image \in BOOLEAN : SubmitRun(r, v, image)
  BY <1>7, SubmitRunKeeps
<1>8. CASE \E r \in AdRuns : CatalogHit(r) \/ CatalogMiss(r) \/ CatalogStore(r)
  BY <1>8, CatalogReadsKeep
<1>9. CASE \E r \in AdRuns, box \in Releases : StartAt(r, box)
  BY <1>9, StartAtKeeps
<1>10. CASE \E r \in AdRuns :
              \/ Preflight(r) \/ (\E verdict \in Verdict : InputGuards(r, verdict))
              \/ FetchArtifacts(r) \/ Exhausted(r) \/ AttemptDies(r)
              \/ (\E fault \in Fault : ProviderFails(r, fault))
              \/ (\E reply \in ProviderReply : ProviderAnswers(r, reply))
  BY <1>10, AttemptsKeep
<1>11. CASE \E r \in AdRuns : ResumeRun(r)
  BY <1>11, ResumeRunKeeps
<1>12. CASE \E r \in AdRuns, t \in Tools : ProviderCallsTool(r, t)
  BY <1>12, ProviderCallsToolKeeps
<1>13. CASE \E r \in AdRuns, decision \in {"APPROVED", "REJECTED"} : DecideTool(r, decision)
  BY <1>13, DecideToolKeeps
<1> QED
  BY <1>1, <1>2, <1>3, <1>4, <1>5, <1>6, <1>7, <1>8, <1>9, <1>10, <1>11, <1>12, <1>13
     DEF AdmissionNext

\* The invariant of the assistants, the catalogue and the runs, for every number of each.
THEOREM AdmissionInvariant == AdmissionSpec => []AdmissionInv
BY AdmissionStarts, AdmissionSteps, PTL DEF AdmissionSpec

\* The kill switch, the selection, the gates of the tools, the transcript across attempts, and
\* the audit trail of the versions.
THEOREM AdmissionHolds == AdmissionSpec => []AdmissionIsSound
<1>1. ASSUME AdmissionInv PROVE AdmissionIsSound
  <2>1. \A r \in AdRuns : RunFits(adRun[r])
    BY <1>1 DEF AdmissionInv
  <2>2. KillSwitchHolds
    BY <2>1 DEF KillSwitchHolds, RunIsAt, RunFits, VersionFits, Checked
  <2>3. SelectionIsKept
    <3>1. \A r \in AdRuns : adRun[r].pc \notin {"NONE", "resolving", "rejected"} =>
            adRun[r].pc \in Admitted
      BY <2>1 DEF RunFits, AdRun, Admitted
    <3> QED
      BY <2>1, <3>1 DEF SelectionIsKept, RunIsAt, RunFits, SelectionFits, Selected
  <2>4. ToolsStayGated
    BY <2>1 DEF ToolsStayGated, RunFits, ToolsFit, Gated
  <2>5. TranscriptSurvives
    BY <2>1 DEF TranscriptSurvives, RunIsAt, RunFits, ToolsFit
  <2>6. ASSUME NEW v \in DOMAIN assistant
        PROVE  Cardinality({n \in EntriesOf(v) :
                              trail[n].action \in {"created", "version_published"}}) = 1
    <3>1. PICK n \in EntriesOf(v) : Published(n) /\ \A k \in EntriesOf(v) : Published(k) => k = n
      BY <1>1 DEF AdmissionInv, TrailFits
    <3>2. {k \in EntriesOf(v) : trail[k].action \in {"created", "version_published"}} = {n}
      BY <3>1 DEF Published
    <3> QED
      BY <3>2, FS_Singleton
  <2>7. TrailShowsTheSwitch
    BY <1>1, <2>6 DEF TrailShowsTheSwitch, AdmissionInv, TrailFits
  <2> QED
    BY <2>2, <2>3, <2>4, <2>5, <2>7 DEF AdmissionIsSound
<1> QED
  BY <1>1, AdmissionInvariant, PTL

-----------------------------------------------------------------------------
(* BackgroundMC.                                                           *)

\* The components share no state: whichever of them moves, each behaves as it does alone.
LEMMA BackgroundCompose ==
  BackgroundSpec =>
    /\ AvatarSpec /\ CronSpec /\ StorageSpec /\ FeedSpec /\ EmailSpec /\ DeliverySpec
    /\ TalkSpec /\ AdmissionSpec
<1> DEFINE vars == <<focus, avatarVars, cronVars, storageVars, feedVars, emailVars, deliveryVars,
                     talkVars, admissionVars>>
<1>1. BackgroundInit =>
        /\ AvatarInit /\ CronInit /\ StorageInit /\ FeedInit /\ EmailInit /\ DeliveryInit
        /\ TalkInit /\ AdmissionInit
  BY DEF BackgroundInit
<1>2. BackgroundNext \/ UNCHANGED vars =>
        /\ AvatarNext \/ UNCHANGED avatarVars
        /\ CronNext \/ UNCHANGED cronVars
        /\ StorageNext \/ UNCHANGED storageVars
        /\ FeedNext \/ UNCHANGED feedVars
        /\ EmailNext \/ UNCHANGED emailVars
        /\ DeliveryNext \/ UNCHANGED deliveryVars
        /\ TalkNext \/ UNCHANGED talkVars
        /\ AdmissionNext \/ UNCHANGED admissionVars
  BY DEF BackgroundNext, CleanupNext, BatchesNext, ChannelsNext, RetriesNext, AssistantNext,
         EditingNext
<1>3. [BackgroundNext]_vars =>
        /\ [AvatarNext]_avatarVars /\ [CronNext]_cronVars /\ [StorageNext]_storageVars
        /\ [FeedNext]_feedVars /\ [EmailNext]_emailVars /\ [DeliveryNext]_deliveryVars
        /\ [TalkNext]_talkVars /\ [AdmissionNext]_admissionVars
  BY <1>2
<1> QED
  BY <1>1, <1>3, PTL DEF BackgroundSpec, AvatarSpec, CronSpec, StorageSpec, FeedSpec, EmailSpec,
                         DeliverySpec, TalkSpec, AdmissionSpec

\* Whichever of them moves, every record keeps the shape its schema gives it.
THEOREM BackgroundTypesHold == BackgroundSpec => []BackgroundTypesOK
<1>1. AvatarInv /\ CronInv /\ StorageInv /\ FeedInv /\ EmailInv /\ DeliveryInv /\ TalkInv
        /\ AdmissionInv => BackgroundTypesOK
  BY DEF AvatarInv, CronInv, StorageInv, FeedInv, EmailInv, DeliveryInv, TalkInv, AdmissionInv,
         BackgroundTypesOK
<1> QED
  BY <1>1, BackgroundCompose, AvatarInvariant, CronInvariant, StorageInvariant, FeedInvariant,
     EmailInvariant, DeliveryInvariant, TalkInvariant, AdmissionInvariant, PTL

\* The singleton cron, with the other workers of the background moving or not.
THEOREM SingletonHolds == BackgroundSpec => []CronIsSound
BY BackgroundCompose, CronHolds, PTL

\* Whatever else moves, the image a user's row points at is in the storage, and the storage
\* answers, pages and sweeps as its interface promises.
THEOREM StorageSound == BackgroundSpec => []StorageIsSound
<1>1. AvatarMatchesStorage /\ StorageKeepsItsPromises => StorageIsSound
  BY DEF StorageIsSound
<1> QED
  BY <1>1, BackgroundCompose, AvatarHolds, StorageHolds, PTL

\* Whatever else moves, the feed, the mail queue and the channels' deliverers keep their word.
THEOREM NotificationsSound == BackgroundSpec => []NotificationsAreSound
<1>1. FeedIsSound /\ EmailIsSound /\ DeliveryIsSound => NotificationsAreSound
  BY DEF NotificationsAreSound
<1> QED
  BY <1>1, BackgroundCompose, FeedHolds, EmailHolds, DeliveryHolds, PTL

\* Whatever else moves, a conversation's transcript and the runs the catalogue admits are sound.
THEOREM AssistantSound == BackgroundSpec => []AssistantIsSound
<1>1. TalkIsSound /\ AdmissionIsSound => AssistantIsSound
  BY DEF AssistantIsSound
<1> QED
  BY <1>1, BackgroundCompose, TalkHolds, AdmissionHolds, PTL

=============================================================================
