----------------------- MODULE SessionRotationProofs -----------------------
(***************************************************************************)
(* Safety of SessionRotation for any number of requests, rows and acts.    *)
(*                                                                         *)
(* OneLivePerFamily is not inductive: a rotation is about to insert a      *)
(* second live row and only the lock on the first one, together with the   *)
(* re-test under that lock, makes the hand-over exclusive.  LockedOnce and *)
(* Sound say so; RowsSound says that a family is named by a row that       *)
(* exists, so that a login never joins one; Clock, that no family was      *)
(* proven later than now.                                                  *)
(***************************************************************************)
EXTENDS SessionRotation, TLAPS

RowsSound ==
  \A s \in Rows :
    /\ row[s].state = "free" <=> row[s].family = 0
    /\ row[s].state # "free" => row[row[s].family].state # "free"

Clock == \A f \in Rows : proven[f] <= acts

\* What a request in flight may rely on.
Sound(r) ==
  /\ r.row # 0 => row[r.row].state # "free"
  /\ r.pc \in {"guard", "drop", "rotate", "cas", "insert"} \/ r.op = "family" => r.row # 0
  /\ \A s \in r.todo : row[s].state # "free"
  /\ r.pc \in {"cas", "insert"} => r.auth <= proven[row[r.row].family]
  /\ r.pc = "insert" => Live(r.row)

RequestsSound == \A q \in Requests : Sound(req[q])

\* Two rotations never hold the same row.
LockedOnce ==
  \A p, q \in Requests :
    At(p, "insert") /\ At(q, "insert") /\ req[p].row = req[q].row => p = q

IInv ==
  /\ TypeOK /\ RowsSound /\ Clock /\ RequestsSound /\ LockedOnce
  /\ OneLivePerFamily /\ NeverRenewed

-----------------------------------------------------------------------------
(* Facts about rows and fresh rows.                                        *)

LEMMA IdleType == Idle \in Request
BY DEF Idle, Request, Pc, Op

LEMMA NewSessionType ==
  ASSUME NEW f \in Rows, NEW a \in Nat
  PROVE  NewSession(f, a) \in Session
BY DEF NewSession, Session, RowState

LEMMA FreshIsFree ==
  ASSUME NEW n \in Fresh
  PROVE  n \in Rows /\ row[n].state = "free"
BY DEF Fresh, Free

LEMMA RowsArePositive ==
  ASSUME NEW s \in Rows
  PROVE  s # 0
BY BoundsAssumption DEF Rows

\* The family of a row that exists is a row that exists.
LEMMA FamilyExists ==
  ASSUME TypeOK, RowsSound, NEW s \in Rows, row[s].state # "free"
  PROVE  row[s].family \in Rows /\ row[row[s].family].state # "free"
BY DEF TypeOK, RowsSound, Session

-----------------------------------------------------------------------------
(* Steps that change no row.                                               *)

\* A request moves on to a state it may be in, and takes a lock only if nobody has it.
LEMMA RequestStep ==
  ASSUME IInv, NEW q \in Requests, NEW r \in Request,
         req' = [req EXCEPT ![q] = r], UNCHANGED <<row, acts, proven>>,
         Sound(r), r.pc = "insert" => ~Locked(r.row),
         caught' \subseteq Rows, wiped' \subseteq Rows
  PROVE  IInv'
<1>1. TypeOK'
  BY DEF IInv, TypeOK
<1>2. RowsSound' /\ Clock' /\ OneLivePerFamily' /\ NeverRenewed'
  BY DEF IInv, RowsSound, Clock, OneLivePerFamily, NeverRenewed, Live
<1>3. RequestsSound'
  BY DEF IInv, TypeOK, RequestsSound, Sound, Live
<1>4. LockedOnce'
  BY DEF IInv, TypeOK, LockedOnce, At, Locked
<1> QED
  BY <1>1, <1>2, <1>3, <1>4 DEF IInv

LEMMA ReturnStep ==
  ASSUME IInv, NEW q \in Requests, Return(q), UNCHANGED <<row, acts, proven>>,
         caught' \subseteq Rows, wiped' \subseteq Rows
  PROVE  IInv'
<1>1. Sound(Idle) /\ Idle.pc # "insert"
  BY DEF Sound, Idle
<1> QED
  BY <1>1, IdleType, RequestStep DEF Return

\* The program counter moves and nothing else.
LEMMA GotoStep ==
  ASSUME IInv, NEW q \in Requests, NEW pc \in Pc, Goto(q, pc),
         UNCHANGED <<row, acts, proven, caught, wiped>>,
         req[q].row # 0,
         pc \in {"cas", "insert"} => req[q].auth <= proven[row[req[q].row].family],
         pc = "insert" => Live(req[q].row) /\ ~Locked(req[q].row)
  PROVE  IInv'
<1> DEFINE r == [req[q] EXCEPT !.pc = pc]
<1>1. req[q] \in Request /\ Sound(req[q])
  BY DEF IInv, TypeOK, RequestsSound
<1>2. r \in Request /\ r.pc = pc /\ r.row = req[q].row /\ r.op = req[q].op
      /\ r.todo = req[q].todo /\ r.auth = req[q].auth
  BY <1>1 DEF Request
<1>3. Sound(r)
  BY <1>1, <1>2 DEF Sound
<1>4. req' = [req EXCEPT ![q] = r]
  BY DEF Goto, IInv, TypeOK
<1>5. caught' \subseteq Rows /\ wiped' \subseteq Rows
  BY DEF IInv, TypeOK
<1> HIDE DEF r
<1> QED
  BY <1>2, <1>3, <1>4, <1>5, RequestStep

LEMMA RefreshStep ==
  ASSUME IInv, NEW q \in Requests, NEW s \in Rows, Refresh(q, s)
  PROVE  IInv'
<1> DEFINE r == [Idle EXCEPT !.pc = "guard", !.op = "refresh", !.row = s]
<1>1. r \in Request /\ r.pc = "guard" /\ r.op = "refresh" /\ r.row = s /\ r.todo = {}
  BY DEF Idle, Request, Pc, Op
<1>2. Sound(r)
  <2>1. s # 0 /\ row[s].state # "free"
    BY DEF Rows, Refresh
  <2> HIDE DEF r
  <2> QED
    BY <1>1, <2>1 DEF Sound
<1>3. /\ req' = [req EXCEPT ![q] = r] /\ UNCHANGED <<row, acts, proven>>
      /\ caught' \subseteq Rows /\ wiped' \subseteq Rows
  BY DEF Refresh, IInv, TypeOK
<1> HIDE DEF r
<1> QED
  BY <1>1, <1>2, <1>3, RequestStep

LEMMA ValidateStep ==
  ASSUME IInv, NEW q \in Requests, ValidateRefreshToken(q)
  PROVE  IInv'
<1>1. /\ req[q] \in Request /\ Sound(req[q]) /\ req[q].row # 0 /\ At(q, "guard")
      /\ UNCHANGED <<row, acts, proven, caught, wiped>>
      /\ caught' \subseteq Rows /\ wiped' \subseteq Rows
  BY DEF IInv, TypeOK, RequestsSound, Sound, ValidateRefreshToken, At
<1>2. CASE Return(q)
  BY <1>1, <1>2, ReturnStep
<1>3. CASE Goto(q, "drop") \/ Goto(q, "rotate")
  <2>1. "drop" \in Pc /\ "rotate" \in Pc
    BY DEF Pc
  <2> QED
    BY <1>1, <1>3, <2>1, GotoStep
<1>4. CASE req' = [req EXCEPT ![q] = [@ EXCEPT !.pc = "snapshot", !.op = "family"]]
  <2> DEFINE r == [req[q] EXCEPT !.pc = "snapshot", !.op = "family"]
  <2>1. r \in Request /\ r.pc = "snapshot" /\ r.row = req[q].row /\ r.todo = req[q].todo
    BY <1>1 DEF Request, Pc, Op
  <2>2. Sound(r)
    BY <1>1, <2>1 DEF Sound
  <2>3. req' = [req EXCEPT ![q] = r]
    BY <1>4 DEF IInv, TypeOK
  <2> HIDE DEF r
  <2> QED
    BY <1>1, <2>1, <2>2, <2>3, RequestStep
<1> QED
  BY <1>2, <1>3, <1>4 DEF ValidateRefreshToken

LEMMA RotateReadStep ==
  ASSUME IInv, NEW q \in Requests, RotateRead(q)
  PROVE  IInv'
<1> DEFINE s == req[q].row
<1>1. /\ req[q] \in Request /\ Sound(req[q]) /\ s \in Rows /\ row[s].state # "free"
      /\ UNCHANGED <<row, acts, proven, wiped>> /\ wiped' \subseteq Rows
  BY DEF IInv, TypeOK, RequestsSound, Sound, RotateRead, At, Request
<1>2. row[s].family \in Rows /\ caught \subseteq Rows
  BY <1>1, FamilyExists DEF IInv, TypeOK
<1>3. CASE Return(q)
  <2>1. caught' \subseteq Rows
    BY <1>2 DEF RotateRead
  <2> QED
    BY <1>1, <1>3, <2>1, ReturnStep
<1>4. CASE /\ Live(s) /\ UNCHANGED caught
           /\ req' = [req EXCEPT ![q] = [@ EXCEPT !.pc = "cas", !.auth = row[s].auth]]
  <2> DEFINE r == [req[q] EXCEPT !.pc = "cas", !.auth = row[s].auth]
  <2>1. row[s].auth \in Nat /\ row[s].auth <= proven[row[s].family]
    BY <1>1 DEF IInv, TypeOK, Session, NeverRenewed
  <2>2. /\ r \in Request /\ r.pc = "cas" /\ r.row = s /\ r.todo = req[q].todo
        /\ r.auth = row[s].auth /\ r.op = req[q].op
    BY <1>1, <2>1 DEF Request, Pc
  <2>3. Sound(r)
    <3>1. s # 0
      BY <1>1 DEF Rows
    <3> HIDE DEF r
    <3> QED
      BY <1>1, <2>1, <2>2, <3>1 DEF Sound
  <2>4. req' = [req EXCEPT ![q] = r]
    BY <1>4 DEF IInv, TypeOK
  <2> HIDE DEF r
  <2> QED
    BY <1>1, <1>2, <1>4, <2>2, <2>3, <2>4, RequestStep
<1> QED
  BY <1>3, <1>4 DEF RotateRead

LEMMA RotateCasStep ==
  ASSUME IInv, NEW q \in Requests, RotateCas(q)
  PROVE  IInv'
<1> DEFINE s == req[q].row
<1>1. /\ req[q] \in Request /\ Sound(req[q]) /\ s \in Rows /\ row[s].state # "free"
      /\ UNCHANGED <<row, acts, proven, wiped>> /\ wiped' \subseteq Rows /\ ~Locked(s)
      /\ req[q].auth <= proven[row[s].family]
  BY DEF IInv, TypeOK, RequestsSound, Sound, RotateCas, At, Request
<1>2. row[s].family \in Rows /\ caught \subseteq Rows
  BY <1>1, FamilyExists DEF IInv, TypeOK
<1>3. CASE Return(q)
  <2>1. caught' \subseteq Rows
    BY <1>2 DEF RotateCas
  <2> QED
    BY <1>1, <1>3, <2>1, ReturnStep
<1>4. CASE Live(s) /\ Goto(q, "insert") /\ UNCHANGED caught
  <2>1. "insert" \in Pc /\ s # 0
    BY <1>1 DEF Pc, Rows
  <2> QED
    BY <1>1, <1>4, <2>1, GotoStep
<1> QED
  BY <1>3, <1>4 DEF RotateCas

LEMMA StartBulkStep ==
  ASSUME IInv, NEW q \in Requests, NEW op \in {"all", "others", "expired"},
         NEW s \in Rows \cup {0}, StartBulk(q, op, s)
  PROVE  IInv'
<1> DEFINE r == [Idle EXCEPT !.pc = "snapshot", !.op = op, !.row = s]
<1>1. r \in Request /\ r.pc = "snapshot" /\ r.op = op /\ r.row = s /\ r.todo = {}
  BY DEF Idle, Request, Pc, Op
<1>2. Sound(r)
  BY <1>1 DEF Sound, StartBulk
<1>3. /\ req' = [req EXCEPT ![q] = r] /\ UNCHANGED <<row, acts, proven>>
      /\ caught' \subseteq Rows /\ wiped' \subseteq Rows
  BY DEF StartBulk, IInv, TypeOK
<1> HIDE DEF r
<1> QED
  BY <1>1, <1>2, <1>3, RequestStep

LEMMA BulkSnapshotStep ==
  ASSUME IInv, NEW q \in Requests, BulkSnapshot(q)
  PROVE  IInv'
<1> DEFINE S == {s \in Rows : Matches(q, s)}
           r == [req[q] EXCEPT !.pc = "bulk", !.todo = S]
<1>1. /\ req[q] \in Request /\ Sound(req[q])
      /\ caught' \subseteq Rows /\ wiped' \subseteq Rows
  BY DEF IInv, TypeOK, RequestsSound, BulkSnapshot
<1>2. \A s \in S : row[s].state # "free"
  BY DEF Matches, Live, Exists
<1>3. /\ r \in Request /\ r.pc = "bulk" /\ r.row = req[q].row /\ r.todo = S
      /\ r.op = req[q].op
  BY <1>1 DEF Request, Pc
<1>4. Sound(r)
  BY <1>1, <1>2, <1>3 DEF Sound
<1>5. req' = [req EXCEPT ![q] = r] /\ UNCHANGED <<row, acts, proven>>
  BY DEF BulkSnapshot, IInv, TypeOK
<1> HIDE DEF r
<1> QED
  BY <1>1, <1>3, <1>4, <1>5, RequestStep

-----------------------------------------------------------------------------
(* Steps that change rows.                                                 *)

\* Rows keep their family and never become free, families are proven ever later, and the
\* row that a rotation has marked stays live: then every request stays sound.
LEMMA RowsAge ==
  ASSUME IInv, TypeOK',
         \A p \in Requests : req'[p] = req[p] \/ req'[p] = Idle,
         \A s \in Rows : row[s].state # "free" =>
           row'[s].state # "free" /\ row'[s].family = row[s].family,
         \A f \in Rows : proven[f] <= proven'[f],
         \A p \in Requests : req'[p].pc = "insert" => row'[req[p].row].state = "live"
  PROVE  RequestsSound' /\ LockedOnce'
<1>1. RequestsSound'
  <2> SUFFICES ASSUME NEW p \in Requests
               PROVE  Sound(req[p])'
    BY DEF RequestsSound
  <2>1. CASE req'[p] = Idle
    BY <2>1 DEF Sound, Idle
  <2>2. CASE req'[p] = req[p]
    <3> DEFINE s == req[p].row
    <3>1. req[p] \in Request /\ Sound(req[p])
      BY DEF IInv, TypeOK, RequestsSound
    <3>2. s # 0 => s \in Rows /\ row'[s].state # "free"
      BY <3>1 DEF Request, Sound
    <3>3. \A t \in req[p].todo : row'[t].state # "free"
      BY <3>1 DEF Request, Sound
    <3>4. ASSUME req[p].pc \in {"cas", "insert"}
          PROVE  req[p].auth <= proven'[row'[s].family]
      <4>1. s \in Rows /\ row[s].state # "free" /\ req[p].auth <= proven[row[s].family]
        BY <3>1, <3>4 DEF Request, Sound
      <4>2. row'[s].family = row[s].family /\ row[s].family \in Rows
        BY <4>1, FamilyExists DEF IInv
      <4>3. req[p].auth \in Nat /\ proven[row[s].family] \in Nat /\ proven'[row[s].family] \in Nat
        BY <3>1, <4>2 DEF Request, IInv, TypeOK
      <4> QED
        BY <4>1, <4>2, <4>3
    <3> QED
      BY <2>2, <3>1, <3>2, <3>3, <3>4 DEF Sound, Live
  <2> QED
    BY <2>1, <2>2
<1>2. LockedOnce'
  BY DEF IInv, LockedOnce, At, Idle
<1> QED
  BY <1>1, <1>2

\* Rows only leave the live state or expire.
LEMMA FadeStep ==
  ASSUME IInv, TypeOK', UNCHANGED <<acts, proven>>,
         \A p \in Requests : req'[p] = req[p] \/ req'[p] = Idle,
         \A s \in Rows :
           /\ row'[s].family = row[s].family /\ row'[s].auth = row[s].auth
           /\ \/ row'[s].state = row[s].state
              \/ row[s].state # "free" /\ row'[s].state \notin {"free", "live"},
         \A p \in Requests : req'[p].pc = "insert" =>
           row'[req[p].row].state = row[req[p].row].state
  PROVE  IInv'
<1>1. RowsSound'
  <2>1. \A s \in Rows : row'[s].state = "free" <=> row[s].state = "free"
    OBVIOUS
  <2>2. \A s \in Rows : row[s].state # "free" =>
          row[s].family \in Rows /\ row[row[s].family].state # "free"
    BY FamilyExists DEF IInv
  <2> QED
    BY <2>1, <2>2 DEF IInv, RowsSound
<1>2. Clock' /\ OneLivePerFamily' /\ NeverRenewed'
  BY DEF IInv, Clock, OneLivePerFamily, NeverRenewed, Live
<1>3. \A p \in Requests : req'[p].pc = "insert" => row'[req[p].row].state = "live"
  BY DEF IInv, RequestsSound, Sound, Live, Idle
<1>4. \A f \in Rows : proven[f] <= proven'[f]
  BY DEF IInv, TypeOK
<1>5. RequestsSound' /\ LockedOnce'
  BY <1>3, <1>4, RowsAge
<1> QED
  BY <1>1, <1>2, <1>5 DEF IInv

LEMMA ExpiresStep ==
  ASSUME IInv, NEW s \in Rows, Expires(s)
  PROVE  IInv'
<1>1. row[s] \in Session
  BY DEF IInv, TypeOK
<1>2. TypeOK'
  BY <1>1 DEF IInv, TypeOK, Expires, Session
<1>3. \A t \in Rows : /\ row'[t].family = row[t].family /\ row'[t].auth = row[t].auth
                      /\ row'[t].state = row[t].state
  BY <1>1 DEF IInv, TypeOK, Expires, Session
<1>4. \A p \in Requests : req[p].pc = "insert" => req[p].row \in Rows
  BY DEF IInv, TypeOK, RequestsSound, Sound, Request
<1> QED
  BY <1>2, <1>3, <1>4, FadeStep DEF Expires

\* One unlocked row that exists is deleted.
LEMMA DeleteRow ==
  ASSUME IInv, NEW s \in Rows, row[s].state # "free", ~Locked(s),
         row' = [row EXCEPT ![s].state = "deleted"],
         \A p \in Requests : req'[p] = req[p] \/ req'[p] = Idle,
         req' \in [Requests -> Request], UNCHANGED <<acts, proven, caught, wiped>>
  PROVE  IInv'
<1>1. row[s] \in Session
  BY DEF IInv, TypeOK
<1>2. TypeOK'
  BY <1>1 DEF IInv, TypeOK, Session, RowState
<1>3. \A t \in Rows :
        /\ row'[t].family = row[t].family /\ row'[t].auth = row[t].auth
        /\ \/ row'[t].state = row[t].state
           \/ row[t].state # "free" /\ row'[t].state \notin {"free", "live"}
  BY <1>1 DEF IInv, TypeOK, Session
<1>4. \A p \in Requests : req'[p].pc = "insert" =>
        row'[req[p].row].state = row[req[p].row].state
  <2> SUFFICES ASSUME NEW p \in Requests, req'[p].pc = "insert"
               PROVE  row'[req[p].row].state = row[req[p].row].state
    OBVIOUS
  <2>1. req[p].pc = "insert" /\ req[p].row # s
    BY DEF Locked, Idle
  <2> QED
    BY <2>1 DEF IInv, TypeOK
<1> QED
  BY <1>2, <1>3, <1>4, FadeStep

LEMMA DeleteSessionStep ==
  ASSUME IInv, NEW s \in Rows, DeleteSession(s)
  PROVE  IInv'
<1>1. row[s].state # "free" /\ ~Locked(s) /\ req' = req /\ req \in [Requests -> Request]
  BY DEF DeleteSession, Exists, IInv, TypeOK
<1> QED
  BY <1>1, DeleteRow DEF DeleteSession

LEMMA DropExpiredStep ==
  ASSUME IInv, NEW q \in Requests, DropExpired(q)
  PROVE  IInv'
<1> DEFINE s == req[q].row
<1>1. s \in Rows /\ row[s].state # "free" /\ ~Locked(s)
  BY DEF IInv, TypeOK, RequestsSound, Sound, Request, DropExpired, At
<1>2. /\ \A p \in Requests : req'[p] = req[p] \/ req'[p] = Idle
      /\ req' \in [Requests -> Request]
  BY IdleType DEF DropExpired, Return, IInv, TypeOK
<1> QED
  BY <1>1, <1>2, DeleteRow DEF DropExpired

LEMMA BulkApplyStep ==
  ASSUME IInv, NEW q \in Requests, BulkApply(q)
  PROVE  IInv'
<1> DEFINE Hit(s) == s \in req[q].todo /\ Matches(q, s)
<1>1. req[q] \in Request /\ Sound(req[q])
  BY DEF IInv, TypeOK, RequestsSound
<1>2. \A s \in Rows :
        /\ row[s] \in Session /\ row'[s] \in Session
        /\ row'[s].family = row[s].family /\ row'[s].auth = row[s].auth
        /\ ~Hit(s) => row'[s] = row[s]
        /\ Hit(s) => row'[s].state \in {"reused", "deleted"}
  BY DEF BulkApply, Swept, IInv, TypeOK, Session, RowState
<1>3. \A s \in Rows : Hit(s) => row[s].state # "free" /\ row[s].family \in Rows
  BY <1>1, FamilyExists DEF Sound, IInv
<1>4. caught' \subseteq Rows /\ wiped' \subseteq Rows
  <2>1. caught \subseteq Rows /\ wiped \subseteq Rows
    BY DEF IInv, TypeOK
  <2>2. req[q].op = "family" => row[req[q].row].family \in Rows
    <3>1. req[q].op = "family" => req[q].row \in Rows /\ row[req[q].row].state # "free"
      BY <1>1 DEF Sound, Request
    <3> QED
      BY <3>1, FamilyExists DEF IInv
  <2>3. \A s \in req[q].todo : row[s].family \in Rows
    <3>1. \A s \in req[q].todo : s \in Rows /\ row[s].state # "free"
      BY <1>1 DEF Sound, Request
    <3> QED
      BY <3>1, FamilyExists DEF IInv
  <2> QED
    BY <2>1, <2>2, <2>3 DEF BulkApply
<1>5. /\ \A p \in Requests : req'[p] = req[p] \/ req'[p] = Idle
      /\ req' \in [Requests -> Request]
  BY IdleType DEF BulkApply, Return, IInv, TypeOK
<1>6. TypeOK'
  <2>1. row' \in [Rows -> Session]
    <3>1. row' = [s \in Rows |-> row'[s]]
      BY DEF BulkApply
    <3> QED
      BY <1>2, <3>1
  <2> QED
    BY <1>4, <1>5, <2>1 DEF TypeOK, BulkApply, IInv
<1>7. \A p \in Requests : req'[p].pc = "insert" =>
        row'[req[p].row].state = row[req[p].row].state
  <2> SUFFICES ASSUME NEW p \in Requests, req'[p].pc = "insert"
               PROVE  row'[req[p].row].state = row[req[p].row].state
    OBVIOUS
  <2>1. req[p].pc = "insert"
    BY <1>5 DEF Idle
  <2>2. req[p].row \in Rows /\ ~Hit(req[p].row)
    BY <2>1 DEF BulkApply, Locked, IInv, TypeOK, RequestsSound, Sound, Request
  <2> QED
    BY <1>2, <2>2
<1> HIDE DEF Hit
<1>8. \A s \in Rows :
        \/ row'[s].state = row[s].state
        \/ row[s].state # "free" /\ row'[s].state \notin {"free", "live"}
  BY <1>2, <1>3
<1> QED
  BY <1>2, <1>5, <1>6, <1>7, <1>8, FadeStep DEF BulkApply

LEMMA TouchLastAuthStep ==
  ASSUME IInv, NEW s \in Rows, TouchLastAuth(s)
  PROVE  IInv'
<1> DEFINE f == row[s].family
<1>1. row[s] \in Session /\ f \in Rows /\ acts \in Nat /\ row[s].state = "live"
  BY FamilyExists DEF IInv, TypeOK, TouchLastAuth, Live
<1>2. TypeOK'
  BY <1>1 DEF IInv, TypeOK, TouchLastAuth, Session
<1>3. \A t \in Rows :
        /\ row'[t].family = row[t].family /\ row'[t].state = row[t].state
        /\ row'[t].auth = IF t = s THEN acts + 1 ELSE row[t].auth
  BY <1>1 DEF IInv, TypeOK, TouchLastAuth, Session
<1>4. \A g \in Rows :
        /\ proven[g] \in Nat /\ proven[g] <= acts
        /\ proven'[g] = IF g = f THEN acts + 1 ELSE proven[g]
  BY <1>1 DEF IInv, TypeOK, TouchLastAuth, Clock
<1>5. RowsSound'
  BY <1>3, FamilyExists DEF IInv, RowsSound
<1>6. Clock'
  BY <1>1, <1>4 DEF Clock, TouchLastAuth
<1>7. OneLivePerFamily'
  BY <1>3 DEF IInv, OneLivePerFamily, Live
<1>8. NeverRenewed'
  <2> SUFFICES ASSUME NEW t \in Rows, row'[t].state # "free"
               PROVE  row'[t].auth <= proven'[row'[t].family]
    BY DEF NeverRenewed
  <2>1. row[t].state # "free" /\ row[t].family \in Rows /\ row[t].auth \in Nat
        /\ row[t].auth <= proven[row[t].family]
    BY <1>3, FamilyExists DEF IInv, TypeOK, Session, NeverRenewed
  <2> QED
    BY <1>1, <1>3, <1>4, <2>1
<1>9. RequestsSound' /\ LockedOnce'
  <2>1. \A p \in Requests : req'[p].pc = "insert" => row'[req[p].row].state = "live"
    BY <1>3 DEF TouchLastAuth, IInv, TypeOK, RequestsSound, Sound, Request, Live
  <2>2. \A g \in Rows : proven[g] <= proven'[g]
    BY <1>1, <1>4
  <2> QED
    BY <1>2, <1>3, <2>1, <2>2, RowsAge DEF TouchLastAuth
<1> QED
  BY <1>2, <1>5, <1>6, <1>7, <1>8, <1>9 DEF IInv

LEMMA CreateSessionStep ==
  ASSUME IInv, CreateSession
  PROVE  IInv'
<1> PICK n \in Fresh : /\ row' = [row EXCEPT ![n] = NewSession(n, acts + 1)]
                       /\ proven' = [proven EXCEPT ![n] = acts + 1]
  BY DEF CreateSession
<1>1. /\ n \in Rows /\ row[n].state = "free" /\ acts \in Nat /\ acts' = acts + 1
      /\ UNCHANGED <<req, caught, wiped>>
  BY FreshIsFree DEF CreateSession, IInv, TypeOK
<1>2. NewSession(n, acts + 1) \in Session
  BY <1>1, NewSessionType
<1>3. TypeOK'
  BY <1>1, <1>2 DEF IInv, TypeOK
<1>4. /\ row'[n].state = "live" /\ row'[n].family = n /\ row'[n].auth = acts + 1
      /\ \A t \in Rows : t # n => row'[t] = row[t]
      /\ \A t \in Rows : row[t].state # "free" => t # n
  BY <1>1 DEF IInv, TypeOK, NewSession
<1>5. \A t \in Rows : row[t].state # "free" =>
        /\ row[t].family \in Rows /\ row[t].family # n
        /\ row[row[t].family].state # "free"
  BY <1>1, FamilyExists DEF IInv
<1>6. \A g \in Rows : /\ proven[g] \in Nat /\ proven[g] <= acts
                      /\ proven'[g] = IF g = n THEN acts + 1 ELSE proven[g]
  BY <1>1 DEF IInv, TypeOK, Clock
<1>7. RowsSound'
  <2> SUFFICES ASSUME NEW t \in Rows
               PROVE  /\ row'[t].state = "free" <=> row'[t].family = 0
                      /\ row'[t].state # "free" => row'[row'[t].family].state # "free"
    BY DEF RowsSound
  <2>1. CASE t = n
    BY <1>1, <1>4, <2>1 DEF Rows
  <2>2. CASE t # n
    BY <1>4, <1>5, <2>2 DEF IInv, RowsSound
  <2> QED
    BY <2>1, <2>2
<1>8. Clock'
  BY <1>1, <1>6 DEF Clock
<1>9. OneLivePerFamily'
  <2> SUFFICES ASSUME NEW s \in Rows, NEW t \in Rows, row'[s].state = "live",
                      row'[t].state = "live", row'[s].family = row'[t].family
               PROVE  s = t
    BY DEF OneLivePerFamily, Live
  <2>1. CASE s # n /\ t # n
    BY <1>4, <2>1 DEF IInv, OneLivePerFamily, Live
  <2>2. CASE s = n \/ t = n
    BY <1>4, <1>5, <2>2
  <2> QED
    BY <2>1, <2>2
<1>10. NeverRenewed'
  <2> SUFFICES ASSUME NEW t \in Rows, row'[t].state # "free"
               PROVE  row'[t].auth <= proven'[row'[t].family]
    BY DEF NeverRenewed
  <2>1. CASE t = n
    BY <1>1, <1>4, <1>6, <2>1
  <2>2. CASE t # n
    BY <1>4, <1>5, <1>6, <2>2 DEF IInv, NeverRenewed
  <2> QED
    BY <2>1, <2>2
<1>11. RequestsSound' /\ LockedOnce'
  <2>1. \A p \in Requests : req'[p].pc = "insert" => row'[req[p].row].state = "live"
    BY <1>1, <1>4 DEF IInv, TypeOK, RequestsSound, Sound, Request, Live
  <2>2. \A g \in Rows : proven[g] <= proven'[g]
    BY <1>1, <1>6
  <2> QED
    BY <1>1, <1>3, <1>4, <2>1, <2>2, RowsAge
<1> QED
  BY <1>3, <1>7, <1>8, <1>9, <1>10, <1>11 DEF IInv

\* The one step that inserts a second row of a family takes the first one out of it.
LEMMA RotateCommitStep ==
  ASSUME IInv, NEW q \in Requests, RotateCommit(q)
  PROVE  IInv'
<1> DEFINE s == req[q].row
           f == row[s].family
<1> PICK n \in Fresh : row' = [row EXCEPT ![s].state = "rotated",
                                          ![n] = NewSession(f, req[q].auth)]
  BY DEF RotateCommit
<1>1. /\ n \in Rows /\ row[n].state = "free" /\ At(q, "insert")
      /\ req' = [req EXCEPT ![q] = Idle] /\ UNCHANGED <<acts, proven, caught, wiped>>
  BY FreshIsFree DEF RotateCommit, Return
<1>2. /\ req[q] \in Request /\ s \in Rows /\ row[s].state = "live" /\ req[q].auth \in Nat
      /\ req[q].auth <= proven[f] /\ s # n
  BY <1>1 DEF IInv, TypeOK, RequestsSound, Sound, Request, At, Live
<1>3. f \in Rows /\ row[f].state # "free" /\ row[s] \in Session
  BY <1>2, FamilyExists DEF IInv, TypeOK
<1>4. NewSession(f, req[q].auth) \in Session
  BY <1>2, <1>3, NewSessionType
<1>5. TypeOK'
  <2>1. [row[s] EXCEPT !.state = "rotated"] \in Session
    BY <1>3 DEF Session, RowState
  <2>2. row' \in [Rows -> Session]
    BY <1>1, <1>2, <1>4, <2>1 DEF IInv, TypeOK
  <2>3. req' \in [Requests -> Request]
    BY <1>1, IdleType DEF IInv, TypeOK
  <2> QED
    BY <1>1, <2>2, <2>3 DEF IInv, TypeOK
<1>6. /\ row'[n].state = "live" /\ row'[n].family = f /\ row'[n].auth = req[q].auth
      /\ row'[s].state = "rotated" /\ row'[s].family = f /\ row'[s].auth = row[s].auth
      /\ \A t \in Rows : t \notin {s, n} => row'[t] = row[t]
  BY <1>1, <1>2, <1>3 DEF IInv, TypeOK, NewSession, Session
<1>7. \A t \in Rows : row[t].state # "free" =>
        row'[t].state # "free" /\ row'[t].family = row[t].family /\ row'[t].auth = row[t].auth
  BY <1>1, <1>2, <1>6
<1> HIDE DEF s, f
<1>8. RowsSound'
  <2> SUFFICES ASSUME NEW t \in Rows
               PROVE  /\ row'[t].state = "free" <=> row'[t].family = 0
                      /\ row'[t].state # "free" => row'[row'[t].family].state # "free"
    BY DEF RowsSound
  <2>1. CASE t \in {s, n}
    <3>1. f # 0 /\ row'[f].state # "free"
      BY <1>3, <1>7, RowsArePositive
    <3>2. row'[t].state # "free" /\ row'[t].family = f
      BY <1>6, <2>1
    <3> QED
      BY <3>1, <3>2
  <2>2. CASE t \notin {s, n}
    <3>1. row'[t] = row[t] /\ (row[t].state = "free" <=> row[t].family = 0)
      BY <1>6, <2>2 DEF IInv, RowsSound
    <3>2. row[t].state # "free" => row'[row[t].family].state # "free"
      BY <1>7, FamilyExists DEF IInv
    <3> QED
      BY <3>1, <3>2
  <2> QED
    BY <2>1, <2>2
<1>9. OneLivePerFamily'
  <2> SUFFICES ASSUME NEW a \in Rows, NEW b \in Rows, row'[a].state = "live",
                      row'[b].state = "live", row'[a].family = row'[b].family
               PROVE  a = b
    BY DEF OneLivePerFamily, Live
  <2>1. \A t \in Rows : row'[t].state = "live" /\ row'[t].family = f => t = n
    <3> SUFFICES ASSUME NEW t \in Rows, row'[t].state = "live", row'[t].family = f, t # n
                 PROVE  FALSE
      OBVIOUS
    <3>1. t # s /\ row[t].state = "live" /\ row[t].family = f
      BY <1>6
    <3>2. row[s].family = f
      BY DEF f
    <3> QED
      BY <1>2, <3>1, <3>2 DEF IInv, OneLivePerFamily, Live
  <2>2. CASE a = n \/ b = n
    BY <1>6, <2>1, <2>2
  <2>3. CASE a # n /\ b # n
    BY <1>6, <2>3 DEF IInv, OneLivePerFamily, Live
  <2> QED
    BY <2>2, <2>3
<1>10. NeverRenewed'
  <2> SUFFICES ASSUME NEW t \in Rows, row'[t].state # "free"
               PROVE  row'[t].auth <= proven[row'[t].family]
    BY <1>1 DEF NeverRenewed
  <2>1. CASE t = n
    BY <1>2, <1>6, <2>1
  <2>2. CASE t # n
    <3>1. row[t].state # "free"
      BY <1>2, <1>6, <2>2
    <3> QED
      BY <1>7, <3>1 DEF IInv, NeverRenewed
  <2> QED
    BY <2>1, <2>2
<1>11. RequestsSound' /\ LockedOnce'
  <2>1. \A p \in Requests : req'[p] = req[p] \/ req'[p] = Idle
    BY <1>1 DEF IInv, TypeOK
  <2>2. \A p \in Requests : req'[p].pc = "insert" => row'[req[p].row].state = "live"
    <3> SUFFICES ASSUME NEW p \in Requests, req'[p].pc = "insert"
                 PROVE  row'[req[p].row].state = "live"
      OBVIOUS
    <3>1. p # q /\ req[p].pc = "insert"
      BY <1>1 DEF IInv, TypeOK, Idle
    <3>2. /\ req[p].row \in Rows /\ row[req[p].row].state = "live"
          /\ req[p].row # s
      BY <1>1, <3>1 DEF IInv, TypeOK, RequestsSound, Sound, Request, Live, LockedOnce, At, s
    <3> QED
      BY <1>1, <1>6, <3>2
  <2>3. \A g \in Rows : proven[g] <= proven'[g]
    BY <1>1 DEF IInv, TypeOK
  <2> QED
    BY <1>5, <1>7, <2>1, <2>2, <2>3, RowsAge
<1>12. Clock'
  BY <1>1 DEF IInv, Clock
<1> QED
  BY <1>5, <1>8, <1>9, <1>10, <1>11, <1>12 DEF IInv

-----------------------------------------------------------------------------
(* The inductive invariant.                                                *)

LEMMA InitStep == Init => IInv
<1> SUFFICES ASSUME Init
             PROVE  IInv
  OBVIOUS
<1>1. TypeOK
  BY IdleType DEF Init, TypeOK, NoSession, Session, RowState
<1>2. RowsSound /\ OneLivePerFamily /\ NeverRenewed
  BY DEF Init, RowsSound, OneLivePerFamily, NeverRenewed, Live, NoSession
<1>3. Clock
  BY DEF Init, Clock
<1>4. RequestsSound /\ LockedOnce
  BY DEF Init, RequestsSound, LockedOnce, Sound, At, Idle
<1> QED
  BY <1>1, <1>2, <1>3, <1>4 DEF IInv

LEMMA NextStep ==
  ASSUME IInv, [Next]_vars
  PROVE  IInv'
<1>1. CASE CreateSession
  BY <1>1, CreateSessionStep
<1>2. CASE \E s \in Rows : TouchLastAuth(s) \/ Expires(s) \/ DeleteSession(s)
  BY <1>2, TouchLastAuthStep, ExpiresStep, DeleteSessionStep
<1>3. ASSUME NEW q \in Requests, NEW s \in Rows, Refresh(q, s) \/ StartBulk(q, "others", s)
      PROVE  IInv'
  BY <1>3, RefreshStep, StartBulkStep
<1>4. ASSUME NEW q \in Requests,
             \/ ValidateRefreshToken(q) \/ DropExpired(q)
             \/ RotateRead(q) \/ RotateCas(q) \/ RotateCommit(q)
      PROVE  IInv'
  BY <1>4, ValidateStep, DropExpiredStep, RotateReadStep, RotateCasStep, RotateCommitStep
<1>5. ASSUME NEW q \in Requests, Fault(q)
      PROVE  IInv'
  <2>1. Return(q) /\ UNCHANGED <<row, acts, proven>> /\ caught' \subseteq Rows /\ wiped' \subseteq Rows
    BY <1>5 DEF Fault, IInv, TypeOK
  <2> QED
    BY <2>1, ReturnStep
<1>6. ASSUME NEW q \in Requests, NEW op \in {"all", "expired"}, StartBulk(q, op, 0)
      PROVE  IInv'
  BY <1>6, StartBulkStep
<1>7. ASSUME NEW q \in Requests, BulkSnapshot(q) \/ BulkApply(q)
      PROVE  IInv'
  BY <1>7, BulkSnapshotStep, BulkApplyStep
<1>8. CASE UNCHANGED vars
  BY <1>8 DEF vars, IInv, TypeOK, RowsSound, Clock, RequestsSound, Sound, LockedOnce,
     OneLivePerFamily, NeverRenewed, Live, At
<1> QED
  BY <1>1, <1>2, <1>3, <1>4, <1>5, <1>6, <1>7, <1>8 DEF Next

\* Every reachable state satisfies the inductive invariant.
THEOREM SessionInvariant == Spec => []IInv
<1>1. Init => IInv
  BY InitStep
<1>2. IInv /\ [Next]_vars => IInv'
  BY NextStep
<1> QED
  BY <1>1, <1>2, PTL DEF Spec

\* Every variable keeps its type.
THEOREM SessionTypeCorrect == Spec => []TypeOK
<1>1. IInv => TypeOK
  BY DEF IInv
<1> QED
  BY <1>1, SessionInvariant, PTL

\* However refreshes and revocations interleave, a family has at most one live row.
THEOREM OneLivePerFamilyHolds == Spec => []OneLivePerFamily
<1>1. IInv => OneLivePerFamily
  BY DEF IInv
<1> QED
  BY <1>1, SessionInvariant, PTL

\* No refresh moves a row's lastAuthAt past the latest proof of identity in its family.
THEOREM NeverRenewedHolds == Spec => []NeverRenewed
<1>1. IInv => NeverRenewed
  BY DEF IInv
<1> QED
  BY <1>1, SessionInvariant, PTL

-----------------------------------------------------------------------------
(* A family without a live row.                                            *)

\* No step makes a row live, except a login, in a family that did not exist, and a
\* rotation, in the family of a row that was live.
LEMMA LiveSource ==
  ASSUME IInv, [Next]_vars, NEW t \in Rows, row'[t].state = "live"
  PROVE  \/ Live(t) /\ row'[t].family = row[t].family
         \/ row'[t].family \in Rows /\ row[row'[t].family].state = "free"
         \/ \E s \in Rows : Live(s) /\ row'[t].family = row[s].family
<1> DEFINE Same == Live(t) /\ row'[t].family = row[t].family
<1>1. row[t] \in Session
  BY DEF IInv, TypeOK
<1>2. CASE UNCHANGED row
  BY <1>2 DEF Live
<1>3. CASE CreateSession
  <2> PICK n \in Fresh : row' = [row EXCEPT ![n] = NewSession(n, acts + 1)]
    BY <1>3 DEF CreateSession
  <2>1. n \in Rows /\ row[n].state = "free"
    BY FreshIsFree
  <2> QED
    BY <2>1 DEF IInv, TypeOK, NewSession, Live
<1>4. ASSUME NEW s \in Rows, TouchLastAuth(s) \/ Expires(s) \/ DeleteSession(s)
      PROVE  Same
  BY <1>1, <1>4 DEF TouchLastAuth, Expires, DeleteSession, IInv, TypeOK, Session, Live
<1>5. ASSUME NEW q \in Requests, DropExpired(q)
      PROVE  Same
  BY <1>1, <1>5 DEF DropExpired, IInv, TypeOK, Session, Live
<1>6. ASSUME NEW q \in Requests, BulkApply(q)
      PROVE  Same
  BY <1>1, <1>6 DEF BulkApply, Swept, Session, Live
<1>7. ASSUME NEW q \in Requests, RotateCommit(q)
      PROVE  Same \/ \E s \in Rows : Live(s) /\ row'[t].family = row[s].family
  <2> DEFINE s == req[q].row
  <2> PICK n \in Fresh : row' = [row EXCEPT ![s].state = "rotated",
                                            ![n] = NewSession(row[s].family, req[q].auth)]
    BY <1>7 DEF RotateCommit
  <2>1. n \in Rows /\ s \in Rows /\ Live(s)
    BY <1>7, FreshIsFree
       DEF RotateCommit, At, IInv, TypeOK, RequestsSound, Sound, Request
  <2>2. CASE t = n
    BY <2>1, <2>2 DEF IInv, TypeOK, NewSession
  <2>3. CASE t # n
    BY <1>1, <2>1, <2>3 DEF IInv, TypeOK, Session, Live
  <2> QED
    BY <2>2, <2>3
<1>8. \/ UNCHANGED row \/ CreateSession
      \/ \E s \in Rows : TouchLastAuth(s) \/ Expires(s) \/ DeleteSession(s)
      \/ \E q \in Requests : DropExpired(q) \/ BulkApply(q) \/ RotateCommit(q)
  BY DEF Next, vars, Refresh, StartBulk, ValidateRefreshToken, RotateRead, RotateCas, Fault,
     BulkSnapshot
<1> QED
  BY <1>2, <1>3, <1>4, <1>5, <1>6, <1>7, <1>8

\* A family that has been revoked, signed out or expired away never comes back, even if a
\* rotation read its last live row before that.
THEOREM DeadFamilyStaysDeadHolds == Spec => DeadFamilyStaysDead
<1>1. IInv /\ [Next]_vars => \A f \in Rows : Dead(f) => KeptDead(f)
  <2> SUFFICES ASSUME IInv, [Next]_vars, NEW f \in Rows, Dead(f), NEW s \in Rows,
                      row'[s].family = f, row'[s].state = "live"
               PROVE  FALSE
    BY DEF KeptDead
  <2> QED
    BY LiveSource DEF Dead
<1> QED
  BY <1>1, SessionInvariant, PTL DEF Spec, DeadFamilyStaysDead
=============================================================================
