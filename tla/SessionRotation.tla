-------------------------- MODULE SessionRotation --------------------------
(***************************************************************************)
(* The refresh-token sessions of one user: login, validation, rotation in  *)
(* one transaction, step-up, logout and the bulk revocations.              *)
(*                                                                         *)
(* Postgres runs at READ COMMITTED.  A statement sees what was committed   *)
(* when it started and re-tests a row it had to wait for, but a row that   *)
(* was inserted meanwhile stays out of its sight: a bulk statement is a    *)
(* snapshot step and a later apply step.  A rotation that throws rolls     *)
(* back every write of its transaction.                                    *)
(***************************************************************************)
EXTENDS Integers, FiniteSets

CONSTANTS
  Requests,  \* HTTP requests and jobs that may be in flight together
  MaxRows,   \* bound: session rows ever created
  MaxActs    \* bound: logins and step-ups

ASSUME BoundsAssumption == MaxRows \in Nat /\ MaxActs \in Nat

Rows == 1 .. MaxRows

VARIABLES
  row,      \* the sessions table, by creation order
  req,      \* what each request holds in memory
  acts,     \* how many times the user has proved who they are
  proven,   \* the latest such act in each family, a family being named by its first row
  caught,   \* families in which a finished request found a rotated token used again
  wiped     \* families that a finished delete of all sessions found

vars == <<row, req, acts, proven, caught, wiped>>

RowState == {"free", "live", "rotated", "reused", "deleted"}
Op == {"none", "refresh", "family", "all", "others", "expired"}
Pc == {"idle", "guard", "drop", "rotate", "cas", "insert", "snapshot", "bulk"}

Session == [state : RowState, family : Rows \cup {0},
            auth : Nat,          \* lastAuthAt, as the act that set it
            expired : BOOLEAN]

Request == [pc : Pc, op : Op, row : Rows \cup {0},
            auth : Nat,          \* lastAuthAt as the rotation read it
            todo : SUBSET Rows]  \* rows the bulk statement saw

TypeOK ==
  /\ row \in [Rows -> Session]
  /\ req \in [Requests -> Request]
  /\ acts \in Nat
  /\ proven \in [Rows -> Nat]
  /\ caught \subseteq Rows
  /\ wiped \subseteq Rows

NoSession == [state |-> "free", family |-> 0, auth |-> 0, expired |-> FALSE]
Idle == [pc |-> "idle", op |-> "none", row |-> 0, auth |-> 0, todo |-> {}]

Init ==
  /\ row = [s \in Rows |-> NoSession]
  /\ req = [q \in Requests |-> Idle]
  /\ acts = 0
  /\ proven = [f \in Rows |-> 0]
  /\ caught = {} /\ wiped = {}

-----------------------------------------------------------------------------
Exists(s) == row[s].state \in {"live", "rotated", "reused"}
Live(s) == row[s].state = "live"

\* A rotation holds the lock of the row it has marked until it commits or rolls back.
Locked(s) == \E q \in Requests : req[q].pc = "insert" /\ req[q].row = s

Free == {s \in Rows : row[s].state = "free"}
Fresh == {n \in Free : \A m \in Free : n <= m}

\* MaxRows leaves a row for this refresh beside those already on their way.
Room == Cardinality({q \in Requests : req[q].op = "refresh"}) < Cardinality(Free)

At(q, pc) == req[q].pc = pc
Goto(q, pc) == req' = [req EXCEPT ![q].pc = pc]
Return(q) == req' = [req EXCEPT ![q] = Idle]

NewSession(f, a) == [state |-> "live", family |-> f, auth |-> a, expired |-> FALSE]

-----------------------------------------------------------------------------
(* Single-row operations.                                                  *)

\* createSession: a family of its own, freshly authenticated.
CreateSession ==
  /\ acts < MaxActs
  /\ \E n \in Fresh :
       /\ row' = [row EXCEPT ![n] = NewSession(n, acts + 1)]
       /\ proven' = [proven EXCEPT ![n] = acts + 1]
  /\ acts' = acts + 1
  /\ UNCHANGED <<req, caught, wiped>>

\* touchLastAuth, the last step of a step-up: one live row, never a revoked one.
TouchLastAuth(s) ==
  /\ acts < MaxActs
  /\ Live(s) /\ ~row[s].expired /\ ~Locked(s)
  /\ row' = [row EXCEPT ![s].auth = acts + 1]
  /\ proven' = [proven EXCEPT ![row[s].family] = acts + 1]
  /\ acts' = acts + 1
  /\ UNCHANGED <<req, caught, wiped>>

\* expiresAt passes.
Expires(s) ==
  /\ Exists(s) /\ ~row[s].expired
  /\ row' = [row EXCEPT ![s].expired = TRUE]
  /\ UNCHANGED <<req, acts, proven, caught, wiped>>

\* deleteByRefreshToken on logout and deleteSession: one row, whatever its state.
DeleteSession(s) ==
  /\ Exists(s) /\ ~Locked(s)
  /\ row' = [row EXCEPT ![s].state = "deleted"]
  /\ UNCHANGED <<req, acts, proven, caught, wiped>>

-----------------------------------------------------------------------------
(* Refresh: the guard validates, then the handler rotates.                 *)

\* A client presents a token it was once given.
Refresh(q, s) ==
  /\ At(q, "idle") /\ row[s].state # "free" /\ Room
  /\ req' = [req EXCEPT ![q] = [Idle EXCEPT !.pc = "guard", !.op = "refresh", !.row = s]]
  /\ UNCHANGED <<row, acts, proven, caught, wiped>>

\* validateRefreshToken.  A live token goes on to the rotation, or is all an exchange asks.
ValidateRefreshToken(q) ==
  LET s == req[q].row IN
  /\ At(q, "guard")
  /\ \/ ~Exists(s) /\ Return(q)
     \/ Exists(s) /\ row[s].expired /\ Goto(q, "drop")
     \/ /\ ~row[s].expired /\ row[s].state = "rotated"
        /\ req' = [req EXCEPT ![q] = [@ EXCEPT !.pc = "snapshot", !.op = "family"]]
     \/ ~row[s].expired /\ row[s].state = "reused" /\ Return(q)
     \/ ~row[s].expired /\ Live(s) /\ (Goto(q, "rotate") \/ Return(q))
  /\ UNCHANGED <<row, acts, proven, caught, wiped>>

\* The guard deletes the expired row it read, then answers 401.
DropExpired(q) ==
  LET s == req[q].row IN
  /\ At(q, "drop") /\ ~Locked(s)
  /\ row' = [row EXCEPT ![s].state = "deleted"]
  /\ Return(q)
  /\ UNCHANGED <<acts, proven, caught, wiped>>

\* rotateRefreshToken reads the row.  Its delete of an expired row and its revocation of a
\* reused family belong to the transaction that the following throw rolls back.
RotateRead(q) ==
  LET s == req[q].row IN
  /\ At(q, "rotate")
  /\ \/ /\ Live(s) /\ ~row[s].expired
        /\ req' = [req EXCEPT ![q] = [@ EXCEPT !.pc = "cas", !.auth = row[s].auth]]
        /\ UNCHANGED caught
     \/ /\ ~Live(s) \/ row[s].expired
        /\ Return(q)
        /\ caught' = IF row[s].state = "rotated" /\ ~row[s].expired
                     THEN caught \cup {row[s].family} ELSE caught
  /\ UNCHANGED <<row, acts, proven, wiped>>

\* Slip: the update that marks the old row does not test revokedAt.
RotateUnchecked(q) ==
  /\ At(q, "cas") /\ ~Locked(req[q].row)
  /\ Goto(q, "insert")
  /\ UNCHANGED <<row, acts, proven, caught, wiped>>

\* The CAS on revokedAt waits for the row lock, then re-tests the row; when it matches
\* nothing, the revocation that follows is rolled back as well.
RotateCas(q) ==
  LET s == req[q].row IN
  /\ At(q, "cas") /\ ~Locked(s)
  /\ \/ Live(s) /\ Goto(q, "insert") /\ UNCHANGED caught
     \/ /\ ~Live(s) /\ Return(q)
        /\ caught' = IF row[s].state = "rotated" THEN caught \cup {row[s].family} ELSE caught
  /\ UNCHANGED <<row, acts, proven, wiped>>

\* Slip: the new row counts as freshly authenticated.
RotateRenewed(q) ==
  LET s == req[q].row IN
  /\ At(q, "insert")
  /\ \E n \in Fresh :
       row' = [row EXCEPT ![s].state = "rotated", ![n] = NewSession(row[s].family, acts)]
  /\ Return(q)
  /\ UNCHANGED <<acts, proven, caught, wiped>>

\* The successor is inserted with the lastAuthAt that was read, and both writes commit.
RotateCommit(q) ==
  LET s == req[q].row IN
  /\ At(q, "insert")
  /\ \E n \in Fresh :
       row' = [row EXCEPT ![s].state = "rotated",
                          ![n] = NewSession(row[s].family, req[q].auth)]
  /\ Return(q)
  /\ UNCHANGED <<acts, proven, caught, wiped>>

\* The request dies or the database fails it: its open transaction leaves no trace.
Fault(q) ==
  /\ ~At(q, "idle")
  /\ Return(q)
  /\ UNCHANGED <<row, acts, proven, caught, wiped>>

-----------------------------------------------------------------------------
(* Bulk statements.                                                        *)

\* Password reset and system-role change delete all, "sign out everywhere" the others,
\* the nightly cleanup the expired.
StartBulk(q, op, s) ==
  /\ At(q, "idle")
  /\ op = "others" <=> s # 0
  /\ s # 0 => row[s].state # "free"
  /\ req' = [req EXCEPT ![q] = [Idle EXCEPT !.pc = "snapshot", !.op = op, !.row = s]]
  /\ UNCHANGED <<row, acts, proven, caught, wiped>>

\* The WHERE clause of the statement that q runs.
Matches(q, s) ==
  CASE req[q].op = "family" -> Live(s) /\ row[s].family = row[req[q].row].family
    [] req[q].op = "all" -> Exists(s)
    [] req[q].op = "others" -> Exists(s) /\ s # req[q].row
    [] req[q].op = "expired" -> Exists(s) /\ row[s].expired
    [] OTHER -> FALSE

BulkSnapshot(q) ==
  /\ At(q, "snapshot")
  /\ req' = [req EXCEPT ![q] = [@ EXCEPT !.pc = "bulk", !.todo = {s \in Rows : Matches(q, s)}]]
  /\ UNCHANGED <<row, acts, proven, caught, wiped>>

\* Slip: the row is left in a state named after the operation.
SweptByName(q, s) == [row[s] EXCEPT !.state = req[q].op]

\* What the statement makes of a row.
Swept(q, s) ==
  [row[s] EXCEPT !.state = IF req[q].op = "family" THEN "reused" ELSE "deleted"]

\* It waits for every row it saw, re-tests it, and commits.
BulkApply(q) ==
  /\ At(q, "bulk")
  /\ \A s \in req[q].todo : ~Locked(s)
  /\ row' = [s \in Rows |-> IF s \in req[q].todo /\ Matches(q, s) THEN Swept(q, s) ELSE row[s]]
  /\ caught' = IF req[q].op = "family" THEN caught \cup {row[req[q].row].family} ELSE caught
  /\ wiped' = IF req[q].op = "all" THEN wiped \cup {row[s].family : s \in req[q].todo} ELSE wiped
  /\ Return(q)
  /\ UNCHANGED <<acts, proven>>

-----------------------------------------------------------------------------
Next ==
  \/ CreateSession
  \/ \E s \in Rows : TouchLastAuth(s) \/ Expires(s) \/ DeleteSession(s)
  \/ \E q \in Requests :
       \/ \E s \in Rows : Refresh(q, s) \/ StartBulk(q, "others", s)
       \/ ValidateRefreshToken(q) \/ DropExpired(q)
       \/ RotateRead(q) \/ RotateCas(q) \/ RotateCommit(q) \/ Fault(q)
       \/ \E op \in {"all", "expired"} : StartBulk(q, op, 0)
       \/ BulkSnapshot(q) \/ BulkApply(q)

Spec == Init /\ [][Next]_vars

-----------------------------------------------------------------------------
(* Safety.                                                                 *)

\* Rotation hands a family on and never forks it: however refreshes of one token, retries
\* and revocations interleave, at most one row of a family is live.
OneLivePerFamily ==
  \A s, t \in Rows : Live(s) /\ Live(t) /\ row[s].family = row[t].family => s = t

\* A refresh never renews the step-up window: the lastAuthAt of a row is never later than
\* the latest login or step-up of its own family.
NeverRenewed ==
  \A s \in Rows : row[s].state # "free" => row[s].auth <= proven[row[s].family]

\* A family that exists and has no live row.
Dead(f) == row[f].state # "free" /\ \A s \in Rows : row[s].family = f => ~Live(s)
KeptDead(f) == \A s \in Rows : row'[s].family = f => row'[s].state # "live"

\* Once no row of a family is live, a rotation that had already read the old row cannot
\* bring the family back.
DeadFamilyStaysDead == [][\A f \in Rows : Dead(f) => KeptDead(f)]_vars

-----------------------------------------------------------------------------
(* What the documentation says and the code does not do.                   *)

\* "If a rotated token is used again, the whole token family is invalidated and the
\* current session is signed out."
ReuseSignsOut ==
  \A s \in Rows : row[s].family \in caught => ~Live(s)

\* "Password reset: all sessions."
ResetSignsOut ==
  \A s \in Rows : row[s].family \in wiped => ~Live(s)

\* "A silent refresh preserves the step-up freshness window."
StepUpSurvives ==
  \A s \in Rows : Live(s) => row[s].auth = proven[row[s].family]
=============================================================================
