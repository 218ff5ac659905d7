----------------------------- MODULE SystemRoles -----------------------------
(***************************************************************************)
(* Who is SUPER_ADMIN: the guard that compares the role a token claims     *)
(* with the role the database holds, the change of another user's role     *)
(* under an advisory lock, and the audit rows both leave.                  *)
(***************************************************************************)
EXTENDS Integers, Sequences

CONSTANTS
  People,      \* users
  FirstAdmin,  \* the user who is SUPER_ADMIN to begin with
  SrRequests,  \* requests in flight
  NoRequestSr, \* an advisory lock nobody holds
  MaxChanges   \* bound: role changes committed

ASSUME SrAssumption ==
  /\ FirstAdmin \in People /\ NoRequestSr \notin SrRequests /\ MaxChanges \in Nat

VARIABLES
  systemRole, \* users.systemRole
  claim,      \* the role in the access token each user holds; "none" without a token
  signedIn,   \* users with a session
  srLock,     \* the advisory lock system-role:SUPER_ADMIN
  auditLog,   \* admin.user.system_role_changed rows, in the order they committed
  srReq       \* what each request holds in memory

srVars == <<systemRole, claim, signedIn, srLock, auditLog, srReq>>

SystemRole == {"USER", "SUPER_ADMIN"}

SrRecord == [pc : {"idle", "lock", "check", "update", "revoke"},
             actor : People, target : People, to : SystemRole, before : SystemRole]

SrTypeOK ==
  /\ systemRole \in [People -> SystemRole]
  /\ claim \in [People -> SystemRole \cup {"none"}]
  /\ signedIn \subseteq People
  /\ srLock \in SrRequests \cup {NoRequestSr}
  /\ auditLog \in Seq([target : People, before : SystemRole, after : SystemRole])
  /\ srReq \in [SrRequests -> SrRecord]

SrIdle == [pc |-> "idle", actor |-> FirstAdmin, target |-> FirstAdmin, to |-> "USER",
           before |-> "USER"]

SrInit ==
  /\ systemRole = [u \in People |-> IF u = FirstAdmin THEN "SUPER_ADMIN" ELSE "USER"]
  /\ claim = [u \in People |-> "none"]
  /\ signedIn = {}
  /\ srLock = NoRequestSr
  /\ auditLog = <<>>
  /\ srReq = [p \in SrRequests |-> SrIdle]

SrAt(p, pc) == srReq[p].pc = pc
SrGo(p, r) == srReq' = [srReq EXCEPT ![p] = r]
Super(u) == systemRole[u] = "SUPER_ADMIN"

-----------------------------------------------------------------------------
(* Tokens.                                                                 *)

\* A login or a refresh mints a token with the role of the row; a refresh needs its session.
MintToken(u) ==
  /\ claim' = [claim EXCEPT ![u] = systemRole[u]]
  /\ signedIn' = signedIn \cup {u}
  /\ UNCHANGED <<systemRole, srLock, auditLog, srReq>>

TokenExpired(u) ==
  /\ claim[u] # "none" /\ claim' = [claim EXCEPT ![u] = "none"]
  /\ UNCHANGED <<systemRole, signedIn, srLock, auditLog, srReq>>

-----------------------------------------------------------------------------
(* A role change.                                                          *)

\* SystemRolesGuard lets a request through whose token claims the role and whose user still
\* has it; updateUserSystemRole refuses to demote its own caller.
Allow(p, actor) ==
  /\ SrAt(p, "idle") /\ claim[actor] = "SUPER_ADMIN" /\ Super(actor)
  /\ \E target \in People, to \in SystemRole :
       /\ ~(target = actor /\ to # "SUPER_ADMIN")
       /\ SrGo(p, [pc |-> "lock", actor |-> actor, target |-> target, to |-> to, before |-> to])
  /\ UNCHANGED <<systemRole, claim, signedIn, srLock, auditLog>>

\* Slip: the count and the update run without the advisory lock.
LockNoRole(p) == UNCHANGED srLock

LockSystemRole(p) == srLock = NoRequestSr /\ srLock' = p

\* The transaction takes the advisory lock ...
BeginChange(p) ==
  /\ SrAt(p, "lock")
  /\ LockSystemRole(p)
  /\ SrGo(p, [srReq[p] EXCEPT !.pc = "check"])
  /\ UNCHANGED <<systemRole, claim, signedIn, auditLog>>

CommitRelease(p) == srLock' = IF srLock = p THEN NoRequestSr ELSE srLock

\* ... reads the target, ends when there is nothing to change, and refuses to demote the last
\* SUPER_ADMIN ...
CheckChange(p) ==
  LET r == srReq[p]
      others == {u \in People \ {r.target} : Super(u)}
  IN /\ SrAt(p, "check")
     /\ IF systemRole[r.target] = r.to \/ (Super(r.target) /\ others = {})
        THEN CommitRelease(p) /\ SrGo(p, SrIdle)
        ELSE /\ SrGo(p, [r EXCEPT !.pc = "update", !.before = systemRole[r.target]])
             /\ UNCHANGED srLock
     /\ UNCHANGED <<systemRole, claim, signedIn, auditLog>>

\* ... and commits the role together with its audit row.
UpdateSystemRole(p) ==
  LET r == srReq[p] IN
  /\ SrAt(p, "update") /\ Len(auditLog) < MaxChanges
  /\ systemRole' = [systemRole EXCEPT ![r.target] = r.to]
  /\ auditLog' = Append(auditLog, [target |-> r.target, before |-> r.before, after |-> r.to])
  /\ CommitRelease(p)
  /\ SrGo(p, [r EXCEPT !.pc = "revoke"])
  /\ UNCHANGED <<claim, signedIn>>

\* After the commit the sessions of the target are deleted, or the failure is logged.
RevokeTargetSessions(p) ==
  /\ SrAt(p, "revoke")
  /\ signedIn' \in {signedIn, signedIn \ {srReq[p].target}}
  /\ SrGo(p, SrIdle)
  /\ UNCHANGED <<systemRole, claim, srLock, auditLog>>

\* A request dies; its transaction rolls back and its lock goes.
SrCrash(p) ==
  /\ ~SrAt(p, "idle")
  /\ CommitRelease(p) /\ SrGo(p, SrIdle)
  /\ UNCHANGED <<systemRole, claim, signedIn, auditLog>>

SrNext ==
  \/ \E u \in People : MintToken(u) \/ TokenExpired(u)
  \/ \E p \in SrRequests :
       \/ \E u \in People : Allow(p, u)
       \/ BeginChange(p) \/ CheckChange(p) \/ UpdateSystemRole(p) \/ RevokeTargetSessions(p)
       \/ SrCrash(p)

SrSpec == SrInit /\ [][SrNext]_srVars

-----------------------------------------------------------------------------
(* Properties.                                                             *)

Changes(u) == {i \in DOMAIN auditLog : auditLog[i].target = u}

\* However changes of two administrators interleave, somebody stays SUPER_ADMIN, and the audit
\* rows of a user tell a gapless story: each begins with the role the one before it left, and
\* the last one left the role the user has.
SomebodyIsAdmin == \E u \in People : Super(u)

AuditReplays ==
  \A u \in People :
    /\ \A i, j \in Changes(u) :
         (i < j /\ ~ \E k \in Changes(u) : i < k /\ k < j) =>
           auditLog[i].after = auditLog[j].before
    /\ \A i \in Changes(u) :
         (~ \E k \in Changes(u) : i < k) => auditLog[i].after = systemRole[u]

AdminsAndAudit == SomebodyIsAdmin /\ AuditReplays
=============================================================================
