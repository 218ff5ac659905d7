---------------------------- MODULE Organization ----------------------------
(***************************************************************************)
(* One organisation: its members and their roles, its custom roles and     *)
(* their permissions, the invitations of one address, and the ACL version  *)
(* that every change of a permission has to move.                          *)
(*                                                                         *)
(* Requests run concurrently at READ COMMITTED.  A request that reads      *)
(* before it writes is two steps; what one transaction writes is one, and  *)
(* takes effect only if the rows it is predicated on are still there.      *)
(***************************************************************************)
EXTENDS Integers, FiniteSets

CONSTANTS
  OrgUsers,     \* users of the system
  Founder,      \* the user who creates the organisation
  Guest,        \* the user whose address is invited
  Admin,        \* the system role ADMIN
  Member,       \* the system role MEMBER
  CustomRoles,  \* roles the organisation may define
  NoRole,       \* roleId IS NULL
  Perms,        \* permission rows the organisation may define
  OrgRequests,  \* HTTP requests in flight
  NoRequest,    \* an advisory lock nobody holds
  MaxInvites,   \* bound: invitation rows ever inserted
  MaxWrites     \* bound: invitation tokens issued and changes of permissions, together

ASSUME OrgAssumption ==
  /\ {Founder, Guest} \subseteq OrgUsers
  /\ Admin # Member /\ {Admin, Member} \cap CustomRoles = {}
  /\ NoRole \notin CustomRoles \cup {Admin, Member}
  /\ NoRequest \notin OrgRequests
  /\ {MaxInvites, MaxWrites} \subseteq Nat

VARIABLES
  seat,        \* org_members: the row id of each user's membership, 0 when there is none
  holds,       \* member_roles, as pairs of a user and a role
  role,        \* custom roles that exist
  perm,        \* permissions: "free", "linked" to their role, or "orphan"
  permRole,    \* role_permissions: the role of each permission
  aclVersion,  \* organizations.aclVersion; 0 once the organisation is deleted
  invite,      \* org_invites rows of the address of Guest
  issued,      \* tokens issued so far
  adminLock,   \* holder of the advisory lock org:last-admin
  inviteLock,  \* holder of the advisory lock org-invite of the address
  orgReq       \* what each request holds in memory

tables == <<seat, holds, role, perm, permRole, aclVersion>>
orgVars == <<tables, invite, issued, adminLock, inviteLock, orgReq>>

Invites == 1 .. MaxInvites
FounderSeat == MaxInvites + 1
Roles == {Admin, Member} \cup CustomRoles

OrgOp == {"idle", "removeMember", "removeRole", "assignRole", "inviteRead", "inviteWrite",
          "accept", "revoke", "deleteRole", "dropRole", "assignPermission", "removePermission"}

Request == [op : OrgOp, user : OrgUsers, seat : 0 .. FounderSeat, role : Roles \cup {NoRole},
            inv : {0} \cup Invites, token : Nat, perms : SUBSET Perms]

Invite == [status : {"free", "pending", "accepted", "revoked", "purged"},
           role : Roles \cup {NoRole}, token : Nat, live : BOOLEAN]

OrgTypeOK ==
  /\ seat \in [OrgUsers -> 0 .. FounderSeat]
  /\ holds \subseteq OrgUsers \X Roles
  /\ role \subseteq CustomRoles
  /\ perm \in [Perms -> {"free", "linked", "orphan", "deleted"}]
  /\ permRole \in [Perms -> CustomRoles \cup {NoRole}]
  /\ aclVersion \in Nat
  /\ invite \in [Invites -> Invite]
  /\ issued \in Nat
  /\ {adminLock, inviteLock} \subseteq OrgRequests \cup {NoRequest}
  /\ orgReq \in [OrgRequests -> Request]

OrgIdle == [op |-> "idle", user |-> Founder, seat |-> 0, role |-> NoRole, inv |-> 0,
            token |-> 0, perms |-> {}]

\* create: the organisation, its founder's membership and ADMIN link, in one transaction.
OrgInit ==
  /\ seat = [u \in OrgUsers |-> IF u = Founder THEN FounderSeat ELSE 0]
  /\ holds = {<<Founder, Admin>>}
  /\ role = {}
  /\ perm = [x \in Perms |-> "free"]
  /\ permRole = [x \in Perms |-> NoRole]
  /\ aclVersion = 1
  /\ invite = [i \in Invites |-> [status |-> "free", role |-> NoRole, token |-> 0, live |-> FALSE]]
  /\ issued = 0
  /\ adminLock = NoRequest /\ inviteLock = NoRequest
  /\ orgReq = [p \in OrgRequests |-> OrgIdle]

-----------------------------------------------------------------------------
(* What the transactions are built from.                                   *)

InBounds == aclVersion + issued <= MaxWrites

\* bumpAclVersionTx fails when the organisation is gone, and its transaction with it.
BumpAclVersionTx ==
  /\ aclVersion # 0 /\ InBounds
  /\ aclVersion' = aclVersion + 1

\* assert: a system role, or a custom role of this organisation.
Assignable(r) == r \in {Admin, Member} \cup role

Admins == {u \in OrgUsers : <<u, Admin>> \in holds}

NotLastAdmin(u) == ~(u \in Admins /\ Cardinality(Admins) = 1)

Idle(p) == orgReq[p].op = "idle"
Doing(p, op) == orgReq[p].op = op
Begin(p, r) == Idle(p) /\ aclVersion # 0 /\ orgReq' = [orgReq EXCEPT ![p] = r]
End(p) == orgReq' = [orgReq EXCEPT ![p] = OrgIdle]
Release(lock, p) == lock' = IF lock = p THEN NoRequest ELSE lock

\* Any statement may fail: the transaction rolls back and its locks are released.
OrgAbort(p) ==
  /\ ~Idle(p) /\ End(p)
  /\ Release(adminLock, p) /\ Release(inviteLock, p)
  /\ UNCHANGED <<tables, invite, issued>>

-----------------------------------------------------------------------------
(* Members.                                                                *)

\* Slip: the last-admin lock is not taken.
LockNothing(p) == UNCHANGED adminLock

\* acquireXactLock on org:last-admin.
LockAdmins(p) == adminLock = NoRequest /\ adminLock' = p

\* removeMember reads the member and counts the admins under the lock ...
RemoveMemberRead(p) ==
  /\ \E u \in OrgUsers :
       /\ seat[u] # 0 /\ NotLastAdmin(u)
       /\ Begin(p, [OrgIdle EXCEPT !.op = "removeMember", !.user = u, !.seat = seat[u]])
  /\ LockAdmins(p)
  /\ UNCHANGED <<tables, invite, issued, inviteLock>>

\* ... and deletes the row it read, its role links with it.
RemoveMember(p) ==
  LET u == orgReq[p].user IN
  /\ Doing(p, "removeMember") /\ seat[u] = orgReq[p].seat
  /\ seat' = [seat EXCEPT ![u] = 0]
  /\ holds' = holds \ ({u} \X Roles)
  /\ BumpAclVersionTx
  /\ Release(adminLock, p) /\ End(p)
  /\ UNCHANGED <<role, perm, permRole, invite, issued, inviteLock>>

\* Only the removal of ADMIN is checked.
RemoveRoleRead(p) ==
  /\ \E u \in OrgUsers, r \in Roles :
       /\ seat[u] # 0
       /\ r = Admin => NotLastAdmin(u)
       /\ Begin(p, [OrgIdle EXCEPT !.op = "removeRole", !.user = u, !.role = r])
  /\ LockAdmins(p)
  /\ UNCHANGED <<tables, invite, issued, inviteLock>>

\* deleteMany: the link may be gone, and the version is bumped all the same.
RemoveRole(p) ==
  /\ Doing(p, "removeRole")
  /\ holds' = holds \ {<<orgReq[p].user, orgReq[p].role>>}
  /\ BumpAclVersionTx
  /\ Release(adminLock, p) /\ End(p)
  /\ UNCHANGED <<seat, role, perm, permRole, invite, issued, inviteLock>>

\* assignRole reads the member outside its transaction ...
AssignRoleRead(p) ==
  /\ \E u \in OrgUsers, r \in Roles :
       /\ seat[u] # 0
       /\ Begin(p, [OrgIdle EXCEPT !.op = "assignRole", !.user = u, !.role = r, !.seat = seat[u]])
  /\ UNCHANGED <<tables, invite, issued, adminLock, inviteLock>>

\* ... and the link needs that membership, not another of the same user.
AssignRole(p) ==
  LET u == orgReq[p].user r == orgReq[p].role IN
  /\ Doing(p, "assignRole")
  /\ seat[u] = orgReq[p].seat /\ Assignable(r) /\ <<u, r>> \notin holds
  /\ holds' = holds \cup {<<u, r>>}
  /\ BumpAclVersionTx /\ End(p)
  /\ UNCHANGED <<seat, role, perm, permRole, invite, issued, adminLock, inviteLock>>

-----------------------------------------------------------------------------
(* Custom roles and their permissions.                                     *)

CreateRole ==
  /\ aclVersion # 0
  /\ \E r \in CustomRoles \ role : role' = role \cup {r}
  /\ UNCHANGED <<seat, holds, perm, permRole, aclVersion, invite, issued, adminLock,
                 inviteLock, orgReq>>

PermsOf(r) == {x \in Perms : perm[x] = "linked" /\ permRole[x] = r}

\* deleteRole collects the permissions linked to the role ...
DeleteRoleRead(p) ==
  /\ \E r \in role :
       Begin(p, [OrgIdle EXCEPT !.op = "deleteRole", !.role = r, !.perms = PermsOf(r)])
  /\ UNCHANGED <<tables, invite, issued, adminLock, inviteLock>>

\* Slip: the version moves only when permissions were collected.
DeleteRoleBumpsSometimes(p) ==
  LET r == orgReq[p].role IN
  /\ Doing(p, "deleteRole") /\ r \in role
  /\ role' = role \ {r} /\ holds' = holds \ (OrgUsers \X {r})
  /\ perm' = [x \in Perms |-> IF x \in PermsOf(r) THEN "deleted" ELSE perm[x]]
  /\ invite' = [i \in Invites |->
                  IF invite[i].role = r THEN [invite[i] EXCEPT !.role = NoRole] ELSE invite[i]]
  /\ IF orgReq[p].perms # {} THEN BumpAclVersionTx ELSE UNCHANGED aclVersion
  /\ End(p)
  /\ UNCHANGED <<seat, permRole, issued, adminLock, inviteLock>>

\* ... then deletes the role, whose links cascade and whose invitations lose it, and those
\* permissions; one that was added in between has lost its role.
DeleteRole(p) ==
  LET r == orgReq[p].role IN
  /\ Doing(p, "deleteRole") /\ r \in role
  /\ role' = role \ {r}
  /\ holds' = holds \ (OrgUsers \X {r})
  /\ perm' = [x \in Perms |-> IF x \notin PermsOf(r) THEN perm[x]
                              ELSE IF x \in orgReq[p].perms THEN "deleted" ELSE "orphan"]
  /\ invite' = [i \in Invites |->
                  IF invite[i].role = r THEN [invite[i] EXCEPT !.role = NoRole] ELSE invite[i]]
  /\ BumpAclVersionTx /\ End(p)
  /\ UNCHANGED <<seat, permRole, issued, adminLock, inviteLock>>

\* assignPermission finds the role outside its transaction ...
AssignPermissionRead(p) ==
  /\ \E r \in role : Begin(p, [OrgIdle EXCEPT !.op = "assignPermission", !.role = r])
  /\ UNCHANGED <<tables, invite, issued, adminLock, inviteLock>>

\* ... and the link to a role deleted since fails, and takes the new permission with it.
AssignPermission(p) ==
  /\ Doing(p, "assignPermission") /\ orgReq[p].role \in role
  /\ \E x \in Perms :
       /\ perm[x] = "free"
       /\ perm' = [perm EXCEPT ![x] = "linked"]
       /\ permRole' = [permRole EXCEPT ![x] = orgReq[p].role]
  /\ BumpAclVersionTx /\ End(p)
  /\ UNCHANGED <<seat, holds, role, invite, issued, adminLock, inviteLock>>

RemovePermissionRead(p) ==
  /\ \E x \in Perms : perm[x] = "linked"
                      /\ Begin(p, [OrgIdle EXCEPT !.op = "removePermission", !.perms = {x}])
  /\ UNCHANGED <<tables, invite, issued, adminLock, inviteLock>>

\* The permission is deleted by its id, linked or not.
RemovePermission(p) ==
  /\ Doing(p, "removePermission")
  /\ \A x \in orgReq[p].perms : perm[x] \in {"linked", "orphan"}
  /\ perm' = [x \in Perms |-> IF x \in orgReq[p].perms THEN "deleted" ELSE perm[x]]
  /\ BumpAclVersionTx /\ End(p)
  /\ UNCHANGED <<seat, holds, role, permRole, invite, issued, adminLock, inviteLock>>

\* remove: everything of the organisation cascades.
RemoveOrganization ==
  /\ aclVersion # 0 /\ aclVersion' = 0
  /\ seat' = [u \in OrgUsers |-> 0]
  /\ holds' = {} /\ role' = {}
  /\ perm' = [x \in Perms |-> IF perm[x] = "free" THEN "free" ELSE "deleted"]
  /\ invite' = [i \in Invites |-> IF invite[i].status = "free" THEN invite[i]
                                  ELSE [invite[i] EXCEPT !.status = "purged"]]
  /\ UNCHANGED <<permRole, issued, adminLock, inviteLock, orgReq>>

-----------------------------------------------------------------------------
(* Invitations.                                                            *)

Active == {i \in Invites : invite[i].status = "pending"}

\* The partial unique index leaves at most one row that is neither accepted nor revoked.
FindActive == Active

\* Slip: two invitations of one address run side by side.
LockNoInvite(p) == UNCHANGED inviteLock

LockInvite(p) == inviteLock = NoRequest /\ inviteLock' = p

\* createInvite takes the lock; a member is not invited again ...
CreateInviteRead(p) ==
  /\ \E r \in Roles :
       /\ Assignable(r) /\ seat[Guest] = 0
       /\ \/ /\ FindActive = {}
             /\ Begin(p, [OrgIdle EXCEPT !.op = "inviteWrite", !.role = r])
          \/ \E i \in FindActive :
               Begin(p, [OrgIdle EXCEPT !.op = "inviteWrite", !.role = r, !.inv = i])
  /\ LockInvite(p)
  /\ UNCHANGED <<tables, invite, issued, adminLock>>

NewInvite == CHOOSE i \in Invites : invite[i].status = "free"

\* ... then the row that was found is given a new token, expiry and role by its id alone,
\* or a row is inserted.  The token is mailed after the commit.
CreateInvite(p) ==
  LET i == IF orgReq[p].inv # 0 THEN orgReq[p].inv ELSE NewInvite
      r == orgReq[p].role
  IN
  /\ Doing(p, "inviteWrite") /\ aclVersion # 0 /\ InBounds /\ Assignable(r)
  /\ orgReq[p].inv = 0 => /\ Active = {}
                          /\ \E j \in Invites : invite[j].status = "free"
  /\ invite[i].status # "purged"
  /\ issued' = issued + 1
  /\ invite' = [invite EXCEPT ![i] =
       [status |-> IF @.status = "free" THEN "pending" ELSE @.status,
        role |-> r, token |-> issued + 1, live |-> TRUE]]
  /\ Release(inviteLock, p) /\ End(p)
  /\ UNCHANGED <<tables, adminLock>>

InviteExpires ==
  /\ \E i \in Active : invite[i].live /\ invite' = [invite EXCEPT ![i].live = FALSE]
  /\ UNCHANGED <<tables, issued, adminLock, inviteLock, orgReq>>

\* The nightly cleanup deletes expired rows, and settled ones when they are old.
PurgeInvites ==
  /\ \E i \in Invites :
       /\ invite[i].status \in {"accepted", "revoked"} \/ (i \in Active /\ ~invite[i].live)
       /\ invite' = [invite EXCEPT ![i].status = "purged"]
  /\ UNCHANGED <<tables, issued, adminLock, inviteLock, orgReq>>

RevokeInviteRead(p) ==
  /\ \E i \in Active : Begin(p, [OrgIdle EXCEPT !.op = "revoke", !.inv = i])
  /\ UNCHANGED <<tables, invite, issued, adminLock, inviteLock>>

\* The compare-and-set of revokeInvite; anything else is an error.
RevokeInvite(p) ==
  /\ Doing(p, "revoke") /\ orgReq[p].inv \in Active
  /\ invite' = [invite EXCEPT ![orgReq[p].inv].status = "revoked"]
  /\ End(p)
  /\ UNCHANGED <<tables, issued, adminLock, inviteLock>>

\* acceptInvite reads the row by the token it is given, and keeps its id and role ...
AcceptInviteRead(p) ==
  /\ \E i \in Active :
       /\ invite[i].live
       /\ Begin(p, [OrgIdle EXCEPT !.op = "accept", !.user = Guest, !.inv = i,
                      !.token = invite[i].token,
                      !.role = IF invite[i].role = NoRole THEN Member ELSE invite[i].role])
  /\ UNCHANGED <<tables, invite, issued, adminLock, inviteLock>>

\* Slip: the claim looks at neither acceptance nor revocation.
ClaimById(i) == invite[i].live

ClaimInvite(i) == i \in Active /\ invite[i].live

\* ... and claims it by id; the membership, its role link and the bump commit with the claim.
AcceptInvite(p) ==
  LET i == orgReq[p].inv IN
  /\ Doing(p, "accept") /\ ClaimInvite(i)
  /\ Assignable(orgReq[p].role) /\ seat[Guest] = 0
  /\ invite' = [invite EXCEPT ![i].status = "accepted"]
  /\ seat' = [seat EXCEPT ![Guest] = i]
  /\ holds' = holds \cup {<<Guest, orgReq[p].role>>}
  /\ BumpAclVersionTx /\ End(p)
  /\ UNCHANGED <<role, perm, permRole, issued, adminLock, inviteLock>>

-----------------------------------------------------------------------------
OrgStep(p) ==
  \/ RemoveMemberRead(p) \/ RemoveMember(p) \/ RemoveRoleRead(p) \/ RemoveRole(p)
  \/ AssignRoleRead(p) \/ AssignRole(p)
  \/ DeleteRoleRead(p) \/ DeleteRole(p)
  \/ AssignPermissionRead(p) \/ AssignPermission(p)
  \/ RemovePermissionRead(p) \/ RemovePermission(p)
  \/ CreateInviteRead(p) \/ CreateInvite(p) \/ RevokeInviteRead(p) \/ RevokeInvite(p)
  \/ AcceptInviteRead(p) \/ AcceptInvite(p) \/ OrgAbort(p)

OrgNext ==
  \/ \E p \in OrgRequests : OrgStep(p)
  \/ CreateRole \/ RemoveOrganization \/ InviteExpires \/ PurgeInvites

OrgSpec == OrgInit /\ [][OrgNext]_orgVars
-----------------------------------------------------------------------------
(* Properties.                                                             *)

\* However removals of members and of the ADMIN role race, an organisation that exists
\* has an administrator.
KeepsAdmin == aclVersion # 0 => Admins # {}

\* What the permissions of a user are computed from.
Effective(u) == {r \in Roles : <<u, r>> \in holds} \X {"role"}
                \cup {x \in Perms : perm[x] = "linked" /\ <<u, permRole[x]>> \in holds} \X {"perm"}

\* No step changes what a user may do without moving the ACL version the permission cache is
\* keyed by, the cascades of a deleted role or permission included.
AclCoversChange ==
  [][\/ UNCHANGED <<holds, perm, permRole>>
     \/ aclVersion' # aclVersion
     \/ \A u \in OrgUsers : Effective(u)' = Effective(u)]_orgVars

\* An insert never meets the partial unique index: the one who found no invitation to rotate
\* is still right when it inserts, and there is never a second one.
OneActiveInvite ==
  /\ Cardinality(Active) <= 1
  /\ \A p \in OrgRequests : Doing(p, "inviteWrite") /\ orgReq[p].inv = 0 => Active = {}

\* An invitation that was accepted or revoked is settled, whoever read it before: it lets
\* nobody in, cannot be revoked after it did, and is rotated back to life by no re-invite.
SettledInvite ==
  [][\/ UNCHANGED <<invite, seat>>
     \/ \A i \in Invites :
          /\ invite[i].status \in {"accepted", "revoked"} =>
               invite'[i].status \in {invite[i].status, "purged"}
          /\ seat'[Guest] = i /\ seat[Guest] # i =>
               invite[i].status = "pending" /\ invite[i].live]_orgVars

\* What the locks and the compare-and-set updates of the organisation module are for.
OrganizationIsSound == []KeepsAdmin /\ []OneActiveInvite /\ AclCoversChange /\ SettledInvite

-----------------------------------------------------------------------------
(* What a document or a comment says and the code does not do.             *)

\* "Token rotated, expiry reset": after a re-invite the old link lets nobody in.
OldLinkIsDead ==
  [][\A p \in OrgRequests : Doing(p, "accept") /\ seat'[Guest] # 0 /\ seat[Guest] = 0
       /\ orgReq'[p] = OrgIdle => orgReq[p].token = invite[orgReq[p].inv].token]_orgVars

\* A deleted role leaves no permission behind that no role is linked to.
NoOrphanPermission == \A x \in Perms : perm[x] # "orphan"
=============================================================================
