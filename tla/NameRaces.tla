----------------------------- MODULE NameRaces -----------------------------
(***************************************************************************)
(* Requests that look before they write: accounts, organisations and roles *)
(* whose names are unique, and rows that refer to a role or a member.  The *)
(* look and the write are statements of their own, so the database's       *)
(* constraints have the last word, and the exception filters say it to the *)
(* client.                                                                 *)
(*                                                                         *)
(* Names are members of a small set; an answer is a status and an error    *)
(* code, 200 standing for every success.  The roles and the member are     *)
(* those of the organisation HomeOrg.                                      *)
(***************************************************************************)
EXTENDS Integers, FiniteSets

CONSTANTS
  NrRequests, \* requests
  NrNames,    \* e-mail addresses, slugs and role names
  OrgRows,    \* ids of organisations, a few of them unused
  HomeOrg,    \* the organisation the requests are made in
  RoleRows,   \* ids of its custom roles
  MaxFaults   \* bound: statements that fail for the database's own reasons

ASSUME NameAssumption ==
  /\ HomeOrg \in OrgRows /\ MaxFaults \in Nat /\ RoleRows # {} /\ NrNames # {}
  /\ {"suffixed", "unused", "gone"} \cap NrNames = {}

VARIABLES
  emails,   \* User.emailCanonical
  slugs,    \* Organization.slug
  roleName, \* Role.name
  member,   \* the OrgMember row is there
  held,     \* roles with a MemberRole row for the member
  linked,  \* roles with a RolePermission row
  op,       \* the requests
  since,    \* what each has had in its way since it came
  faults

nrData == <<emails, slugs, roleName, member, held, linked>>
nrVars == <<emails, slugs, roleName, member, held, linked, op, since, faults>>

\* A slug with a random suffix is nobody else's; an id is unused, in use, or gone for good.
NoRow == {"unused", "gone"}
Slug == NrNames \cup {"suffixed"} \cup NoRow

Codes == {"NONE", "EMAIL_ALREADY_EXISTS", "RESOURCE_ALREADY_EXISTS", "CONFLICT", "RESOURCE_NOT_FOUND",
          "FORBIDDEN", "PAYLOAD_TOO_LARGE", "DATABASE_POOL_TIMEOUT", "INTERNAL_SERVER_ERROR",
          "PRISMA_P2025", "PRISMA_P2003", "PRISMA_P2034", "PRISMA_P1017",
          "PRISMA_INITIALIZATION_ERROR", "PRISMA_UNKNOWN_REQUEST_ERROR"}

Kinds == {"register", "createOrg", "nameOrg", "updateOrg", "removeOrg", "createRole", "updateRole",
          "deleteRole", "assignRole", "assignPermission", "removeMember"}

NrAnswer == [status : {0, 200, 400, 403, 404, 409, 413, 500, 503}, code : Codes]
NotYet == [status |-> 0, code |-> "NONE"]

NrOp == [kind : Kinds, name : NrNames, role : RoleRows, org : OrgRows,
         slug : NrNames \cup {"suffixed"},
         pc : {"new", "look", "look again", "write", "session", "done"},
         wrote : BOOLEAN, broke : BOOLEAN, answer : NrAnswer]

NameTypeOK ==
  /\ emails \subseteq NrNames
  /\ slugs \in [OrgRows -> Slug]
  /\ roleName \in [RoleRows -> NrNames \cup NoRow]
  /\ member \in BOOLEAN
  /\ held \subseteq RoleRows /\ linked \subseteq RoleRows
  /\ op \in [NrRequests -> NrOp]
  /\ since \in [NrRequests -> [taken : BOOLEAN, missing : BOOLEAN]]
  /\ faults \in 0 .. MaxFaults

FirstOf(S) == CHOOSE x \in S : TRUE

NameInit ==
  /\ emails = {}
  /\ slugs = [o \in OrgRows |-> IF o = HomeOrg THEN FirstOf(NrNames) ELSE "unused"]
  /\ roleName = [r \in RoleRows |-> IF r = FirstOf(RoleRows) THEN FirstOf(NrNames) ELSE "unused"]
  /\ member = TRUE
  /\ held = {} /\ linked = {}
  /\ op = [p \in NrRequests |->
             [kind |-> "register", name |-> FirstOf(NrNames), role |-> FirstOf(RoleRows),
              org |-> HomeOrg, slug |-> "suffixed", pc |-> "new", wrote |-> FALSE,
              broke |-> FALSE, answer |-> NotYet]]
  /\ since = [p \in NrRequests |-> [taken |-> FALSE, missing |-> FALSE]]
  /\ faults = 0

-----------------------------------------------------------------------------
(* The exception filters.                                                  *)

\* AppException and its kinds, PrismaClientKnownRequestError, and the rest by their class.
App(status, code) == [class |-> "app", status |-> status, code |-> code, fields |-> {}]
Prisma(code, fields) == [class |-> "known", status |-> 0, code |-> code, fields |-> fields]
Other(class) == [class |-> class, status |-> 0, code |-> "NONE", fields |-> {}]

ConflictException == App(409, "CONFLICT")
NotFoundException == App(404, "RESOURCE_NOT_FOUND")
ForbiddenException == App(403, "FORBIDDEN")

\* resolveP2002ErrorCode: the first field with a code of its own.
ResolveP2002ErrorCode(fields) ==
  IF "emailCanonical" \in fields THEN "EMAIL_ALREADY_EXISTS" ELSE "RESOURCE_ALREADY_EXISTS"

\* Slip: a foreign key that fails has no status of its own.
MappingWithoutP2003(code) ==
  CASE code \in {"P2002", "P2034"} -> 409
    [] code = "P2024" -> 503
    [] code = "P2025" -> 404
    [] OTHER -> 500

\* errorCodeMapping.
ErrorCodeMapping(code) ==
  CASE code \in {"P2002", "P2034"} -> 409
    [] code = "P2003" -> 400
    [] code = "P2024" -> 503
    [] code = "P2025" -> 404
    [] OTHER -> 500

\* Slip: a code without one of its own has none.
OwnCodeOnly(e) ==
  CASE e.code = "P2002" -> ResolveP2002ErrorCode(e.fields)
    [] e.code = "P2024" -> "DATABASE_POOL_TIMEOUT"
    [] OTHER -> "undefined"

\* The code of the mapping, or one made of Prisma's own.
PrismaErrorCode(e) ==
  CASE e.code = "P2002" -> ResolveP2002ErrorCode(e.fields)
    [] e.code = "P2024" -> "DATABASE_POOL_TIMEOUT"
    [] e.code = "P2003" -> "PRISMA_P2003"
    [] e.code = "P2025" -> "PRISMA_P2025"
    [] e.code = "P2034" -> "PRISMA_P2034"
    [] e.code = "P1017" -> "PRISMA_P1017"

PrismaFilter(e) ==
  CASE e.class = "known" -> [status |-> ErrorCodeMapping(e.code), code |-> PrismaErrorCode(e)]
    [] e.class = "initialization" -> [status |-> 503, code |-> "PRISMA_INITIALIZATION_ERROR"]
    [] e.class = "unknown" -> [status |-> 503, code |-> "PRISMA_UNKNOWN_REQUEST_ERROR"]

\* The catch-all: body-parser's error becomes a PayloadTooLargeException, the rest is a 500.
AllFilter(e) ==
  IF e.class = "entity.too.large" THEN [status |-> 413, code |-> "PAYLOAD_TOO_LARGE"]
  ELSE [status |-> 500, code |-> "INTERNAL_SERVER_ERROR"]

HttpFilter(e) == [status |-> e.status, code |-> e.code]

\* The most specific filter answers.
Filtered(e) ==
  CASE e.class = "app" -> HttpFilter(e)
    [] e.class \in {"known", "initialization", "unknown"} -> PrismaFilter(e)
    [] OTHER -> AllFilter(e)

-----------------------------------------------------------------------------
(* One request.                                                            *)

NrAt(p, pc) == op[p].pc = pc
NrGo(p, r) == op' = [op EXCEPT ![p] = r]
To(p, pc) == NrGo(p, [op[p] EXCEPT !.pc = pc])
Throws(p, e) == NrGo(p, [op[p] EXCEPT !.pc = "done", !.answer = Filtered(e)])

\* A statement fails for the database's own reasons: pool, deadlock, connection.
Broken == {Prisma("P2024", {}), Prisma("P2034", {}), Prisma("P1017", {}),
           Other("initialization"), Other("unknown")}
Fault == faults < MaxFaults /\ faults' = faults + 1
Breaks(p, wrote) ==
  \E e \in Broken :
    NrGo(p, [op[p] EXCEPT !.pc = "done", !.broke = TRUE, !.wrote = wrote, !.answer = Filtered(e)])

\* The write took effect; its reply may be lost all the same.
Written(p, pc) ==
  \/ /\ NrGo(p, [op[p] EXCEPT !.pc = pc, !.wrote = TRUE,
                              !.answer = IF pc = "done" THEN [status |-> 200, code |-> "NONE"] ELSE @])
     /\ UNCHANGED faults
  \/ Breaks(p, TRUE) /\ Fault

\* What a unique constraint says: the adapter may or may not name the fields.
Unique(p, field) == \E fields \in {{}, {field}} : Throws(p, Prisma("P2002", fields))

IsRow(x) == x \notin NoRow
HomeIsThere == IsRow(slugs[HomeOrg])

\* The rows a request's name must not meet, and those it cannot do without.
NameTaken(p) ==
  LET r == op[p]
  IN CASE r.kind = "register" -> r.name \in emails
       [] r.kind \in {"createOrg", "nameOrg"} -> \E o \in OrgRows : slugs[o] = r.name
       [] r.kind = "updateOrg" -> \E o \in OrgRows \ {r.org} : slugs[o] = r.name
       [] r.kind = "createRole" -> \E x \in RoleRows : roleName[x] = r.name
       [] r.kind = "updateRole" -> \E x \in RoleRows \ {r.role} : roleName[x] = r.name
       [] r.kind = "assignRole" -> r.role \in held
       [] OTHER -> FALSE

RowMissing(p) ==
  LET r == op[p]
  IN CASE r.kind \in {"updateOrg", "removeOrg"} -> ~IsRow(slugs[r.org])
       [] r.kind = "createRole" -> ~HomeIsThere
       [] r.kind \in {"updateRole", "deleteRole", "assignPermission"} -> ~IsRow(roleName[r.role])
       [] r.kind = "assignRole" -> ~member \/ ~IsRow(roleName[r.role])
       [] r.kind = "removeMember" -> ~member
       [] OTHER -> FALSE

\* A request comes; the body may be over the limit.
ArriveNr(p) ==
  /\ NrAt(p, "new")
  /\ \/ \E kind \in Kinds, name \in NrNames, role \in RoleRows, org \in OrgRows :
          /\ roleName[role] # "unused" /\ slugs[org] # "unused"
          \* What a request does not mention stays as it is.
          /\ kind \notin {"updateRole", "deleteRole", "assignRole", "assignPermission"} =>
               role = FirstOf(RoleRows)
          /\ kind \notin {"updateOrg", "removeOrg"} => org = HomeOrg
          /\ kind \in {"removeOrg", "deleteRole", "assignRole", "assignPermission", "removeMember"} =>
               name = FirstOf(NrNames)
          /\ NrGo(p, [op[p] EXCEPT !.pc = "look", !.kind = kind, !.name = name, !.role = role,
                                   !.org = org])
     \/ Throws(p, Other("entity.too.large"))
  /\ UNCHANGED <<nrData, faults>>

\* The first statement fails, or a later one without effect.
StatementFails(p) ==
  /\ op[p].pc \in {"look", "look again", "write", "session"}
  /\ Breaks(p, op[p].wrote) /\ Fault
  /\ UNCHANGED nrData

-----------------------------------------------------------------------------
(* The look.                                                               *)

\* register, create, update and createRole: the name is taken already.
LookForName(p) ==
  /\ NrAt(p, "look")
  /\ op[p].kind \in {"register", "createOrg", "updateOrg", "createRole"}
  /\ IF NameTaken(p)
     THEN Throws(p, IF op[p].kind = "register" THEN App(409, "EMAIL_ALREADY_EXISTS")
                    ELSE ConflictException)
     ELSE NrGo(p, [op[p] EXCEPT !.pc = "write", !.slug = op[p].name])
  /\ UNCHANGED <<nrData, faults>>

\* generateSlug: a base that is taken gets a random suffix, and nothing is looked up again.
GenerateSlug(p) ==
  /\ NrAt(p, "look") /\ op[p].kind = "nameOrg"
  /\ NrGo(p, [op[p] EXCEPT !.pc = "write",
                           !.slug = IF NameTaken(p) THEN "suffixed" ELSE op[p].name])
  /\ UNCHANGED <<nrData, faults>>

\* findCustomRole; updateRole then looks for the name, unless the role has it.
FindCustomRole(p) ==
  /\ NrAt(p, "look") /\ op[p].kind \in {"updateRole", "deleteRole", "assignPermission"}
  /\ IF ~IsRow(roleName[op[p].role]) THEN Throws(p, NotFoundException)
     ELSE To(p, IF op[p].kind = "updateRole" /\ roleName[op[p].role] # op[p].name
                THEN "look again" ELSE "write")
  /\ UNCHANGED <<nrData, faults>>

NameConflict(p) ==
  /\ NrAt(p, "look again") /\ op[p].kind = "updateRole"
  /\ IF NameTaken(p) THEN Throws(p, ConflictException) ELSE To(p, "write")
  /\ UNCHANGED <<nrData, faults>>

\* assignRole: the member outside the transaction, the role and the link inside.
FindMember(p) ==
  /\ NrAt(p, "look") /\ op[p].kind = "assignRole"
  /\ IF ~member THEN Throws(p, NotFoundException) ELSE To(p, "look again")
  /\ UNCHANGED <<nrData, faults>>

AssertAssignable(p) ==
  /\ NrAt(p, "look again") /\ op[p].kind = "assignRole"
  /\ IF ~IsRow(roleName[op[p].role]) THEN Throws(p, ForbiddenException)
     ELSE IF op[p].role \in held THEN Throws(p, ConflictException)
     ELSE To(p, "write")
  /\ UNCHANGED <<nrData, faults>>

-----------------------------------------------------------------------------
(* The write.                                                              *)

InsertUser(p) ==
  /\ NrAt(p, "write") /\ op[p].kind = "register"
  /\ IF op[p].name \in emails
     THEN Unique(p, "emailCanonical") /\ UNCHANGED <<emails, faults>>
     ELSE Written(p, "session") /\ emails' = emails \cup {op[p].name}
  /\ UNCHANGED <<slugs, roleName, member, held, linked>>

\* createSession and the verification token: a row each, and the answer.
OpenFirstSession(p) ==
  /\ NrAt(p, "session") /\ Written(p, "done")
  /\ UNCHANGED nrData

\* The organisation, its first member and that member's role in one transaction.
InsertOrg(p) ==
  /\ NrAt(p, "write") /\ op[p].kind \in {"createOrg", "nameOrg"}
  /\ IF op[p].slug \in NrNames /\ \E o \in OrgRows : slugs[o] = op[p].slug
     THEN Unique(p, "slug") /\ UNCHANGED <<slugs, faults>>
     ELSE \E o \in OrgRows : /\ slugs[o] = "unused"
                             /\ slugs' = [slugs EXCEPT ![o] = op[p].slug]
                             /\ Written(p, "done")
  /\ UNCHANGED <<emails, roleName, member, held, linked>>

UpdateOrg(p) ==
  /\ NrAt(p, "write") /\ op[p].kind = "updateOrg"
  /\ IF ~IsRow(slugs[op[p].org]) THEN Throws(p, Prisma("P2025", {})) /\ UNCHANGED <<slugs, faults>>
     ELSE IF NameTaken(p) THEN Unique(p, "slug") /\ UNCHANGED <<slugs, faults>>
     ELSE Written(p, "done") /\ slugs' = [slugs EXCEPT ![op[p].org] = op[p].name]
  /\ UNCHANGED <<emails, roleName, member, held, linked>>

\* remove: everything of the organisation goes with it.
RemoveOrg(p) ==
  /\ NrAt(p, "look") /\ op[p].kind = "removeOrg"
  /\ IF ~IsRow(slugs[op[p].org])
     THEN Throws(p, Prisma("P2025", {})) /\ UNCHANGED <<nrData, faults>>
     ELSE /\ Written(p, "done")
          /\ slugs' = [slugs EXCEPT ![op[p].org] = "gone"]
          /\ IF op[p].org # HomeOrg THEN UNCHANGED <<roleName, member, held, linked>>
             ELSE /\ roleName' = [r \in RoleRows |-> IF IsRow(roleName[r]) THEN "gone" ELSE roleName[r]]
                  /\ member' = FALSE /\ held' = {} /\ linked' = {}
          /\ UNCHANGED emails

InsertRole(p) ==
  /\ NrAt(p, "write") /\ op[p].kind = "createRole"
  /\ IF ~HomeIsThere THEN Throws(p, Prisma("P2003", {})) /\ UNCHANGED <<roleName, faults>>
     ELSE IF NameTaken(p) THEN Unique(p, "name") /\ UNCHANGED <<roleName, faults>>
     ELSE \E r \in RoleRows : /\ roleName[r] = "unused"
                              /\ roleName' = [roleName EXCEPT ![r] = op[p].name]
                              /\ Written(p, "done")
  /\ UNCHANGED <<emails, slugs, member, held, linked>>

UpdateRole(p) ==
  /\ NrAt(p, "write") /\ op[p].kind = "updateRole"
  /\ IF ~IsRow(roleName[op[p].role])
     THEN Throws(p, Prisma("P2025", {})) /\ UNCHANGED <<roleName, faults>>
     ELSE IF NameTaken(p) THEN Unique(p, "name") /\ UNCHANGED <<roleName, faults>>
     ELSE Written(p, "done") /\ roleName' = [roleName EXCEPT ![op[p].role] = op[p].name]
  /\ UNCHANGED <<emails, slugs, member, held, linked>>

\* The role, its links and its holders' rows.
RemoveRoleRow(p) ==
  /\ NrAt(p, "write") /\ op[p].kind = "deleteRole"
  /\ IF ~IsRow(roleName[op[p].role])
     THEN Throws(p, Prisma("P2025", {})) /\ UNCHANGED <<roleName, held, linked, faults>>
     ELSE /\ Written(p, "done")
          /\ roleName' = [roleName EXCEPT ![op[p].role] = "gone"]
          /\ held' = held \ {op[p].role} /\ linked' = linked \ {op[p].role}
  /\ UNCHANGED <<emails, slugs, member>>

InsertMemberRole(p) ==
  /\ NrAt(p, "write") /\ op[p].kind = "assignRole"
  /\ IF ~member \/ ~IsRow(roleName[op[p].role])
     THEN Throws(p, Prisma("P2003", {})) /\ UNCHANGED <<held, faults>>
     ELSE IF op[p].role \in held THEN Unique(p, "memberId") /\ UNCHANGED <<held, faults>>
     ELSE Written(p, "done") /\ held' = held \cup {op[p].role}
  /\ UNCHANGED <<emails, slugs, roleName, member, linked>>

\* A fresh permission and its link, in one transaction.
InsertPermission(p) ==
  /\ NrAt(p, "write") /\ op[p].kind = "assignPermission"
  /\ IF ~IsRow(roleName[op[p].role])
     THEN Throws(p, Prisma("P2003", {})) /\ UNCHANGED <<linked, faults>>
     ELSE Written(p, "done") /\ linked' = linked \cup {op[p].role}
  /\ UNCHANGED <<emails, slugs, roleName, member, held>>

\* removeMember: found and deleted under the lock of its transaction.
DeleteMember(p) ==
  /\ NrAt(p, "look") /\ op[p].kind = "removeMember"
  /\ IF ~member THEN Throws(p, NotFoundException) /\ UNCHANGED <<member, held, faults>>
     ELSE Written(p, "done") /\ member' = FALSE /\ held' = {}
  /\ UNCHANGED <<emails, slugs, roleName, linked>>

NameStep(p) ==
  \/ ArriveNr(p) \/ StatementFails(p)
  \/ LookForName(p) \/ GenerateSlug(p) \/ FindCustomRole(p) \/ NameConflict(p)
  \/ FindMember(p) \/ AssertAssignable(p)
  \/ InsertUser(p) \/ OpenFirstSession(p) \/ InsertOrg(p) \/ UpdateOrg(p) \/ RemoveOrg(p)
  \/ InsertRole(p) \/ UpdateRole(p) \/ RemoveRoleRow(p) \/ InsertMemberRole(p)
  \/ InsertPermission(p) \/ DeleteMember(p)

\* What a request meets from its arrival to its answer.
Observe ==
  since' = [p \in NrRequests |->
              IF op[p].pc = "done" \/ op'[p].pc = "new" THEN since[p]
              ELSE [taken |-> since[p].taken \/ NameTaken(p)', missing |-> since[p].missing \/ RowMissing(p)']]

NameNext == (\E p \in NrRequests : NameStep(p)) /\ Observe

NameSpec == NameInit /\ [][NameNext]_nrVars

-----------------------------------------------------------------------------
(* Properties.                                                             *)

\* Whatever passes between a look and its write, no two rows carry one name.
NamesAreUnique ==
  /\ \A o, q \in OrgRows : slugs[o] = slugs[q] /\ slugs[o] \in NrNames => o = q
  /\ \A r, s \in RoleRows : roleName[r] = roleName[s] /\ IsRow(roleName[r]) => r = s

\* No row refers to a role or a member that has gone.
RowsAreWhole ==
  /\ \A r \in held \cup linked : IsRow(roleName[r])
  /\ held # {} => member
  /\ HomeIsThere \/ (~member /\ \A r \in RoleRows : ~IsRow(roleName[r]))

\* A request the database served is told what happened to it: success exactly when it wrote,
\* a conflict only when another row had its name while it ran, 400, 403 or 404 only when a row
\* it needs was missing while it ran, and never an error of the server.
AnswerIsHonest(p) ==
  LET s == op[p].answer.status
  IN NrAt(p, "done") /\ ~op[p].broke =>
       /\ s = 200 <=> op[p].wrote
       /\ s = 409 => since[p].taken
       /\ s \in {400, 403, 404} => since[p].missing
       /\ s < 500

RacesAreAnswered == NamesAreUnique /\ RowsAreWhole /\ \A p \in NrRequests : AnswerIsHonest(p)

\* What docs/auth/email-auth.md:57-58 says: an address that is taken is answered
\* EMAIL_ALREADY_EXISTS.
TakenEmailIsNamed ==
  \A p \in NrRequests :
    op[p].kind = "register" /\ op[p].answer.status = 409 /\ ~op[p].broke =>
      op[p].answer.code = "EMAIL_ALREADY_EXISTS"
=============================================================================
