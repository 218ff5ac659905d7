---------------------------- MODULE AccessProofs ----------------------------
(***************************************************************************)
(* What the run of AccessMC shows of small instances, proved for every     *)
(* value of the constants: an inductive invariant of each component, and   *)
(* the property it implies.                                                *)
(***************************************************************************)
EXTENDS AccessMC, FiniteSetTheorems, WellFoundedInduction, TLAPS

-----------------------------------------------------------------------------
(* Authorization.                                                          *)

\* The database: content and version move together, and no cache or request is ahead of them.
DatabaseLeads ==
  /\ dbContent = dbVersion /\ verKey <= dbVersion /\ settled <= dbVersion
  /\ \A n \in dels : n <= dbVersion

\* What is cached for a version is at least as new.
CacheCovers == \A v \in Versions : permKey[v] # 0 => permKey[v] >= v

\* What a request knows at each of its steps.
RequestKnows(r) ==
  /\ r.from <= dbVersion /\ r.version <= dbVersion
  /\ r.pc \in {"cacheValue", "perms", "load", "store", "granted"} => r.version # 0
  /\ r.pc \in {"store", "granted"} => r.got >= r.version
  /\ r.pc = "apiKey" => r.kind = "api_key"
  /\ r.pc \in {"jwt", "cacheValue"} => r.kind = "jwt"
  /\ r.kind = "api_key" /\ r.pc \in {"perms", "load", "store", "granted"} =>
       r.version >= r.from /\ ~r.revoked
  /\ r.revoked => keyRow = "revoked"

AuthInv ==
  /\ AuthTypeOK /\ DatabaseLeads /\ CacheCovers
  /\ \A p \in AuthRequests : RequestKnows(authReq[p])

LEMMA AuthInitInv == AuthInit => AuthInv
<1> SUFFICES ASSUME AuthInit PROVE AuthInv
  OBVIOUS
<1>1. 1 \in Versions
  BY AuthAssumption DEF Versions
<1>2. AuthIdle \in AuthRecord
  BY <1>1 DEF AuthIdle, AuthRecord
<1>3. AuthTypeOK
  BY <1>1, <1>2 DEF AuthInit, AuthTypeOK
<1>4. DatabaseLeads /\ CacheCovers
  BY DEF AuthInit, DatabaseLeads, CacheCovers
<1>5. ASSUME NEW p \in AuthRequests PROVE RequestKnows(authReq[p])
  BY DEF AuthInit, RequestKnows, AuthIdle
<1> QED
  BY <1>3, <1>4, <1>5 DEF AuthInv

\* A request that moves while the database stands still.
LEMMA RequestMoves ==
  ASSUME AuthInv, NEW p \in AuthRequests, NEW r \in AuthRecord, RequestKnows(r),
         authReq' = [authReq EXCEPT ![p] = r], UNCHANGED <<db, dels, settled>>,
         verKey' \in Versions \cup {0}, verKey' <= dbVersion,
         permKey' \in [Versions -> Versions \cup {0}], CacheCovers',
         permLock' \in AuthRequests \cup {NoAuthRequest}, touching' \in BOOLEAN
  PROVE  AuthInv'
<1>1. authReq' \in [AuthRequests -> AuthRecord]
  BY DEF AuthInv, AuthTypeOK
<1>2. AuthTypeOK'
  BY <1>1 DEF AuthInv, AuthTypeOK, db
<1>3. DatabaseLeads'
  BY DEF AuthInv, DatabaseLeads, db
<1>4. ASSUME NEW q \in AuthRequests PROVE RequestKnows(authReq[q])'
  <2>1. authReq'[q] = IF q = p THEN r ELSE authReq[q]
    BY DEF AuthInv, AuthTypeOK
  <2>2. RequestKnows(authReq[q])
    BY DEF AuthInv
  <2>3. CASE q = p
    BY <2>1, <2>3 DEF RequestKnows, db
  <2>4. CASE q # p
    BY <2>1, <2>2, <2>4 DEF RequestKnows, db
  <2> QED
    BY <2>3, <2>4
<1> QED
  BY <1>2, <1>3, <1>4 DEF AuthInv

\* Steps of which no request is the actor.
LEMMA WorldKeepsAuth ==
  ASSUME AuthInv,
         MutateAcl \/ Invalidate \/ CreateKey \/ RevokeKey \/ TouchLastUsed \/ CacheExpires
  PROVE  AuthInv'
<1> USE AuthAssumption
<1>1. CASE MutateAcl
  <2>1. dbVersion' = dbVersion + 1 /\ dbVersion + 1 \in Versions /\ dbVersion \in Versions
    BY <1>1 DEF MutateAcl, CommitChange, AuthInv, AuthTypeOK, Versions
  <2>2. AuthTypeOK'
    BY <1>1, <2>1 DEF MutateAcl, CommitChange, cache, AuthInv, AuthTypeOK
  <2>3. DatabaseLeads'
    BY <1>1, <2>1 DEF MutateAcl, CommitChange, cache, AuthInv, AuthTypeOK, DatabaseLeads, Versions
  <2>4. CacheCovers'
    BY <1>1 DEF MutateAcl, cache, AuthInv, CacheCovers
  <2>5. ASSUME NEW q \in AuthRequests PROVE RequestKnows(authReq[q])'
    <3>1. RequestKnows(authReq[q]) /\ authReq[q] \in AuthRecord
      BY DEF AuthInv, AuthTypeOK
    <3>2. authReq'[q] = authReq[q] /\ keyRow' = keyRow
      BY <1>1 DEF MutateAcl
    <3> QED
      BY <2>1, <3>1, <3>2 DEF RequestKnows, AuthRecord, Versions
  <2> QED
    BY <2>2, <2>3, <2>4, <2>5 DEF AuthInv
<1>2. CASE Invalidate
  <2>1. AuthTypeOK'
    BY <1>2 DEF Invalidate, db, AuthInv, AuthTypeOK, Versions
  <2>2. DatabaseLeads'
    BY <1>2 DEF Invalidate, db, AuthInv, AuthTypeOK, DatabaseLeads, Versions
  <2> QED
    BY <1>2, <2>1, <2>2 DEF Invalidate, db, AuthInv, CacheCovers, RequestKnows
<1>3. CASE CreateKey
  BY <1>3 DEF CreateKey, cache, AuthInv, AuthTypeOK, DatabaseLeads, CacheCovers, RequestKnows
<1>4. CASE RevokeKey
  BY <1>4 DEF RevokeKey, cache, AuthInv, AuthTypeOK, DatabaseLeads, CacheCovers, RequestKnows
<1>5. CASE TouchLastUsed
  BY <1>5 DEF TouchLastUsed, UpdateLastUsed, cache, AuthInv, AuthTypeOK, DatabaseLeads,
              CacheCovers, RequestKnows
<1>6. CASE CacheExpires
  <2>1. AuthTypeOK'
    BY <1>6 DEF CacheExpires, db, AuthInv, AuthTypeOK
  <2>2. DatabaseLeads'
    BY <1>6 DEF CacheExpires, db, AuthInv, AuthTypeOK, DatabaseLeads, Versions
  <2>3. CacheCovers'
    BY <1>6 DEF CacheExpires, AuthInv, AuthTypeOK, CacheCovers
  <2> QED
    BY <1>6, <2>1, <2>2, <2>3 DEF CacheExpires, db, AuthInv, RequestKnows
<1> QED
  BY <1>1, <1>2, <1>3, <1>4, <1>5, <1>6

\* Steps of a request.
LEMMA RequestKeepsAuth ==
  ASSUME AuthInv, NEW p \in AuthRequests,
         \/ Receive(p) \/ ApiKeyGuard(p) \/ GetCurrent(p) \/ GetCurrentFromDb(p) \/ CacheValue(p)
         \/ ReadPermissionsCache(p) \/ GetPermissions(p) \/ LoadPermissionsFromDb(p)
         \/ FetchAndCachePermissions(p) \/ Respond(p)
  PROVE  AuthInv'
<1> DEFINE old == authReq[p]
<1>t. /\ old \in AuthRecord /\ RequestKnows(old) /\ CacheCovers /\ DatabaseLeads
      /\ verKey \in Versions \cup {0} /\ permKey \in [Versions -> Versions \cup {0}]
      /\ permLock \in AuthRequests \cup {NoAuthRequest} /\ touching \in BOOLEAN
      /\ dbVersion \in Versions /\ settled \in Versions /\ dbContent = dbVersion
  BY DEF AuthInv, AuthTypeOK, DatabaseLeads
<1>f. /\ old.kind \in {"jwt", "api_key"} /\ old.version \in Versions \cup {0}
      /\ old.got \in Versions \cup {0} /\ old.from \in Versions /\ old.revoked \in BOOLEAN
  BY <1>t DEF AuthRecord
<1>i. AuthIdle \in AuthRecord /\ RequestKnows(AuthIdle)
  <2>1. 1 \in Versions /\ 1 <= dbVersion /\ 0 <= dbVersion
    BY <1>t, AuthAssumption DEF Versions
  <2>2. AuthIdle \in AuthRecord
    BY <2>1 DEF AuthIdle, AuthRecord
  <2> QED
    BY <2>1, <2>2 DEF AuthIdle, RequestKnows
<1>c. CacheCovers' \/ permKey' # permKey
  BY <1>t DEF CacheCovers
<1>1. CASE Receive(p)
  <2>1. PICK k \in {"jwt", "api_key"} :
          AuthSet(p, [AuthIdle EXCEPT !.pc = IF k = "jwt" THEN "jwt" ELSE "apiKey", !.kind = k,
                                      !.from = settled, !.revoked = (keyRow = "revoked")])
    BY <1>1 DEF Receive
  <2>r. PICK gone \in BOOLEAN : gone <=> keyRow = "revoked"
    OBVIOUS
  <2> DEFINE pc == IF k = "jwt" THEN "jwt" ELSE "apiKey"
             r == [AuthIdle EXCEPT !.pc = pc, !.kind = k, !.from = settled,
                                   !.revoked = gone]
  <2>2. authReq' = [authReq EXCEPT ![p] = r]
    <3>1. (keyRow = "revoked") = gone
      BY <2>r, Zenon
    <3> QED
      BY <2>1, <3>1 DEF AuthSet
  <2>3. /\ r.pc = pc /\ r.kind = k /\ r.version = 0 /\ r.from = settled
        /\ r.revoked = gone /\ r \in AuthRecord
    BY <1>t, <1>i DEF AuthRecord, AuthIdle
  <2> HIDE DEF r
  <2>4. RequestKnows(r)
    BY <1>t, <2>r, <2>3 DEF RequestKnows, DatabaseLeads, Versions
  <2> QED
    BY <1>1, <1>t, <1>c, <2>2, <2>3, <2>4, RequestMoves DEF Receive, cache, db, DatabaseLeads
<1>2. CASE ApiKeyGuard(p)
  <2>1. CASE keyRow = "live" /\ isMember
    <3> DEFINE r == [old EXCEPT !.pc = "perms", !.version = dbVersion]
    <3>1. authReq' = [authReq EXCEPT ![p] = r] /\ touching' \in BOOLEAN
      BY <1>2, <2>1 DEF ApiKeyGuard, AuthSet
    <3>2. r \in AuthRecord
      BY <1>t DEF AuthRecord
    <3>3. /\ r.pc = "perms" /\ r.version = dbVersion /\ r.kind = old.kind /\ r.from = old.from
          /\ r.revoked = old.revoked
      BY <1>t DEF AuthRecord
    <3> HIDE DEF r
    <3>4. RequestKnows(r)
      BY <1>2, <1>t, <1>f, <2>1, <3>3 DEF RequestKnows, ApiKeyGuard, AuthAt, Versions
    <3> QED
      BY <1>2, <1>t, <1>c, <3>1, <3>2, <3>4, RequestMoves DEF ApiKeyGuard, cache, db, DatabaseLeads
  <2>2. CASE ~(keyRow = "live" /\ isMember)
    BY <1>2, <1>t, <1>i, <1>c, <2>2, RequestMoves
       DEF ApiKeyGuard, AuthSet, cache, db, DatabaseLeads
  <2> QED
    BY <2>1, <2>2
<1>3. CASE GetCurrent(p)
  <2> DEFINE r == [old EXCEPT !.pc = "perms", !.version = verKey]
  <2>1. authReq' = [authReq EXCEPT ![p] = r]
    BY <1>3 DEF GetCurrent, AuthSet
  <2>2. r \in AuthRecord
    BY <1>t DEF AuthRecord
  <2>3. /\ r.pc = "perms" /\ r.version = verKey /\ r.kind = old.kind /\ r.from = old.from
        /\ r.revoked = old.revoked
    BY <1>t DEF AuthRecord
  <2> HIDE DEF r
  <2>4. RequestKnows(r)
    BY <1>3, <1>t, <1>f, <2>3 DEF RequestKnows, GetCurrent, AuthAt, DatabaseLeads, Versions
  <2> QED
    BY <1>3, <1>t, <1>c, <2>1, <2>2, <2>4, RequestMoves DEF GetCurrent, cache, db, DatabaseLeads
<1>4. CASE GetCurrentFromDb(p)
  <2> DEFINE r == [old EXCEPT !.pc = "cacheValue", !.version = dbVersion]
  <2>1. authReq' = [authReq EXCEPT ![p] = r]
    BY <1>4 DEF GetCurrentFromDb, AuthSet
  <2>2. r \in AuthRecord
    BY <1>t DEF AuthRecord
  <2>3. /\ r.pc = "cacheValue" /\ r.version = dbVersion /\ r.kind = old.kind /\ r.from = old.from
        /\ r.revoked = old.revoked
    BY <1>t DEF AuthRecord
  <2> HIDE DEF r
  <2>4. RequestKnows(r)
    BY <1>4, <1>t, <1>f, <2>3 DEF RequestKnows, GetCurrentFromDb, AuthAt, Versions
  <2> QED
    BY <1>4, <1>t, <1>c, <2>1, <2>2, <2>4, RequestMoves
       DEF GetCurrentFromDb, cache, db, DatabaseLeads
<1>5. CASE CacheValue(p)
  <2> DEFINE r == [old EXCEPT !.pc = "perms"]
  <2>1. authReq' = [authReq EXCEPT ![p] = r]
    BY <1>5 DEF CacheValue, AuthSet
  <2>2. r \in AuthRecord
    BY <1>t DEF AuthRecord
  <2>3. /\ r.pc = "perms" /\ r.version = old.version /\ r.kind = old.kind /\ r.from = old.from
        /\ r.revoked = old.revoked
    BY <1>t DEF AuthRecord
  <2> HIDE DEF r
  <2>4. RequestKnows(r)
    BY <1>5, <1>t, <1>f, <2>3 DEF RequestKnows, CacheValue, AuthAt, Versions
  <2>5. verKey' \in Versions \cup {0} /\ verKey' <= dbVersion
    BY <1>5, <1>t, <1>f DEF RequestKnows, CacheValue, DatabaseLeads
  <2> QED
    BY <1>5, <1>t, <1>c, <2>1, <2>2, <2>4, <2>5, RequestMoves DEF CacheValue, db
<1>6. CASE ReadPermissionsCache(p)
  <2>1. old.version \in Versions /\ permKey[old.version] \in Versions \cup {0}
    BY <1>6, <1>t, <1>f DEF RequestKnows, ReadPermissionsCache, AuthAt
  <2>2. permKey[old.version] # 0 /\ permKey[old.version] >= old.version
    BY <1>6, <1>t, <2>1 DEF ReadPermissionsCache, CacheCovers
  <2> DEFINE r == [old EXCEPT !.pc = "granted", !.got = permKey[old.version]]
  <2>3. authReq' = [authReq EXCEPT ![p] = r]
    BY <1>6 DEF ReadPermissionsCache, AuthSet
  <2>4. r \in AuthRecord
    BY <1>t, <2>1 DEF AuthRecord
  <2>5. /\ r.pc = "granted" /\ r.version = old.version /\ r.kind = old.kind /\ r.from = old.from
        /\ r.revoked = old.revoked /\ r.got = permKey[old.version]
    BY <1>t DEF AuthRecord
  <2> HIDE DEF r
  <2>6. RequestKnows(r)
    BY <1>6, <1>t, <1>f, <2>1, <2>2, <2>5 DEF RequestKnows, ReadPermissionsCache, AuthAt, Versions
  <2> QED
    BY <1>6, <1>t, <1>c, <2>3, <2>4, <2>6, RequestMoves
       DEF ReadPermissionsCache, cache, db, DatabaseLeads
<1>7. CASE GetPermissions(p)
  <2> DEFINE r == [old EXCEPT !.pc = "load"]
  <2>1. authReq' = [authReq EXCEPT ![p] = r]
    BY <1>7 DEF GetPermissions, AuthSet
  <2>2. r \in AuthRecord
    BY <1>t DEF AuthRecord
  <2>3. /\ r.pc = "load" /\ r.version = old.version /\ r.kind = old.kind /\ r.from = old.from
        /\ r.revoked = old.revoked
    BY <1>t DEF AuthRecord
  <2> HIDE DEF r
  <2>4. RequestKnows(r)
    BY <1>7, <1>t, <1>f, <2>3 DEF RequestKnows, GetPermissions, AuthAt
  <2> QED
    BY <1>7, <1>t, <1>c, <2>1, <2>2, <2>4, RequestMoves DEF GetPermissions, db, DatabaseLeads
<1>8. CASE LoadPermissionsFromDb(p)
  <2> DEFINE r == [old EXCEPT !.pc = "store", !.got = dbContent]
  <2>1. authReq' = [authReq EXCEPT ![p] = r]
    BY <1>8 DEF LoadPermissionsFromDb, AuthSet
  <2>2. r \in AuthRecord
    BY <1>t DEF AuthRecord
  <2>3. /\ r.pc = "store" /\ r.version = old.version /\ r.kind = old.kind /\ r.from = old.from
        /\ r.revoked = old.revoked /\ r.got = dbVersion
    BY <1>t DEF AuthRecord
  <2> HIDE DEF r
  <2>4. RequestKnows(r)
    BY <1>8, <1>t, <1>f, <2>3 DEF RequestKnows, LoadPermissionsFromDb, AuthAt, Versions
  <2> QED
    BY <1>8, <1>t, <1>c, <2>1, <2>2, <2>4, RequestMoves
       DEF LoadPermissionsFromDb, cache, db, DatabaseLeads
<1>9. CASE FetchAndCachePermissions(p)
  <2>1. old.version \in Versions /\ old.got >= old.version /\ old.got \in Versions \cup {0}
    BY <1>9, <1>t, <1>f DEF RequestKnows, FetchAndCachePermissions, AuthAt
  <2>2. permLock' \in AuthRequests \cup {NoAuthRequest}
    BY <1>9, <1>t DEF FetchAndCachePermissions, Unlock
  <2>3. CASE AuthSet(p, AuthIdle) /\ UNCHANGED permKey
    BY <1>9, <1>t, <1>i, <1>c, <2>2, <2>3, RequestMoves
       DEF FetchAndCachePermissions, AuthSet, db, DatabaseLeads
  <2>4. CASE /\ permKey' = [permKey EXCEPT ![old.version] = old.got]
             /\ AuthSet(p, [old EXCEPT !.pc = "granted"])
    <3>1. permKey' \in [Versions -> Versions \cup {0}] /\ CacheCovers'
      BY <1>t, <2>1, <2>4 DEF CacheCovers
    <3> DEFINE r == [old EXCEPT !.pc = "granted"]
    <3>2. authReq' = [authReq EXCEPT ![p] = r]
      BY <2>4 DEF AuthSet
    <3>3. r \in AuthRecord
      BY <1>t DEF AuthRecord
    <3>4. /\ r.pc = "granted" /\ r.version = old.version /\ r.kind = old.kind
          /\ r.from = old.from /\ r.revoked = old.revoked /\ r.got = old.got
      BY <1>t DEF AuthRecord
    <3> HIDE DEF r
    <3>5. RequestKnows(r)
      BY <1>9, <1>t, <1>f, <3>4 DEF RequestKnows, FetchAndCachePermissions, AuthAt
    <3> QED
      BY <1>9, <1>t, <2>2, <3>1, <3>2, <3>3, <3>5, RequestMoves
         DEF FetchAndCachePermissions, db, DatabaseLeads
  <2> QED
    BY <1>9, <2>3, <2>4 DEF FetchAndCachePermissions
<1>10. CASE Respond(p)
  BY <1>10, <1>t, <1>i, <1>c, RequestMoves DEF Respond, AuthSet, cache, db, DatabaseLeads
<1> QED
  BY <1>1, <1>2, <1>3, <1>4, <1>5, <1>6, <1>7, <1>8, <1>9, <1>10

\* Every state of the caches: types, the database ahead of what is cached and known, and what each
\* request knows at its step.
THEOREM AuthInvariant == AuthSpec => []AuthInv
<1>1. AuthInit => AuthInv
  BY AuthInitInv
<1>2. AuthInv /\ [AuthNext]_authVars => AuthInv'
  <2> SUFFICES ASSUME AuthInv, [AuthNext]_authVars PROVE AuthInv'
    OBVIOUS
  <2>1. CASE AuthNext
    BY <2>1, WorldKeepsAuth, RequestKeepsAuth DEF AuthNext
  <2>2. CASE UNCHANGED authVars
    BY <2>2 DEF authVars, AuthInv, AuthTypeOK, DatabaseLeads, CacheCovers, RequestKnows
  <2> QED
    BY <2>1, <2>2
<1> QED
  BY <1>1, <1>2, PTL DEF AuthSpec

\* Permissions are never older than the version they are kept under, nor than any mutation that
\* was over when a request by API key began, however reads, stores and invalidations interleave.
THEOREM AuthorizationHolds == AuthSpec => []AuthorizationIsSound
<1>1. AuthInv => AuthorizationIsSound
  <2> SUFFICES ASSUME AuthInv PROVE AuthorizationIsSound
    OBVIOUS
  <2>1. ASSUME NEW p \in AuthRequests, AuthAt(p, "granted")
        PROVE  /\ authReq[p].got >= authReq[p].version
               /\ authReq[p].kind = "api_key" =>
                    authReq[p].got >= authReq[p].from /\ ~authReq[p].revoked
    <3>1. RequestKnows(authReq[p]) /\ authReq[p] \in AuthRecord
      BY DEF AuthInv, AuthTypeOK
    <3> QED
      BY <2>1, <3>1 DEF AuthAt, RequestKnows, AuthRecord, Versions
  <2> QED
    BY <2>1 DEF AuthInv, CacheCovers, AuthorizationIsSound, PermsNotOlderThanKey, KeyRequestIsFresh
<1> QED
  BY <1>1, AuthInvariant, PTL

-----------------------------------------------------------------------------
(* SystemRoles.                                                            *)

\* Between its check and its commit a change holds the lock, and what it has checked holds.
ChangeIsCurrent(p) ==
  /\ srReq[p].pc \in {"check", "update"} => srLock = p
  /\ srReq[p].pc = "update" =>
       /\ systemRole[srReq[p].target] = srReq[p].before
       /\ Super(srReq[p].target) => \E u \in People \ {srReq[p].target} : Super(u)

SrInv ==
  /\ SrTypeOK /\ SomebodyIsAdmin /\ AuditReplays
  /\ \A p \in SrRequests : ChangeIsCurrent(p)

LEMMA SrInitInv == SrInit => SrInv
<1> SUFFICES ASSUME SrInit PROVE SrInv
  OBVIOUS
<1>1. SrIdle \in SrRecord
  BY SrAssumption DEF SrIdle, SrRecord, SystemRole
<1>2. SrTypeOK
  <2>1. auditLog \in Seq([target : People, before : SystemRole, after : SystemRole])
    BY DEF SrInit
  <2> QED
    BY <1>1, <2>1, SrAssumption DEF SrInit, SrTypeOK, SystemRole
<1>3. SomebodyIsAdmin
  BY SrAssumption DEF SrInit, SomebodyIsAdmin, Super
<1>4. AuditReplays
  <2>1. DOMAIN auditLog = {}
    BY DEF SrInit
  <2>2. \A u \in People : Changes(u) = {}
    BY <2>1 DEF Changes
  <2> QED
    BY <2>2 DEF AuditReplays
<1>5. ASSUME NEW p \in SrRequests PROVE ChangeIsCurrent(p)
  BY DEF SrInit, ChangeIsCurrent, SrIdle
<1> QED
  BY <1>2, <1>3, <1>4, <1>5 DEF SrInv

\* A step that leaves roles and audit alone, and moves one request at most.
LEMMA RolesStand ==
  ASSUME SrInv, NEW p \in SrRequests, NEW r \in SrRecord,
         srReq' = [srReq EXCEPT ![p] = r], UNCHANGED <<systemRole, claim, signedIn, auditLog>>,
         \/ srLock' = srLock /\ (r.pc \in {"check", "update"} => srLock = p)
         \/ srLock' = (IF srLock = p THEN NoRequestSr ELSE srLock) /\ r.pc \notin {"check", "update"}
         \/ srLock = NoRequestSr /\ srLock' = p /\ r.pc = "check",
         r.pc = "update" => /\ systemRole[r.target] = r.before
                            /\ Super(r.target) => \E u \in People \ {r.target} : Super(u)
  PROVE  SrInv'
<1>1. SrTypeOK'
  BY DEF SrInv, SrTypeOK
<1>2. SomebodyIsAdmin' /\ AuditReplays'
  BY DEF SrInv, SomebodyIsAdmin, AuditReplays, Changes, Super
<1>3. ASSUME NEW q \in SrRequests PROVE ChangeIsCurrent(q)'
  <2>1. ChangeIsCurrent(q) /\ srReq'[q] = IF q = p THEN r ELSE srReq[q]
    BY DEF SrInv, SrTypeOK
  <2>2. CASE q = p
    BY <2>1, <2>2 DEF ChangeIsCurrent, Super
  <2>3. CASE q # p
    BY <2>1, <2>3, SrAssumption DEF ChangeIsCurrent, Super
  <2> QED
    BY <2>2, <2>3
<1> QED
  BY <1>1, <1>2, <1>3 DEF SrInv

\* The row that a change appends continues the story of its target.
LEMMA AppendReplays ==
  ASSUME SrTypeOK, AuditReplays, NEW t \in People, NEW to \in SystemRole,
         systemRole' = [systemRole EXCEPT ![t] = to],
         auditLog' = Append(auditLog, [target |-> t, before |-> systemRole[t], after |-> to])
  PROVE  AuditReplays'
<1> DEFINE n == Len(auditLog)
           e == [target |-> t, before |-> systemRole[t], after |-> to]
<1>1. n \in Nat /\ DOMAIN auditLog = 1 .. n /\ Len(auditLog') = n + 1
      /\ DOMAIN auditLog' = 1 .. n + 1
  BY DEF SrTypeOK
<1>2. /\ \A i \in 1 .. n : auditLog'[i] = auditLog[i]
      /\ auditLog'[n + 1] = e
  BY <1>1 DEF SrTypeOK
<1>3. e.target = t /\ e.before = systemRole[t] /\ e.after = to
  OBVIOUS
<1> HIDE DEF n, e
<1>4. ASSUME NEW u \in People
      PROVE  Changes(u)' = IF u = t THEN Changes(u) \cup {n + 1} ELSE Changes(u)
  BY <1>1, <1>2, <1>3 DEF Changes
<1>5. \A u \in People : Changes(u) \subseteq 1 .. n
  BY <1>1 DEF Changes
<1>6. \A u \in People : systemRole'[u] = IF u = t THEN to ELSE systemRole[u]
  BY DEF SrTypeOK
<1>7. ASSUME NEW u \in People, u # t
      PROVE  /\ \A i, j \in Changes(u)' :
                  (i < j /\ ~ \E k \in Changes(u)' : i < k /\ k < j) =>
                    auditLog'[i].after = auditLog'[j].before
             /\ \A i \in Changes(u)' :
                  (~ \E k \in Changes(u)' : i < k) => auditLog'[i].after = systemRole'[u]
  <2>1. Changes(u)' = Changes(u) /\ Changes(u) \subseteq 1 .. n /\ systemRole'[u] = systemRole[u]
    BY <1>4, <1>5, <1>6, <1>7
  <2>2. \A i \in Changes(u) : auditLog'[i] = auditLog[i]
    BY <1>2, <2>1
  <2>3. /\ \A i, j \in Changes(u) :
             (i < j /\ ~ \E k \in Changes(u) : i < k /\ k < j) =>
               auditLog[i].after = auditLog[j].before
        /\ \A i \in Changes(u) :
             (~ \E k \in Changes(u) : i < k) => auditLog[i].after = systemRole[u]
    BY Zenon DEF AuditReplays
  <2>4. ASSUME NEW i \in Changes(u)', NEW j \in Changes(u)', i < j,
               ~ \E k \in Changes(u)' : i < k /\ k < j
        PROVE  auditLog'[i].after = auditLog'[j].before
    BY <2>1, <2>2, <2>3, <2>4
  <2>5. ASSUME NEW i \in Changes(u)', ~ \E k \in Changes(u)' : i < k
        PROVE  auditLog'[i].after = systemRole'[u]
    BY <2>1, <2>2, <2>3, <2>5
  <2> QED
    BY <2>4, <2>5
<1>8. ASSUME NEW i \in Changes(t)', NEW j \in Changes(t)', i < j,
             ~ \E k \in Changes(t)' : i < k /\ k < j
      PROVE  auditLog'[i].after = auditLog'[j].before
  <2>0. Changes(t)' = Changes(t) \cup {n + 1} /\ Changes(t) \subseteq 1 .. n
    BY <1>4, <1>5
  <2>1. i \in Changes(t) /\ i \in 1 .. n
    <3>1. j \in 1 .. n \/ j = n + 1
      BY <2>0
    <3>2. i # n + 1
      BY <1>1, <1>8, <3>1
    <3> QED
      BY <2>0, <3>2
  <2>2. CASE j \in Changes(t)
    <3>1. ~ \E k \in Changes(t) : i < k /\ k < j
      BY <1>8, <2>0
    <3>2. auditLog[i].after = auditLog[j].before
      BY <1>8, <2>1, <2>2, <3>1, Zenon DEF AuditReplays
    <3>3. auditLog'[i] = auditLog[i] /\ auditLog'[j] = auditLog[j]
      BY <1>2, <2>0, <2>1, <2>2
    <3> QED
      BY <3>2, <3>3
  <2>3. CASE j = n + 1
    <3>1. ~ \E k \in Changes(t) : i < k
      BY <1>1, <1>8, <2>0, <2>3
    <3>2. auditLog[i].after = systemRole[t]
      BY <2>1, <3>1 DEF AuditReplays
    <3> QED
      BY <1>2, <1>3, <2>1, <2>3, <3>2
  <2> QED
    BY <1>8, <2>0, <2>2, <2>3
<1>9. ASSUME NEW i \in Changes(t)', ~ \E k \in Changes(t)' : i < k
      PROVE  auditLog'[i].after = systemRole'[t]
  <2>0. Changes(t)' = Changes(t) \cup {n + 1} /\ Changes(t) \subseteq 1 .. n
    BY <1>4, <1>5
  <2>1. i = n + 1
    BY <1>1, <1>9, <2>0
  <2> QED
    BY <1>2, <1>3, <1>6, <2>1
<1>10. ASSUME NEW u \in People
       PROVE  /\ \A i, j \in Changes(u)' :
                   (i < j /\ ~ \E k \in Changes(u)' : i < k /\ k < j) =>
                     auditLog'[i].after = auditLog'[j].before
              /\ \A i \in Changes(u)' :
                   (~ \E k \in Changes(u)' : i < k) => auditLog'[i].after = systemRole'[u]
  <2>1. CASE u # t
    BY <1>7, <2>1
  <2>2. CASE u = t
    BY <1>8, <1>9, <2>2
  <2> QED
    BY <2>1, <2>2
<1> QED
  BY <1>10 DEF AuditReplays

LEMMA CommitKeepsRoles ==
  ASSUME SrInv, NEW p \in SrRequests, UpdateSystemRole(p)
  PROVE  SrInv'
<1> DEFINE t == srReq[p].target
           to == srReq[p].to
           r == [srReq[p] EXCEPT !.pc = "revoke"]
<1>1. srReq[p] \in SrRecord /\ t \in People /\ to \in SystemRole
  BY DEF SrInv, SrTypeOK, SrRecord
<1>2. /\ srLock = p /\ srReq[p].before = systemRole[t]
      /\ Super(t) => \E u \in People \ {t} : Super(u)
  BY DEF SrInv, ChangeIsCurrent, UpdateSystemRole, SrAt
<1>3. r \in SrRecord /\ r.pc = "revoke"
  BY <1>1 DEF SrRecord
<1>4. /\ systemRole' = [systemRole EXCEPT ![t] = to]
      /\ auditLog' = Append(auditLog, [target |-> t, before |-> systemRole[t], after |-> to])
      /\ srReq' = [srReq EXCEPT ![p] = r] /\ srLock' = NoRequestSr
      /\ claim' = claim /\ signedIn' = signedIn
  BY <1>2 DEF UpdateSystemRole, CommitRelease, SrGo
<1> HIDE DEF r
<1>5. SrTypeOK'
  <2>1. [target |-> t, before |-> systemRole[t], after |-> to]
          \in [target : People, before : SystemRole, after : SystemRole]
    BY <1>1 DEF SrInv, SrTypeOK
  <2>2. auditLog' \in Seq([target : People, before : SystemRole, after : SystemRole])
    BY <1>4, <2>1 DEF SrInv, SrTypeOK
  <2>3. systemRole' \in [People -> SystemRole]
    BY <1>1, <1>4 DEF SrInv, SrTypeOK
  <2> QED
    BY <1>3, <1>4, <2>2, <2>3 DEF SrInv, SrTypeOK
<1>6. SomebodyIsAdmin'
  BY <1>1, <1>2, <1>4 DEF SrInv, SrTypeOK, SomebodyIsAdmin, Super
<1>7. AuditReplays'
  BY <1>1, <1>4, AppendReplays DEF SrInv
<1>8. ASSUME NEW q \in SrRequests PROVE ChangeIsCurrent(q)'
  <2>1. ChangeIsCurrent(q) /\ srReq'[q] = IF q = p THEN r ELSE srReq[q]
    BY <1>4 DEF SrInv, SrTypeOK
  <2> QED
    BY <1>2, <1>3, <2>1 DEF ChangeIsCurrent
<1> QED
  BY <1>5, <1>6, <1>7, <1>8 DEF SrInv

LEMMA RequestKeepsRoles ==
  ASSUME SrInv, NEW p \in SrRequests,
         \/ \E u \in People : Allow(p, u)
         \/ BeginChange(p) \/ CheckChange(p) \/ RevokeTargetSessions(p) \/ SrCrash(p)
  PROVE  SrInv'
<1>0. srReq[p] \in SrRecord /\ ChangeIsCurrent(p) /\ SrTypeOK
  BY DEF SrInv, SrTypeOK
<1>i. SrIdle \in SrRecord /\ SrIdle.pc = "idle"
  BY SrAssumption DEF SrIdle, SrRecord, SystemRole
<1>1. ASSUME NEW u \in People, Allow(p, u) PROVE SrInv'
  <2>1. PICK target \in People, to \in SystemRole :
          SrGo(p, [pc |-> "lock", actor |-> u, target |-> target, to |-> to, before |-> to])
    BY <1>1 DEF Allow
  <2> DEFINE r == [pc |-> "lock", actor |-> u, target |-> target, to |-> to, before |-> to]
  <2>2. r \in SrRecord /\ r.pc = "lock" /\ srReq' = [srReq EXCEPT ![p] = r]
    BY <2>1 DEF SrRecord, SrGo
  <2> HIDE DEF r
  <2> QED
    BY <1>1, <2>2, RolesStand DEF Allow
<1>2. CASE BeginChange(p)
  <2> DEFINE r == [srReq[p] EXCEPT !.pc = "check"]
  <2>1. r \in SrRecord /\ r.pc = "check" /\ srReq' = [srReq EXCEPT ![p] = r]
    BY <1>0, <1>2 DEF SrRecord, BeginChange, SrGo
  <2> HIDE DEF r
  <2> QED
    BY <1>2, <2>1, RolesStand DEF BeginChange, LockSystemRole
<1>3. CASE CheckChange(p)
  <2> DEFINE t == srReq[p].target
             ends == systemRole[t] = srReq[p].to \/ (Super(t) /\ {u \in People \ {t} : Super(u)} = {})
             r == [srReq[p] EXCEPT !.pc = "update", !.before = systemRole[t]]
  <2>0. t \in People /\ systemRole[t] \in SystemRole /\ srLock = p
    BY <1>0, <1>3 DEF SrRecord, SrTypeOK, CheckChange, ChangeIsCurrent, SrAt
  <2>1. CASE ends
    BY <1>3, <1>i, <2>1, RolesStand DEF CheckChange, CommitRelease, SrGo
  <2>2. CASE ~ends
    <3>1. srReq' = [srReq EXCEPT ![p] = r] /\ srLock' = srLock
      BY <1>3, <2>2 DEF CheckChange, SrGo
    <3>2. r \in SrRecord
      BY <1>0, <2>0 DEF SrRecord
    <3>3. r.pc = "update" /\ r.target = t /\ r.before = systemRole[t]
      BY <1>0, <2>0 DEF SrRecord
    <3>4. Super(t) => \E u \in People \ {t} : Super(u)
      BY <2>2
    <3> HIDE DEF r, ends
    <3> QED
      BY <1>3, <2>0, <3>1, <3>2, <3>3, <3>4, RolesStand DEF CheckChange
  <2> QED
    BY <2>1, <2>2
<1>4. CASE RevokeTargetSessions(p)
  <2>1. SrTypeOK'
    BY <1>0, <1>4, <1>i DEF RevokeTargetSessions, SrGo, SrTypeOK
  <2>2. ASSUME NEW q \in SrRequests PROVE ChangeIsCurrent(q)'
    BY <1>0, <1>4, <1>i DEF RevokeTargetSessions, SrGo, SrTypeOK, SrInv, ChangeIsCurrent, Super
  <2> QED
    BY <1>4, <2>1, <2>2
       DEF RevokeTargetSessions, SrInv, SomebodyIsAdmin, AuditReplays, Changes, Super
<1>5. CASE SrCrash(p)
  BY <1>5, <1>i, RolesStand DEF SrCrash, CommitRelease, SrGo
<1> QED
  BY <1>1, <1>2, <1>3, <1>4, <1>5

\* Every state of the system roles: a change between its check and its commit holds the lock, and
\* what it checked holds.
THEOREM SrInvariant == SrSpec => []SrInv
<1>1. SrInit => SrInv
  BY SrInitInv
<1>2. SrInv /\ [SrNext]_srVars => SrInv'
  <2> SUFFICES ASSUME SrInv, [SrNext]_srVars PROVE SrInv'
    OBVIOUS
  <2>1. ASSUME NEW u \in People, MintToken(u) \/ TokenExpired(u) PROVE SrInv'
    <3>1. SrTypeOK'
      BY <2>1 DEF MintToken, TokenExpired, SrInv, SrTypeOK
    <3> QED
      BY <2>1, <3>1 DEF MintToken, TokenExpired, SrInv, ChangeIsCurrent, SomebodyIsAdmin,
                        AuditReplays, Changes, Super
  <2>2. CASE UNCHANGED srVars
    BY <2>2 DEF srVars, SrInv, SrTypeOK, ChangeIsCurrent, SomebodyIsAdmin, AuditReplays, Changes,
                Super
  <2> QED
    BY <2>1, <2>2, CommitKeepsRoles, RequestKeepsRoles DEF SrNext
<1> QED
  BY <1>1, <1>2, PTL DEF SrSpec

\* Somebody stays SUPER_ADMIN, and the audit rows of every user can be replayed, however role
\* changes, their crashes and the revocations after them interleave.
THEOREM AdminsAndAuditHolds == SrSpec => []AdminsAndAudit
<1>1. SrInv => AdminsAndAudit
  BY DEF SrInv, AdminsAndAudit
<1> QED
  BY <1>1, SrInvariant, PTL

-----------------------------------------------------------------------------
(* Accounts.                                                               *)

Spent == {t \in MailTokens : resetsBy[t] = 1}

\* A token that has set a password is used, and every password but the first was set by one.
TokensAreSpent ==
  /\ \A t \in MailTokens : resetsBy[t] <= 1 /\ (resetsBy[t] = 1 => mailed[t].state = "used")
  /\ IsFiniteSet(Spent) /\ Cardinality(Spent) <= user.password

\* Tokens are only mailed to a user, and only a user has a password.
MailHasUser ==
  /\ ~user.exists => user.password = 0
  /\ \A t \in MailTokens : mailed[t].state # "none" => user.exists

\* What a request holds.
AcctHolds(r) ==
  /\ r.pc \in {"session", "mail", "issue"} => user.exists
  /\ r.pc \in {"hashing", "verify"} => r.token \in MailTokens /\ mailed[r.token].state # "none"

AcctInv ==
  /\ AcctTypeOK /\ TokensAreSpent /\ MailHasUser
  /\ \A p \in AcctRequests : AcctHolds(acctReq[p])

LEMMA AcctInitInv == AcctInit => AcctInv
<1> SUFFICES ASSUME AcctInit PROVE AcctInv
  OBVIOUS
<1>1. AcctTypeOK
  <2>1. 0 \in 0 .. MaxPasswords
    BY AcctAssumption
  <2>2. AcctIdle \in AcctRecord
    BY <2>1 DEF AcctIdle, AcctRecord, AcctPc, TokenKind
  <2> QED
    BY <2>1, <2>2 DEF AcctInit, AcctTypeOK, TokenKind
<1>2. TokensAreSpent
  <2>1. Spent = {}
    BY DEF AcctInit, Spent
  <2>2. IsFiniteSet(Spent) /\ Cardinality(Spent) = 0
    BY <2>1, FS_EmptySet
  <2>3. user.password = 0
    BY DEF AcctInit
  <2> QED
    BY <2>2, <2>3 DEF AcctInit, TokensAreSpent
<1>3. MailHasUser
  BY DEF AcctInit, MailHasUser
<1>4. ASSUME NEW p \in AcctRequests PROVE AcctHolds(acctReq[p])
  BY DEF AcctInit, AcctHolds, AcctIdle
<1> QED
  BY <1>1, <1>2, <1>3, <1>4 DEF AcctInv

\* The tables after a step that sets no password by a token: a used token stays used.
TablesMove ==
  /\ user' \in [exists : BOOLEAN, password : 0 .. MaxPasswords, emailVerified : BOOLEAN]
  /\ user.exists => user'.exists
  /\ user.password <= user'.password
  /\ ~user'.exists => user'.password = 0
  /\ mailed' \in [MailTokens -> [kind : TokenKind, state : {"none", "unused", "used"}]]
  /\ \A t \in MailTokens : /\ mailed[t].state = "used" => mailed'[t].state = "used"
                           /\ mailed[t].state # "none" => mailed'[t].state # "none"
                           /\ mailed'[t].state # "none" => user'.exists
  /\ sessionOf' \in [SessionIds -> 0 .. MaxPasswords]
  /\ userKey' \in {"absent", "miss", "FALSE", "TRUE"}
  /\ resetsBy' = resetsBy

LEMMA TablesStand ==
  ASSUME AcctInv, UNCHANGED <<user, mailed, resetsBy>>,
         sessionOf' \in [SessionIds -> 0 .. MaxPasswords],
         userKey' \in {"absent", "miss", "FALSE", "TRUE"}
  PROVE  TablesMove
<1>1. user.password \in 0 .. MaxPasswords
  BY DEF AcctInv, AcctTypeOK
<1>2. user.password <= user.password
  BY <1>1, AcctAssumption
<1> QED
  BY <1>2 DEF AcctInv, AcctTypeOK, MailHasUser, TablesMove

LEMMA TablesKeep ==
  ASSUME AcctInv, TablesMove
  PROVE  /\ TokensAreSpent' /\ MailHasUser'
         /\ \A r \in AcctRecord : AcctHolds(r) => AcctHolds(r)'
<1>0. AcctTypeOK /\ TokensAreSpent
  BY DEF AcctInv
<1>1. TokensAreSpent'
  <2>1. Spent' = Spent
    BY DEF Spent, TablesMove
  <2>2. Cardinality(Spent) \in Nat /\ Cardinality(Spent) <= user.password
    BY <1>0, FS_CardinalityType DEF TokensAreSpent
  <2>3. user.password \in 0 .. MaxPasswords /\ user'.password \in 0 .. MaxPasswords
    BY <1>0 DEF AcctTypeOK, TablesMove
  <2>4. Cardinality(Spent) <= user'.password
    BY <2>2, <2>3, AcctAssumption DEF TablesMove
  <2> QED
    BY <1>0, <2>1, <2>4 DEF TokensAreSpent, TablesMove
<1>2. MailHasUser'
  BY DEF MailHasUser, TablesMove
<1>3. ASSUME NEW r \in AcctRecord, AcctHolds(r) PROVE AcctHolds(r)'
  BY <1>3 DEF AcctHolds, TablesMove
<1> QED
  BY <1>1, <1>2, <1>3

LEMMA AccountMoves ==
  ASSUME AcctInv, TablesMove, NEW p \in AcctRequests, NEW r \in AcctRecord, AcctHolds(r)',
         acctReq' = [acctReq EXCEPT ![p] = r]
  PROVE  AcctInv'
<1>0. AcctTypeOK
  BY DEF AcctInv
<1>1. AcctTypeOK'
  BY <1>0 DEF AcctTypeOK, TablesMove
<1>2. ASSUME NEW q \in AcctRequests PROVE AcctHolds(acctReq[q])'
  <2>1. PICK o \in AcctRecord : o = acctReq[q]
    BY <1>0 DEF AcctTypeOK
  <2>2. AcctHolds(o)'
    BY <2>1, TablesKeep DEF AcctInv
  <2>3. acctReq'[q] = IF q = p THEN r ELSE o
    BY <1>0, <2>1 DEF AcctTypeOK
  <2> QED
    BY <2>2, <2>3 DEF AcctHolds
<1> QED
  BY <1>1, <1>2, TablesKeep DEF AcctInv

LEMMA ResetKeepsTokens ==
  ASSUME AcctInv, NEW p \in AcctRequests, ResetPassword(p),
         mailed[acctReq[p].token].state = "unused"
  PROVE  AcctInv'
<1> DEFINE t == acctReq[p].token
           r == [acctReq[p] EXCEPT !.pc = "signOut"]
<1>0. AcctTypeOK /\ TokensAreSpent /\ MailHasUser /\ acctReq[p] \in AcctRecord
      /\ AcctHolds(acctReq[p])
  BY DEF AcctInv, AcctTypeOK
<1>1. t \in MailTokens /\ user.exists
  BY <1>0 DEF ResetPassword, AcctAt, AcctHolds, MailHasUser
<1>2. /\ mailed' = [mailed EXCEPT ![t].state = "used"]
      /\ user' = [user EXCEPT !.password = @ + 1, !.emailVerified = TRUE]
      /\ resetsBy' = [resetsBy EXCEPT ![t] = @ + 1]
      /\ acctReq' = [acctReq EXCEPT ![p] = r]
      /\ user.password < MaxPasswords /\ sessionOf' = sessionOf /\ userKey' = userKey
  BY DEF ResetPassword, ConsumeResetToken, AcctGo
<1>3. r \in AcctRecord /\ r.pc = "signOut"
  BY <1>0 DEF AcctRecord, AcctPc
<1> HIDE DEF r
<1>4. /\ user' \in [exists : BOOLEAN, password : 0 .. MaxPasswords, emailVerified : BOOLEAN]
      /\ user'.exists /\ user'.password = user.password + 1 /\ user.password \in Nat
  <2>1. user \in [exists : BOOLEAN, password : 0 .. MaxPasswords, emailVerified : BOOLEAN]
    BY <1>0 DEF AcctTypeOK
  <2>2. user.password \in Nat /\ user.password + 1 \in 0 .. MaxPasswords
    BY <1>2, <2>1, AcctAssumption
  <2> DEFINE next == user.password + 1
  <2>3. user' = [user EXCEPT !.password = next, !.emailVerified = TRUE] /\ next \in 0 .. MaxPasswords
    BY <1>2, <2>1, <2>2
  <2> HIDE DEF next
  <2>4. user' \in [exists : BOOLEAN, password : 0 .. MaxPasswords, emailVerified : BOOLEAN]
        /\ user'.exists = user.exists /\ user'.password = next
    BY <2>1, <2>3
  <2> QED
    BY <1>1, <2>2, <2>4 DEF next
<1>5. /\ mailed' \in [MailTokens -> [kind : TokenKind, state : {"none", "unused", "used"}]]
      /\ mailed'[t].state = "used" /\ \A x \in MailTokens : x # t => mailed'[x] = mailed[x]
  BY <1>0, <1>1, <1>2 DEF AcctTypeOK
<1>6. resetsBy[t] = 0 /\ resetsBy' = [resetsBy EXCEPT ![t] = 1]
  <2>1. resetsBy[t] \in Nat /\ resetsBy[t] <= 1 /\ resetsBy[t] # 1
    BY <1>0, <1>1 DEF AcctTypeOK, TokensAreSpent
  <2>2. resetsBy[t] = 0 /\ resetsBy[t] + 1 = 1
    BY <2>1
  <2> QED
    BY <1>2, <2>2
<1>7. AcctTypeOK'
  BY <1>0, <1>2, <1>3, <1>4, <1>5, <1>6 DEF AcctTypeOK
<1>8. TokensAreSpent'
  <2>1. Spent' = Spent \cup {t} /\ t \notin Spent
    BY <1>0, <1>1, <1>6 DEF Spent, AcctTypeOK
  <2>2. IsFiniteSet(Spent') /\ Cardinality(Spent') = Cardinality(Spent) + 1
    BY <1>0, <2>1, FS_AddElement DEF TokensAreSpent
  <2>3. Cardinality(Spent) \in Nat /\ Cardinality(Spent) <= user.password
    BY <1>0, FS_CardinalityType DEF TokensAreSpent
  <2>4. Cardinality(Spent') <= user'.password
    BY <1>4, <2>2, <2>3
  <2>5. \A x \in MailTokens : resetsBy'[x] <= 1 /\ (resetsBy'[x] = 1 => mailed'[x].state = "used")
    BY <1>0, <1>1, <1>5, <1>6 DEF AcctTypeOK, TokensAreSpent
  <2> QED
    BY <2>2, <2>4, <2>5 DEF TokensAreSpent
<1>9. MailHasUser'
  BY <1>4 DEF MailHasUser
<1>10. ASSUME NEW q \in AcctRequests PROVE AcctHolds(acctReq[q])'
  <2>1. AcctHolds(acctReq[q]) /\ acctReq'[q] = IF q = p THEN r ELSE acctReq[q]
    BY <1>0, <1>2 DEF AcctInv, AcctTypeOK
  <2> QED
    BY <1>3, <1>4, <1>5, <2>1 DEF AcctHolds
<1> QED
  BY <1>7, <1>8, <1>9, <1>10 DEF AcctInv

LEMMA RequestKeepsTokens ==
  ASSUME AcctInv, NEW p \in AcctRequests,
         \/ RegisterRead(p) \/ Register(p) \/ LoginRead(p) \/ CreateSession(p)
         \/ \E kind \in TokenKind : AskForToken(p, kind)
         \/ InvalidateUserTokens(p) \/ IssueToken(p)
         \/ ResetPasswordRead(p) \/ ResetPassword(p) \/ SignOut(p)
         \/ VerifyEmailRead(p) \/ VerifyEmail(p) \/ InvalidateUser(p)
         \/ FetchUser(p) \/ CacheUser(p) \/ AcctCrash(p)
  PROVE  AcctInv'
<1> DEFINE old == acctReq[p]
           User == [exists : BOOLEAN, password : 0 .. MaxPasswords, emailVerified : BOOLEAN]
           Token == [kind : TokenKind, state : {"none", "unused", "used"}]
<1>0. /\ old \in AcctRecord /\ AcctHolds(old) /\ user \in User /\ mailed \in [MailTokens -> Token]
      /\ sessionOf \in [SessionIds -> 0 .. MaxPasswords]
      /\ userKey \in {"absent", "miss", "FALSE", "TRUE"}
      /\ \A t \in MailTokens : mailed[t].state # "none" => user.exists
      /\ ~user.exists => user.password = 0
  BY DEF AcctInv, AcctTypeOK, MailHasUser
<1>f. /\ old.pc \in AcctPc /\ old.kind \in TokenKind /\ old.token \in MailTokens \cup {""}
      /\ old.password \in 0 .. MaxPasswords /\ old.copy \in {"miss", "FALSE", "TRUE"}
      /\ old.andVerify \in BOOLEAN
  BY <1>0 DEF AcctRecord
<1>u. user.exists \in BOOLEAN /\ user.password \in 0 .. MaxPasswords /\ user.password <= user.password
      /\ user.emailVerified \in BOOLEAN
  BY <1>0, AcctAssumption
<1>i. AcctIdle \in AcctRecord /\ AcctIdle.pc = "idle"
  BY AcctAssumption DEF AcctIdle, AcctRecord, AcctPc, TokenKind
<1>e. ASSUME AcctEnd(p), UNCHANGED <<user, mailed, resetsBy>>,
             sessionOf' \in [SessionIds -> 0 .. MaxPasswords],
             userKey' \in {"absent", "miss", "FALSE", "TRUE"}
      PROVE  AcctInv'
  <2>1. TablesMove
    BY <1>e, TablesStand
  <2>2. AcctHolds(AcctIdle)'
    BY <1>i DEF AcctHolds
  <2> QED
    BY <1>i, <1>e, <2>1, <2>2, AccountMoves DEF AcctEnd, AcctGo
<1>m. ASSUME NEW r \in AcctRecord, AcctGo(p, r), UNCHANGED <<user, mailed, resetsBy>>,
             sessionOf' \in [SessionIds -> 0 .. MaxPasswords], userKey' = userKey, AcctHolds(r)
      PROVE  AcctInv'
  <2>1. TablesMove
    BY <1>0, <1>m, TablesStand
  <2>2. AcctHolds(r)'
    BY <1>m DEF AcctHolds
  <2> QED
    BY <1>m, <2>1, <2>2, AccountMoves DEF AcctGo
<1>1. CASE RegisterRead(p)
  <2> DEFINE r == [AcctIdle EXCEPT !.pc = "register"]
  <2>1. r \in AcctRecord /\ r.pc = "register"
    BY <1>i DEF AcctRecord, AcctPc
  <2> HIDE DEF r
  <2>2. AcctGo(p, r)
    BY <1>1 DEF RegisterRead, r
  <2> QED
    BY <1>0, <1>1, <1>m, <2>1, <2>2 DEF RegisterRead, AcctHolds
<1>2. CASE Register(p)
  <2>1. CASE user.exists
    BY <1>0, <1>2, <1>e, <2>1 DEF Register
  <2>2. CASE ~user.exists
    <3>0. 1 \in 0 .. MaxPasswords
      BY AcctAssumption
    <3>r. PICK r \in AcctRecord :
            r = [old EXCEPT !.pc = "session", !.password = 1, !.andVerify = TRUE]
      BY <1>0, <3>0 DEF AcctRecord, AcctPc
    <3>s. r.pc = "session"
      BY <1>0, <3>r DEF AcctRecord
    <3>1. user' = [exists |-> TRUE, password |-> 1, emailVerified |-> FALSE] /\ AcctGo(p, r)
      BY <1>2, <2>2, <3>r DEF Register
    <3>2. user'.exists /\ user'.password = 1 /\ user.password = 0 /\ user' \in User
      BY <1>0, <2>2, <3>0, <3>1
    <3>3. TablesMove
      BY <1>0, <1>2, <3>2 DEF Register, TablesMove
    <3>4. AcctHolds(r)'
      BY <3>2, <3>s DEF AcctHolds
    <3> QED
      BY <3>1, <3>3, <3>4, AccountMoves DEF AcctGo
  <2> QED
    BY <2>1, <2>2
<1>3. CASE LoginRead(p)
  <2> DEFINE r == [AcctIdle EXCEPT !.pc = "session", !.password = user.password]
  <2>1. r \in AcctRecord /\ r.pc = "session"
    BY <1>i, <1>u DEF AcctRecord, AcctPc
  <2> HIDE DEF r
  <2>2. AcctGo(p, r)
    BY <1>3 DEF LoginRead, r
  <2> QED
    BY <1>0, <1>3, <1>m, <2>1, <2>2 DEF LoginRead, AcctHolds
<1>4. CASE CreateSession(p)
  <2>1. sessionOf' \in [SessionIds -> 0 .. MaxPasswords]
    BY <1>0, <1>f, <1>4 DEF CreateSession
  <2>2. CASE old.andVerify
    <3> DEFINE r == [AcctIdle EXCEPT !.pc = "mail"]
    <3>1. r \in AcctRecord /\ r.pc = "mail"
      BY <1>i DEF AcctRecord, AcctPc
    <3>2. user.exists
      BY <1>0, <1>4 DEF AcctHolds, CreateSession, AcctAt
    <3> HIDE DEF r
    <3>3. AcctGo(p, r)
      BY <1>4, <2>2 DEF CreateSession, r
    <3> QED
      BY <1>4, <1>m, <2>1, <3>1, <3>2, <3>3 DEF CreateSession, AcctHolds
  <2>3. CASE ~old.andVerify
    BY <1>0, <1>4, <1>e, <2>1, <2>3 DEF CreateSession
  <2> QED
    BY <2>2, <2>3
<1>5. ASSUME NEW kind \in TokenKind, AskForToken(p, kind) PROVE AcctInv'
  <2> DEFINE r == [AcctIdle EXCEPT !.pc = "mail", !.kind = kind]
  <2>1. r \in AcctRecord /\ r.pc = "mail"
    BY <1>i DEF AcctRecord, AcctPc
  <2> HIDE DEF r
  <2>2. AcctGo(p, r)
    BY <1>5 DEF AskForToken, r
  <2> QED
    BY <1>0, <1>5, <1>m, <2>1, <2>2 DEF AskForToken, AcctHolds
<1>6. CASE InvalidateUserTokens(p)
  <2>r. PICK r \in AcctRecord : r = [old EXCEPT !.pc = "issue"]
    BY <1>0 DEF AcctRecord, AcctPc
  <2>1. r.pc = "issue"
    BY <1>0, <2>r DEF AcctRecord
  <2>2. AcctGo(p, r) /\ user.exists
    BY <1>0, <1>6, <2>r DEF InvalidateUserTokens, AcctAt, AcctHolds
  <2>3. ASSUME NEW t \in MailTokens
        PROVE  mailed'[t] \in Token /\ (mailed'[t] = mailed[t] \/ mailed'[t].state = "used")
    <3>1. mailed[t] \in Token /\ [mailed[t] EXCEPT !.state = "used"] \in Token
          /\ [mailed[t] EXCEPT !.state = "used"].state = "used"
      BY <1>0
    <3>2. mailed'[t] \in {mailed[t], [mailed[t] EXCEPT !.state = "used"]}
      BY <1>6 DEF InvalidateUserTokens
    <3> QED
      BY <3>1, <3>2
  <2>4. mailed' \in [MailTokens -> Token]
    BY <1>6, <2>3 DEF InvalidateUserTokens
  <2> QED
    <3>1. TablesMove
      BY <1>0, <1>u, <1>6, <2>2, <2>3, <2>4 DEF InvalidateUserTokens, TablesMove
    <3>2. AcctHolds(r)'
      BY <1>6, <2>1, <2>2 DEF InvalidateUserTokens, AcctHolds
    <3> QED
      BY <2>1, <2>2, <3>1, <3>2, AccountMoves DEF AcctGo
<1>7. CASE IssueToken(p)
  <2>1. PICK t \in MailTokens :
          /\ mailed[t].state = "none"
          /\ mailed' = [mailed EXCEPT ![t] = [kind |-> old.kind, state |-> "unused"]]
    BY <1>7 DEF IssueToken
  <2>2. mailed' \in [MailTokens -> Token] /\ user.exists
    BY <1>0, <1>f, <1>7, <2>1 DEF IssueToken, AcctAt, AcctHolds
  <2>3. \A x \in MailTokens : mailed'[x] = mailed[x] \/ (x = t /\ mailed'[x].state = "unused")
    <3>1. [kind |-> old.kind, state |-> "unused"].state = "unused"
      OBVIOUS
    <3> QED
      BY <1>0, <2>1, <3>1
  <2>4. TablesMove
    BY <1>0, <1>u, <1>7, <2>1, <2>2, <2>3 DEF IssueToken, TablesMove
  <2>5. AcctHolds(AcctIdle)'
    BY <1>i DEF AcctHolds
  <2> QED
    BY <1>i, <1>7, <2>4, <2>5, AccountMoves DEF IssueToken, AcctEnd, AcctGo
<1>8. CASE ResetPasswordRead(p)
  <2>1. PICK t \in MailTokens :
          /\ mailed[t] = [kind |-> "reset", state |-> "unused"]
          /\ AcctGo(p, [AcctIdle EXCEPT !.pc = "hashing", !.token = t])
    BY <1>8 DEF ResetPasswordRead
  <2>s. mailed[t].state = "unused"
    BY <2>1
  <2> DEFINE r == [AcctIdle EXCEPT !.pc = "hashing", !.token = t]
  <2>2. r \in AcctRecord /\ r.pc = "hashing" /\ r.token = t
    BY <1>i DEF AcctRecord, AcctPc
  <2>3. AcctGo(p, r)
    BY <2>1
  <2> HIDE DEF r
  <2> QED
    BY <1>0, <1>8, <1>m, <2>s, <2>2, <2>3 DEF ResetPasswordRead, AcctHolds
<1>9. CASE ResetPassword(p)
  <2>1. CASE mailed[old.token].state = "unused"
    BY <1>9, <2>1, ResetKeepsTokens
  <2>2. CASE mailed[old.token].state # "unused"
    BY <1>0, <1>9, <1>e, <2>2 DEF ResetPassword, ConsumeResetToken
  <2> QED
    BY <2>1, <2>2
<1>10. CASE SignOut(p)
  <2> DEFINE r == [old EXCEPT !.pc = "invalidate"]
  <2>1. r \in AcctRecord /\ r.pc = "invalidate"
    BY <1>0 DEF AcctRecord, AcctPc
  <2> HIDE DEF r
  <2>2. AcctGo(p, r) /\ sessionOf' \in [SessionIds -> 0 .. MaxPasswords]
    BY <1>10, AcctAssumption DEF SignOut, r
  <2> QED
    BY <1>0, <1>10, <1>m, <2>1, <2>2 DEF SignOut, AcctHolds
<1>11. CASE VerifyEmailRead(p)
  <2>1. PICK t \in MailTokens :
          /\ mailed[t] = [kind |-> "verify", state |-> "unused"]
          /\ AcctGo(p, [AcctIdle EXCEPT !.pc = "verify", !.token = t])
    BY <1>11 DEF VerifyEmailRead
  <2>s. mailed[t].state = "unused"
    BY <2>1
  <2> DEFINE r == [AcctIdle EXCEPT !.pc = "verify", !.token = t]
  <2>2. r \in AcctRecord /\ r.pc = "verify" /\ r.token = t
    BY <1>i DEF AcctRecord, AcctPc
  <2>3. AcctGo(p, r)
    BY <2>1
  <2> HIDE DEF r
  <2> QED
    BY <1>0, <1>11, <1>m, <2>s, <2>2, <2>3 DEF VerifyEmailRead, AcctHolds
<1>12. CASE VerifyEmail(p)
  <2>r. PICK r \in AcctRecord : r = [old EXCEPT !.pc = "invalidate"]
    BY <1>0 DEF AcctRecord, AcctPc
  <2>1. r.pc = "invalidate"
    BY <1>0, <2>r DEF AcctRecord
  <2>2. AcctGo(p, r) /\ old.token \in MailTokens /\ mailed[old.token].state # "none"
        /\ mailed' = [mailed EXCEPT ![old.token].state = "used"]
        /\ user' = [user EXCEPT !.emailVerified = TRUE]
        /\ UNCHANGED <<sessionOf, userKey, resetsBy>>
    BY <1>0, <1>12, <2>r DEF VerifyEmail, AcctAt, AcctHolds
  <2>3. user' \in User /\ user'.exists = user.exists /\ user'.password = user.password
    BY <1>0, <2>2
  <2>4. /\ mailed' \in [MailTokens -> Token]
        /\ \A x \in MailTokens : mailed'[x] = mailed[x] \/ (mailed'[x].state = "used" /\ x = old.token)
    <3>1. /\ [mailed[old.token] EXCEPT !.state = "used"] \in Token
          /\ [mailed[old.token] EXCEPT !.state = "used"].state = "used"
      BY <1>0, <2>2
    <3> QED
      BY <1>0, <2>2, <3>1
  <2>5. TablesMove
    BY <1>0, <1>u, <2>2, <2>3, <2>4 DEF TablesMove
  <2>6. AcctHolds(r)'
    BY <2>1 DEF AcctHolds
  <2> QED
    BY <2>1, <2>2, <2>5, <2>6, AccountMoves DEF AcctGo
<1>13. CASE InvalidateUser(p)
  BY <1>0, <1>13, <1>e DEF InvalidateUser
<1>14. CASE FetchUser(p)
  <2> DEFINE r == [AcctIdle EXCEPT !.pc = "fill", !.copy = Copy]
  <2>0. Copy \in {"miss", "FALSE", "TRUE"}
    BY DEF Copy
  <2>1. r \in AcctRecord /\ r.pc = "fill"
    BY <1>i, <2>0 DEF AcctRecord, AcctPc
  <2> HIDE DEF r
  <2>2. AcctGo(p, r)
    BY <1>14 DEF FetchUser, r
  <2> QED
    BY <1>0, <1>14, <1>m, <2>1, <2>2 DEF FetchUser, AcctHolds
<1>15. CASE CacheUser(p)
  <2>1. userKey' \in {"absent", "miss", "FALSE", "TRUE"}
    BY <1>f, <1>15 DEF CacheUser
  <2> QED
    BY <1>0, <1>15, <1>e, <2>1 DEF CacheUser
<1>16. CASE AcctCrash(p)
  BY <1>0, <1>16, <1>e DEF AcctCrash
<1> QED
  BY <1>1, <1>2, <1>3, <1>4, <1>5, <1>6, <1>7, <1>8, <1>9, <1>10, <1>11, <1>12, <1>13, <1>14, <1>15,
     <1>16

\* Every state of the accounts: types, the tokens that are spent, and what each request may still
\* write.
THEOREM AcctInvariant == AcctSpec => []AcctInv
<1>1. AcctInit => AcctInv
  BY AcctInitInv
<1>2. AcctInv /\ [AcctNext]_acctVars => AcctInv'
  <2> SUFFICES ASSUME AcctInv, [AcctNext]_acctVars PROVE AcctInv'
    OBVIOUS
  <2>1. ASSUME TablesMove, UNCHANGED acctReq PROVE AcctInv'
    <3>1. AcctTypeOK'
      BY <2>1 DEF AcctInv, AcctTypeOK, TablesMove
    <3>2. ASSUME NEW q \in AcctRequests PROVE AcctHolds(acctReq[q])'
      <4>1. PICK o \in AcctRecord : o = acctReq[q]
        BY DEF AcctInv, AcctTypeOK
      <4>2. AcctHolds(o)'
        BY <2>1, <4>1, TablesKeep DEF AcctInv
      <4> QED
        BY <2>1, <4>1, <4>2 DEF AcctHolds
    <3> QED
      BY <2>1, <3>1, <3>2, TablesKeep DEF AcctInv
  <2>2. CASE TokenExpires
    <3>1. PICK t \in MailTokens :
            mailed[t].state = "unused" /\ mailed' = [mailed EXCEPT ![t].state = "used"]
      BY <2>2 DEF TokenExpires
    <3> DEFINE Token == [kind : TokenKind, state : {"none", "unused", "used"}]
    <3>2. mailed \in [MailTokens -> Token]
      BY DEF AcctInv, AcctTypeOK
    <3>3. /\ [mailed[t] EXCEPT !.state = "used"] \in Token
          /\ [mailed[t] EXCEPT !.state = "used"].state = "used"
      BY <3>2
    <3>4. /\ mailed' \in [MailTokens -> Token]
          /\ \A x \in MailTokens : mailed'[x] = mailed[x] \/ (mailed'[x].state = "used" /\ x = t)
      BY <3>1, <3>2, <3>3
    <3>5. user.password \in 0 .. MaxPasswords /\ user.password <= user.password
      BY AcctAssumption DEF AcctInv, AcctTypeOK
    <3>6. TablesMove
      BY <2>2, <3>1, <3>4, <3>5 DEF TokenExpires, TablesMove, AcctInv, AcctTypeOK, MailHasUser
    <3> QED
      BY <2>1, <2>2, <3>6 DEF TokenExpires
  <2>3. CASE UserKeyExpires \/ UNCHANGED acctVars
    <3>1. TablesMove
      BY <2>3, TablesStand DEF UserKeyExpires, acctVars, AcctInv, AcctTypeOK
    <3> QED
      BY <2>1, <2>3, <3>1 DEF UserKeyExpires, acctVars
  <2> QED
    BY <2>2, <2>3, RequestKeepsTokens DEF AcctNext
<1> QED
  BY <1>1, <1>2, PTL DEF AcctSpec

\* A mailed token sets a password at most once, however many requests have verified it and hash
\* for a while, and no two of them report the same change.
THEOREM ResetTokenOnceHolds == AcctSpec => []ResetTokenOnce
<1>1. AcctInv => ResetTokenOnce
  BY DEF AcctInv, TokensAreSpent, Spent, ResetTokenOnce
<1> QED
  BY <1>1, AcctInvariant, PTL

-----------------------------------------------------------------------------
(* Organization.                                                           *)

\* A removal that has counted the administrators left one, whoever it is about to remove.
LeavesAnAdmin(r) ==
  aclVersion # 0 /\ (r.op = "removeMember" \/ (r.op = "removeRole" /\ r.role = Admin))
    => \E v \in Admins : v # r.user

\* An upsert of an invitation is right about the row it found, or about finding none.
FoundInvite(r) ==
  r.op = "inviteWrite" => IF r.inv = 0 THEN Active = {} ELSE invite[r.inv].status # "free"

\* A removal holds the lock of the administrators, an upsert the lock of the address.
HoldsItsLock(r, p) ==
  /\ r.op \in {"removeMember", "removeRole"} => adminLock = p
  /\ r.op = "inviteWrite" => inviteLock = p

OrgKnows(r, p) == LeavesAnAdmin(r) /\ FoundInvite(r) /\ HoldsItsLock(r, p)

OrgRequestsKnow == \A p \in OrgRequests : OrgKnows(orgReq[p], p)

AtMostOneActive == \A i, j \in Active : i = j

\* The inductive invariant of an organisation.
OrgInv == OrgTypeOK /\ KeepsAdmin /\ AtMostOneActive /\ OrgRequestsKnow

-----------------------------------------------------------------------------
(* What the steps of a request have in common.                             *)

\* One request moves to r, and takes or gives back locks of its own only.
OrgRequestMoves(p, r) ==
  /\ r \in Request /\ orgReq' = [orgReq EXCEPT ![p] = r]
  /\ adminLock' \in OrgRequests \cup {NoRequest} /\ inviteLock' \in OrgRequests \cup {NoRequest}
  /\ \A q \in OrgRequests \ {p} : /\ adminLock = q => adminLock' = q
                                  /\ inviteLock = q => inviteLock' = q

\* No administrator goes.
AdminsStay == aclVersion' # 0 => aclVersion # 0 /\ Admins \subseteq Admins'

\* No invitation becomes active, and none becomes unused.
InvitesStay ==
  /\ Active' \subseteq Active
  /\ \A i \in Invites : invite[i].status # "free" => invite'[i].status # "free"

\* The tables keep their types.
OrgTablesTyped ==
  /\ seat' \in [OrgUsers -> 0 .. FounderSeat]
  /\ holds' \subseteq OrgUsers \X Roles
  /\ role' \subseteq CustomRoles
  /\ perm' \in [Perms -> {"free", "linked", "orphan", "deleted"}]
  /\ permRole' \in [Perms -> CustomRoles \cup {NoRole}]
  /\ aclVersion' \in Nat
  /\ invite' \in [Invites -> Invite]
  /\ issued' \in Nat

LEMMA OrgTyped ==
  ASSUME OrgTypeOK, OrgTablesTyped, NEW p \in OrgRequests, NEW r, OrgRequestMoves(p, r)
  PROVE  OrgTypeOK'
<1>1. orgReq' \in [OrgRequests -> Request]
  BY DEF OrgTypeOK, OrgRequestMoves
<1> QED
  BY <1>1 DEF OrgTypeOK, OrgRequestMoves, OrgTablesTyped

\* What another request knows survives a step that removes no administrator and activates
\* no invitation.
LEMMA OthersStillKnow ==
  ASSUME OrgTypeOK, NEW p \in OrgRequests, NEW r, OrgRequestMoves(p, r),
         AdminsStay, InvitesStay, NEW q \in OrgRequests, q # p, OrgKnows(orgReq[q], q)
  PROVE  OrgKnows(orgReq[q], q)'
<1>1. orgReq'[q] = orgReq[q] /\ orgReq[q] \in Request
  BY DEF OrgTypeOK, OrgRequestMoves
<1>2. LeavesAnAdmin(orgReq[q])'
  BY <1>1 DEF OrgKnows, LeavesAnAdmin, AdminsStay
<1>3. FoundInvite(orgReq[q])'
  <2>1. orgReq[q].inv \in {0} \cup Invites
    BY <1>1 DEF Request
  <2> QED
    BY <1>1, <2>1 DEF OrgKnows, FoundInvite, InvitesStay
<1>4. HoldsItsLock(orgReq[q], q)'
  BY <1>1 DEF OrgKnows, HoldsItsLock, OrgRequestMoves
<1> QED
  BY <1>2, <1>3, <1>4 DEF OrgKnows

\* The steps that only add administrators and only end invitations.
LEMMA QuietStep ==
  ASSUME OrgInv, OrgTablesTyped, NEW p \in OrgRequests, NEW r, OrgRequestMoves(p, r),
         AdminsStay, InvitesStay, OrgKnows(r, p)'
  PROVE  OrgInv'
<1> USE DEF OrgInv
<1>1. OrgTypeOK'
  BY OrgTyped
<1>2. KeepsAdmin'
  BY DEF KeepsAdmin, AdminsStay
<1>3. AtMostOneActive'
  BY DEF AtMostOneActive, InvitesStay
<1>4. OrgRequestsKnow'
  <2>1. ASSUME NEW q \in OrgRequests PROVE OrgKnows(orgReq[q], q)'
    <3>1. CASE q # p
      <4>1. OrgKnows(orgReq[q], q)
        BY DEF OrgRequestsKnow
      <4> QED
        BY <3>1, <4>1, OthersStillKnow
    <3>2. CASE q = p
      <4>1. orgReq'[q] = r
        BY <3>2 DEF OrgTypeOK, OrgRequestMoves
      <4> QED
        BY <3>2, <4>1 DEF OrgKnows, LeavesAnAdmin, FoundInvite, HoldsItsLock
    <3> QED
      BY <3>1, <3>2
  <2> QED
    BY <2>1 DEF OrgRequestsKnow
<1> QED
  BY <1>1, <1>2, <1>3, <1>4

LEMMA OrgIdleFits ==
  /\ OrgIdle \in Request
  /\ OrgIdle.op = "idle"
<1>1. Founder \in OrgUsers /\ 0 \in 0 .. FounderSeat /\ "idle" \in OrgOp
  BY OrgAssumption DEF FounderSeat, OrgOp
<1> QED
  BY <1>1 DEF OrgIdle, Request

\* Only a removal and an upsert of an invitation have something to know.
LEMMA NothingToKnow ==
  ASSUME NEW p, NEW r, r.op \notin {"removeMember", "removeRole", "inviteWrite"}
  PROVE  OrgKnows(r, p)'
BY DEF OrgKnows, LeavesAnAdmin, FoundInvite, HoldsItsLock

LEMMA OrgTablesRest ==
  ASSUME OrgTypeOK, UNCHANGED <<tables, invite, issued>>
  PROVE  OrgTablesTyped /\ AdminsStay /\ InvitesStay
BY DEF OrgTypeOK, tables, OrgTablesTyped, AdminsStay, Admins, InvitesStay, Active

\* A request that may remove u: somebody else is an administrator.
LEMMA AnotherAdmin ==
  ASSUME KeepsAdmin, aclVersion # 0, NEW u \in OrgUsers, NotLastAdmin(u)
  PROVE  \E v \in Admins : v # u
<1> SUFFICES ASSUME \A v \in Admins : v = u PROVE FALSE
  OBVIOUS
<1>1. Admins = {u}
  BY DEF KeepsAdmin
<1>2. Cardinality({u}) = 1
  BY FS_Singleton
<1>3. Cardinality(Admins) = 1 /\ u \in Admins
  BY <1>1, <1>2
<1> QED
  BY <1>3 DEF NotLastAdmin

\* The steps that read: the tables stand, and the request moves to what it has read.
LEMMA ReadKeepsOrg ==
  ASSUME OrgInv, NEW p \in OrgRequests,
         \/ RemoveMemberRead(p) \/ RemoveRoleRead(p) \/ AssignRoleRead(p) \/ DeleteRoleRead(p)
         \/ AssignPermissionRead(p) \/ RemovePermissionRead(p) \/ CreateInviteRead(p)
         \/ RevokeInviteRead(p) \/ AcceptInviteRead(p) \/ OrgAbort(p)
  PROVE  OrgInv'
<1>t. /\ OrgTypeOK /\ KeepsAdmin /\ OrgRequestsKnow /\ OrgIdle \in Request
      /\ adminLock \in OrgRequests \cup {NoRequest} /\ inviteLock \in OrgRequests \cup {NoRequest}
      /\ NoRequest \notin OrgRequests
  BY OrgIdleFits, OrgAssumption DEF OrgInv, OrgTypeOK
<1>u. /\ seat \in [OrgUsers -> 0 .. FounderSeat] /\ role \subseteq CustomRoles
      /\ invite \in [Invites -> Invite]
  BY <1>t DEF OrgTypeOK
<1>v. /\ UNCHANGED <<tables, invite, issued>>
      /\ OrgTablesTyped /\ AdminsStay /\ InvitesStay
  <2>1. UNCHANGED <<tables, invite, issued>>
    BY DEF RemoveMemberRead, RemoveRoleRead, AssignRoleRead, DeleteRoleRead, AssignPermissionRead,
           RemovePermissionRead, CreateInviteRead, RevokeInviteRead, AcceptInviteRead, OrgAbort
  <2> QED
    BY <2>1, <1>t, OrgTablesRest
<1>1. CASE RemoveMemberRead(p)
  <2>1. PICK u \in OrgUsers :
          /\ seat[u] # 0 /\ NotLastAdmin(u)
          /\ Begin(p, [OrgIdle EXCEPT !.op = "removeMember", !.user = u, !.seat = seat[u]])
    BY <1>1 DEF RemoveMemberRead
  <2>2. PICK r \in Request : /\ r = [OrgIdle EXCEPT !.op = "removeMember", !.user = u,
                                                    !.seat = seat[u]]
                             /\ r.op = "removeMember" /\ r.user = u
    <3> DEFINE e == [OrgIdle EXCEPT !.op = "removeMember", !.user = u, !.seat = seat[u]]
    <3>1. e \in Request /\ e.op = "removeMember" /\ e.user = u
      BY <1>t, <1>u DEF Request, OrgOp
    <3> QED
      BY <3>1
  <2>3. \E v \in Admins : v # u
    BY <2>1, <1>t, AnotherAdmin DEF Begin
  <2>4. OrgRequestMoves(p, r)
    BY <1>1, <1>t, <2>1, <2>2 DEF OrgRequestMoves, Begin, RemoveMemberRead, LockAdmins
  <2>5. OrgKnows(r, p)'
    BY <1>1, <1>v, <2>2, <2>3 DEF OrgKnows, LeavesAnAdmin, FoundInvite, HoldsItsLock,
                                  RemoveMemberRead, LockAdmins, tables, Admins
  <2> QED
    BY <1>v, <2>4, <2>5, QuietStep
<1>2. CASE RemoveRoleRead(p)
  <2>1. PICK u \in OrgUsers, x \in Roles :
          /\ seat[u] # 0 /\ (x = Admin => NotLastAdmin(u))
          /\ Begin(p, [OrgIdle EXCEPT !.op = "removeRole", !.user = u, !.role = x])
    BY <1>2 DEF RemoveRoleRead
  <2>2. PICK r \in Request : /\ r = [OrgIdle EXCEPT !.op = "removeRole", !.user = u, !.role = x]
                             /\ r.op = "removeRole" /\ r.user = u /\ r.role = x
    <3> DEFINE e == [OrgIdle EXCEPT !.op = "removeRole", !.user = u, !.role = x]
    <3>1. e \in Request /\ e.op = "removeRole" /\ e.user = u /\ e.role = x
      BY <1>t, <1>u DEF Request, OrgOp
    <3> QED
      BY <3>1
  <2>3. x = Admin => \E v \in Admins : v # u
    BY <2>1, <1>t, AnotherAdmin DEF Begin
  <2>4. OrgRequestMoves(p, r)
    BY <1>2, <1>t, <2>1, <2>2 DEF OrgRequestMoves, Begin, RemoveRoleRead, LockAdmins
  <2>5. OrgKnows(r, p)'
    BY <1>2, <1>v, <2>2, <2>3 DEF OrgKnows, LeavesAnAdmin, FoundInvite, HoldsItsLock,
                                  RemoveRoleRead, LockAdmins, tables, Admins
  <2> QED
    BY <1>v, <2>4, <2>5, QuietStep
<1>3. CASE AssignRoleRead(p)
  <2>1. PICK u \in OrgUsers, x \in Roles :
          Begin(p, [OrgIdle EXCEPT !.op = "assignRole", !.user = u, !.role = x, !.seat = seat[u]])
    BY <1>3 DEF AssignRoleRead
  <2>2. PICK r \in Request : /\ r = [OrgIdle EXCEPT !.op = "assignRole", !.user = u, !.role = x,
                                                    !.seat = seat[u]]
                             /\ r.op = "assignRole"
    <3> DEFINE e == [OrgIdle EXCEPT !.op = "assignRole", !.user = u, !.role = x, !.seat = seat[u]]
    <3>1. e \in Request /\ e.op = "assignRole"
      BY <1>t, <1>u DEF Request, OrgOp
    <3> QED
      BY <3>1
  <2>3. OrgRequestMoves(p, r)
    BY <1>3, <1>t, <2>1, <2>2 DEF OrgRequestMoves, Begin, AssignRoleRead
  <2> QED
    BY <1>v, <2>2, <2>3, QuietStep, NothingToKnow
<1>4. CASE DeleteRoleRead(p)
  <2>1. PICK x \in role :
          Begin(p, [OrgIdle EXCEPT !.op = "deleteRole", !.role = x, !.perms = PermsOf(x)])
    BY <1>4 DEF DeleteRoleRead
  <2>2. PICK r \in Request : /\ r = [OrgIdle EXCEPT !.op = "deleteRole", !.role = x,
                                                    !.perms = PermsOf(x)]
                             /\ r.op = "deleteRole"
    <3>1. PermsOf(x) \in SUBSET Perms /\ x \in Roles
      BY <1>u DEF PermsOf, Roles
    <3> DEFINE e == [OrgIdle EXCEPT !.op = "deleteRole", !.role = x, !.perms = PermsOf(x)]
    <3>2. e \in Request /\ e.op = "deleteRole"
      BY <1>t, <3>1 DEF Request, OrgOp
    <3> QED
      BY <3>2
  <2>3. OrgRequestMoves(p, r)
    BY <1>4, <1>t, <2>1, <2>2 DEF OrgRequestMoves, Begin, DeleteRoleRead
  <2> QED
    BY <1>v, <2>2, <2>3, QuietStep, NothingToKnow
<1>5. CASE AssignPermissionRead(p)
  <2>1. PICK x \in role : Begin(p, [OrgIdle EXCEPT !.op = "assignPermission", !.role = x])
    BY <1>5 DEF AssignPermissionRead
  <2>2. PICK r \in Request : /\ r = [OrgIdle EXCEPT !.op = "assignPermission", !.role = x]
                             /\ r.op = "assignPermission"
    <3> DEFINE e == [OrgIdle EXCEPT !.op = "assignPermission", !.role = x]
    <3>1. e \in Request /\ e.op = "assignPermission"
      BY <1>t, <1>u DEF Request, OrgOp, Roles
    <3> QED
      BY <3>1
  <2>3. OrgRequestMoves(p, r)
    BY <1>5, <1>t, <2>1, <2>2 DEF OrgRequestMoves, Begin, AssignPermissionRead
  <2> QED
    BY <1>v, <2>2, <2>3, QuietStep, NothingToKnow
<1>6. CASE RemovePermissionRead(p)
  <2>1. PICK x \in Perms : Begin(p, [OrgIdle EXCEPT !.op = "removePermission", !.perms = {x}])
    BY <1>6 DEF RemovePermissionRead
  <2>2. PICK r \in Request : /\ r = [OrgIdle EXCEPT !.op = "removePermission", !.perms = {x}]
                             /\ r.op = "removePermission"
    <3> DEFINE e == [OrgIdle EXCEPT !.op = "removePermission", !.perms = {x}]
    <3>1. e \in Request /\ e.op = "removePermission"
      BY <1>t DEF Request, OrgOp
    <3> QED
      BY <3>1
  <2>3. OrgRequestMoves(p, r)
    BY <1>6, <1>t, <2>1, <2>2 DEF OrgRequestMoves, Begin, RemovePermissionRead
  <2> QED
    BY <1>v, <2>2, <2>3, QuietStep, NothingToKnow
<1>7. CASE CreateInviteRead(p)
  <2>1. PICK x \in Roles, i \in {0} \cup Invites :
          /\ IF i = 0 THEN Active = {} ELSE i \in Active
          /\ Begin(p, [OrgIdle EXCEPT !.op = "inviteWrite", !.role = x, !.inv = i])
    <3>1. PICK x \in Roles :
            \/ /\ FindActive = {}
               /\ Begin(p, [OrgIdle EXCEPT !.op = "inviteWrite", !.role = x])
            \/ \E i \in FindActive :
                 Begin(p, [OrgIdle EXCEPT !.op = "inviteWrite", !.role = x, !.inv = i])
      BY <1>7 DEF CreateInviteRead
    <3>2. CASE FindActive = {} /\ Begin(p, [OrgIdle EXCEPT !.op = "inviteWrite", !.role = x])
      <4>1. [OrgIdle EXCEPT !.op = "inviteWrite", !.role = x]
              = [OrgIdle EXCEPT !.op = "inviteWrite", !.role = x, !.inv = 0]
        <5> DEFINE e == [OrgIdle EXCEPT !.op = "inviteWrite", !.role = x]
                   f == [OrgIdle EXCEPT !.op = "inviteWrite", !.role = x, !.inv = 0]
        <5>1. e \in Request /\ f \in Request /\ e.inv = OrgIdle.inv
          BY <1>t DEF Request, OrgOp
        <5>2. OrgIdle.inv = 0
          BY DEF OrgIdle
        <5> QED
          BY <1>t, <5>1, <5>2 DEF Request
      <4> QED
        BY <3>2, <4>1 DEF FindActive
    <3>3. CASE \E i \in FindActive :
                 Begin(p, [OrgIdle EXCEPT !.op = "inviteWrite", !.role = x, !.inv = i])
      <4>1. PICK i \in Active :
                 Begin(p, [OrgIdle EXCEPT !.op = "inviteWrite", !.role = x, !.inv = i])
        BY <3>3 DEF FindActive
      <4>2. i \in Invites /\ i # 0
        BY OrgAssumption DEF Active, Invites
      <4> QED
        BY <4>1, <4>2
    <3> QED
      BY <3>1, <3>2, <3>3
  <2>2. PICK r \in Request : /\ r = [OrgIdle EXCEPT !.op = "inviteWrite", !.role = x, !.inv = i]
                             /\ r.op = "inviteWrite" /\ r.inv = i
    <3> DEFINE e == [OrgIdle EXCEPT !.op = "inviteWrite", !.role = x, !.inv = i]
    <3>1. e \in Request /\ e.op = "inviteWrite" /\ e.inv = i
      BY <1>t DEF Request, OrgOp
    <3> QED
      BY <3>1
  <2>3. OrgRequestMoves(p, r)
    BY <1>7, <1>t, <2>1, <2>2 DEF OrgRequestMoves, Begin, CreateInviteRead, LockInvite
  <2>4. OrgKnows(r, p)'
    BY <1>7, <1>v, <2>1, <2>2 DEF OrgKnows, LeavesAnAdmin, FoundInvite, HoldsItsLock,
                                  CreateInviteRead, LockInvite, tables, Active
  <2> QED
    BY <1>v, <2>3, <2>4, QuietStep
<1>8. CASE RevokeInviteRead(p)
  <2>1. PICK i \in Active : Begin(p, [OrgIdle EXCEPT !.op = "revoke", !.inv = i])
    BY <1>8 DEF RevokeInviteRead
  <2>2. PICK r \in Request : r = [OrgIdle EXCEPT !.op = "revoke", !.inv = i] /\ r.op = "revoke"
    <3> DEFINE e == [OrgIdle EXCEPT !.op = "revoke", !.inv = i]
    <3>1. e \in Request /\ e.op = "revoke"
      BY <1>t DEF Request, OrgOp, Active
    <3> QED
      BY <3>1
  <2>3. OrgRequestMoves(p, r)
    BY <1>8, <1>t, <2>1, <2>2 DEF OrgRequestMoves, Begin, RevokeInviteRead
  <2> QED
    BY <1>v, <2>2, <2>3, QuietStep, NothingToKnow
<1>9. CASE AcceptInviteRead(p)
  <2>1. PICK i \in Active :
          Begin(p, [OrgIdle EXCEPT !.op = "accept", !.user = Guest, !.inv = i,
                      !.token = invite[i].token,
                      !.role = IF invite[i].role = NoRole THEN Member ELSE invite[i].role])
    BY <1>9 DEF AcceptInviteRead
  <2>2. PICK x \in Roles :
          x = IF invite[i].role = NoRole THEN Member ELSE invite[i].role
    <3>1. invite[i] \in Invite
      BY <1>u DEF Active
    <3> QED
      BY <3>1 DEF Invite, Roles
  <2>3. PICK r \in Request :
          /\ r = [OrgIdle EXCEPT !.op = "accept", !.user = Guest, !.inv = i,
                                 !.token = invite[i].token, !.role = x]
          /\ r.op = "accept"
    <3>1. i \in Invites /\ Guest \in OrgUsers
      BY OrgAssumption DEF Active
    <3>2. invite[i] \in Invite
      BY <1>u, <3>1
    <3>3. invite[i].token \in Nat
      BY <3>2 DEF Invite
    <3> DEFINE e == [OrgIdle EXCEPT !.op = "accept", !.user = Guest, !.inv = i,
                                    !.token = invite[i].token, !.role = x]
    <3>4. e \in Request /\ e.op = "accept"
      BY <1>t, <3>1, <3>3 DEF Request, OrgOp
    <3> QED
      BY <3>4
  <2>4. OrgRequestMoves(p, r)
    BY <1>9, <1>t, <2>1, <2>2, <2>3 DEF OrgRequestMoves, Begin, AcceptInviteRead
  <2> QED
    BY <1>v, <2>3, <2>4, QuietStep, NothingToKnow
<1>10. CASE OrgAbort(p)
  <2>1. OrgRequestMoves(p, OrgIdle)
    BY <1>10, <1>t DEF OrgRequestMoves, OrgAbort, End, Release
  <2> QED
    BY <1>v, <2>1, QuietStep, NothingToKnow, OrgIdleFits
<1> QED
  BY <1>1, <1>2, <1>3, <1>4, <1>5, <1>6, <1>7, <1>8, <1>9, <1>10

-----------------------------------------------------------------------------
(* The steps that write.                                                   *)

\* A removal, under the lock of the administrators, that leaves one.
LEMMA RemovalStep ==
  ASSUME OrgInv, OrgTablesTyped, NEW p \in OrgRequests, OrgRequestMoves(p, OrgIdle),
         adminLock = p, aclVersion # 0, Admins' # {}, InvitesStay
  PROVE  OrgInv'
<1>1. OrgTypeOK'
  BY OrgTyped DEF OrgInv
<1>2. KeepsAdmin' /\ AtMostOneActive'
  BY DEF OrgInv, KeepsAdmin, AtMostOneActive, InvitesStay
<1>3. ASSUME NEW q \in OrgRequests PROVE OrgKnows(orgReq[q], q)'
  <2>1. CASE q = p
    <3>1. orgReq'[q] = OrgIdle
      BY <2>1 DEF OrgInv, OrgTypeOK, OrgRequestMoves
    <3> QED
      BY <3>1, OrgIdleFits DEF OrgKnows, LeavesAnAdmin, FoundInvite, HoldsItsLock
  <2>2. CASE q # p
    <3>1. orgReq'[q] = orgReq[q] /\ orgReq[q] \in Request /\ OrgKnows(orgReq[q], q)
      BY <2>2 DEF OrgInv, OrgTypeOK, OrgRequestMoves, OrgRequestsKnow
    <3>2. orgReq[q].op \notin {"removeMember", "removeRole"}
      BY <2>2, <3>1 DEF OrgKnows, HoldsItsLock
    <3>3. LeavesAnAdmin(orgReq[q])' /\ HoldsItsLock(orgReq[q], q)'
      BY <2>2, <3>1, <3>2 DEF OrgKnows, LeavesAnAdmin, HoldsItsLock, OrgRequestMoves
    <3>4. FoundInvite(orgReq[q])'
      <4>1. orgReq[q].inv \in {0} \cup Invites
        BY <3>1 DEF Request
      <4> QED
        BY <3>1, <4>1 DEF OrgKnows, FoundInvite, InvitesStay
    <3> QED
      BY <3>3, <3>4 DEF OrgKnows
  <2> QED
    BY <2>1, <2>2
<1> QED
  BY <1>1, <1>2, <1>3 DEF OrgInv, OrgRequestsKnow

\* An upsert, under the lock of the address, after which no second invitation is active.
LEMMA UpsertStep ==
  ASSUME OrgInv, OrgTablesTyped, NEW p \in OrgRequests, OrgRequestMoves(p, OrgIdle),
         inviteLock = p, AdminsStay, AtMostOneActive'
  PROVE  OrgInv'
<1>1. OrgTypeOK'
  BY OrgTyped DEF OrgInv
<1>2. KeepsAdmin'
  BY DEF OrgInv, KeepsAdmin, AdminsStay
<1>3. ASSUME NEW q \in OrgRequests PROVE OrgKnows(orgReq[q], q)'
  <2>1. CASE q = p
    <3>1. orgReq'[q] = OrgIdle
      BY <2>1 DEF OrgInv, OrgTypeOK, OrgRequestMoves
    <3> QED
      BY <3>1, OrgIdleFits DEF OrgKnows, LeavesAnAdmin, FoundInvite, HoldsItsLock
  <2>2. CASE q # p
    <3>1. orgReq'[q] = orgReq[q] /\ OrgKnows(orgReq[q], q)
      BY <2>2 DEF OrgInv, OrgTypeOK, OrgRequestMoves, OrgRequestsKnow
    <3>2. orgReq[q].op # "inviteWrite"
      BY <2>2, <3>1 DEF OrgKnows, HoldsItsLock
    <3>3. FoundInvite(orgReq[q])' /\ HoldsItsLock(orgReq[q], q)'
      BY <2>2, <3>1, <3>2 DEF OrgKnows, FoundInvite, HoldsItsLock, OrgRequestMoves
    <3>4. LeavesAnAdmin(orgReq[q])'
      BY <3>1 DEF OrgKnows, LeavesAnAdmin, AdminsStay
    <3> QED
      BY <3>3, <3>4 DEF OrgKnows
  <2> QED
    BY <2>1, <2>2
<1> QED
  BY <1>1, <1>2, <1>3 DEF OrgInv, OrgRequestsKnow

LEMMA WriteKeepsOrg ==
  ASSUME OrgInv, NEW p \in OrgRequests,
         \/ RemoveMember(p) \/ RemoveRole(p) \/ AssignRole(p) \/ DeleteRole(p)
         \/ AssignPermission(p) \/ RemovePermission(p) \/ CreateInvite(p) \/ RevokeInvite(p)
         \/ AcceptInvite(p)
  PROVE  OrgInv'
<1> DEFINE r == orgReq[p]
<1>t. /\ OrgTypeOK /\ KeepsAdmin /\ AtMostOneActive /\ OrgKnows(r, p) /\ r \in Request
      /\ OrgIdle \in Request /\ NoRequest \notin OrgRequests
      /\ Admin \notin CustomRoles /\ Admin \in Roles /\ Guest \in OrgUsers
  BY OrgIdleFits, OrgAssumption DEF OrgInv, OrgTypeOK, OrgRequestsKnow, Roles
<1>r. /\ r.user \in OrgUsers /\ r.role \in Roles \cup {NoRole} /\ r.inv \in {0} \cup Invites
      /\ r.perms \subseteq Perms
  BY <1>t DEF Request
<1>u. /\ seat \in [OrgUsers -> 0 .. FounderSeat] /\ holds \subseteq OrgUsers \X Roles
      /\ role \subseteq CustomRoles /\ perm \in [Perms -> {"free", "linked", "orphan", "deleted"}]
      /\ permRole \in [Perms -> CustomRoles \cup {NoRole}]
      /\ aclVersion \in Nat /\ invite \in [Invites -> Invite] /\ issued \in Nat
      /\ adminLock \in OrgRequests \cup {NoRequest} /\ inviteLock \in OrgRequests \cup {NoRequest}
  BY <1>t DEF OrgTypeOK
<1>i. OrgKnows(OrgIdle, p)'
  BY NothingToKnow, OrgIdleFits
<1>b. BumpAclVersionTx => aclVersion # 0 /\ aclVersion' \in Nat /\ aclVersion' # 0
  BY <1>u DEF BumpAclVersionTx
<1>1. CASE RemoveMember(p)
  <2>1. OrgTablesTyped /\ InvitesStay
    <3>1. seat' \in [OrgUsers -> 0 .. FounderSeat]
      <4>1. 0 \in 0 .. FounderSeat
        BY OrgAssumption DEF FounderSeat
      <4>2. seat' = [seat EXCEPT ![r.user] = 0]
        BY <1>1 DEF RemoveMember
      <4> QED
        BY <1>u, <4>1, <4>2
    <3> QED
      BY <1>1, <1>u, <1>b, <3>1 DEF RemoveMember, OrgTablesTyped, InvitesStay, Active
  <2>2. OrgRequestMoves(p, OrgIdle)
    BY <1>1, <1>t, <1>u DEF RemoveMember, OrgRequestMoves, End, Release
  <2>3. adminLock = p /\ aclVersion # 0
    BY <1>1, <1>t, <1>b DEF RemoveMember, Doing, OrgKnows, HoldsItsLock
  <2>4. Admins' # {}
    <3>1. PICK v \in Admins : v # r.user
      BY <1>1, <1>t, <2>3 DEF RemoveMember, Doing, OrgKnows, LeavesAnAdmin
    <3>2. v \in Admins'
      BY <1>1, <3>1 DEF RemoveMember, Admins
    <3> QED
      BY <3>2
  <2> QED
    BY <2>1, <2>2, <2>3, <2>4, RemovalStep
<1>2. CASE RemoveRole(p)
  <2>1. OrgTablesTyped /\ InvitesStay
    BY <1>2, <1>u, <1>b DEF RemoveRole, OrgTablesTyped, InvitesStay, Active
  <2>2. OrgRequestMoves(p, OrgIdle)
    BY <1>2, <1>t, <1>u DEF RemoveRole, OrgRequestMoves, End, Release
  <2>3. adminLock = p /\ aclVersion # 0
    BY <1>2, <1>t, <1>b DEF RemoveRole, Doing, OrgKnows, HoldsItsLock
  <2>4. Admins' # {}
    <3>1. PICK v \in Admins : r.role = Admin => v # r.user
      <4>1. CASE r.role = Admin
        BY <1>2, <1>t, <2>3, <4>1 DEF RemoveRole, Doing, OrgKnows, LeavesAnAdmin
      <4>2. CASE r.role # Admin
        BY <1>t, <2>3, <4>2 DEF KeepsAdmin
      <4> QED
        BY <4>1, <4>2
    <3>2. v \in Admins'
      BY <1>2, <3>1 DEF RemoveRole, Admins
    <3> QED
      BY <3>2
  <2> QED
    BY <2>1, <2>2, <2>3, <2>4, RemovalStep
<1>3. CASE AssignRole(p)
  <2>1. OrgTablesTyped /\ InvitesStay
    <3>1. r.role \in Roles
      BY <1>3, <1>u DEF AssignRole, Assignable, Roles
    <3> QED
      BY <1>3, <1>u, <1>b, <1>r, <3>1 DEF AssignRole, OrgTablesTyped, InvitesStay, Active
  <2>2. OrgRequestMoves(p, OrgIdle)
    BY <1>3, <1>t, <1>u DEF AssignRole, OrgRequestMoves, End
  <2>3. AdminsStay
    BY <1>3, <1>b DEF AssignRole, AdminsStay, Admins
  <2> QED
    BY <2>1, <2>2, <2>3, <1>i, QuietStep
<1>4. CASE DeleteRole(p)
  <2>1. r.role \in CustomRoles
    BY <1>4, <1>u DEF DeleteRole
  <2>2. perm' \in [Perms -> {"free", "linked", "orphan", "deleted"}]
    BY <1>4, <1>u DEF DeleteRole
  <2>3. /\ invite' \in [Invites -> Invite]
        /\ \A i \in Invites : invite'[i].status = invite[i].status
    <3>1. ASSUME NEW i \in Invites
          PROVE  invite'[i] \in Invite /\ invite'[i].status = invite[i].status
      <4> DEFINE e == [invite[i] EXCEPT !.role = NoRole]
      <4>1. e \in Invite /\ e.status = invite[i].status /\ invite[i] \in Invite
        BY <1>u DEF Invite
      <4>2. invite'[i] = e \/ invite'[i] = invite[i]
        BY <1>4 DEF DeleteRole
      <4> QED
        BY <4>1, <4>2
    <3>2. DOMAIN invite' = Invites /\ invite' = [i \in Invites |-> invite'[i]]
      BY <1>4 DEF DeleteRole
    <3> QED
      BY <3>1, <3>2
  <2>4. OrgTablesTyped /\ InvitesStay
    <3>1. OrgTablesTyped
      <4>1. /\ seat' \in [OrgUsers -> 0 .. FounderSeat] /\ role' \subseteq CustomRoles
            /\ permRole' \in [Perms -> CustomRoles \cup {NoRole}] /\ issued' \in Nat
        BY <1>4, <1>u DEF DeleteRole
      <4>2. holds' \subseteq OrgUsers \X Roles
        BY <1>4, <1>u DEF DeleteRole
      <4>3. aclVersion' \in Nat
        BY <1>4, <1>b DEF DeleteRole
      <4> QED
        BY <2>2, <2>3, <4>1, <4>2, <4>3 DEF OrgTablesTyped
    <3>2. InvitesStay
      BY <2>3 DEF InvitesStay, Active
    <3> QED
      BY <3>1, <3>2
  <2>5. OrgRequestMoves(p, OrgIdle)
    BY <1>4, <1>t, <1>u DEF DeleteRole, OrgRequestMoves, End
  <2>6. AdminsStay
    BY <1>4, <1>b, <1>t, <2>1 DEF DeleteRole, AdminsStay, Admins
  <2> QED
    BY <2>4, <2>5, <2>6, <1>i, QuietStep
<1>5. CASE AssignPermission(p)
  <2>1. perm' \in [Perms -> {"free", "linked", "orphan", "deleted"}]
        /\ permRole' \in [Perms -> CustomRoles \cup {NoRole}]
    BY <1>5, <1>u DEF AssignPermission
  <2>2. OrgTablesTyped /\ InvitesStay /\ AdminsStay
    BY <1>5, <1>u, <1>b, <2>1
       DEF AssignPermission, OrgTablesTyped, InvitesStay, Active, AdminsStay, Admins
  <2>3. OrgRequestMoves(p, OrgIdle)
    BY <1>5, <1>t, <1>u DEF AssignPermission, OrgRequestMoves, End
  <2> QED
    BY <2>2, <2>3, <1>i, QuietStep
<1>6. CASE RemovePermission(p)
  <2>1. perm' \in [Perms -> {"free", "linked", "orphan", "deleted"}]
    BY <1>6, <1>u DEF RemovePermission
  <2>2. OrgTablesTyped /\ InvitesStay /\ AdminsStay
    BY <1>6, <1>u, <1>b, <2>1
       DEF RemovePermission, OrgTablesTyped, InvitesStay, Active, AdminsStay, Admins
  <2>3. OrgRequestMoves(p, OrgIdle)
    BY <1>6, <1>t, <1>u DEF RemovePermission, OrgRequestMoves, End
  <2> QED
    BY <2>2, <2>3, <1>i, QuietStep
<1>7. CASE CreateInvite(p)
  <2> DEFINE i == IF r.inv # 0 THEN r.inv ELSE NewInvite
  <2>1. /\ i \in Invites
        /\ r.inv = 0 => Active = {}
        /\ r.inv # 0 => invite[i].status # "free"
    <3>1. CASE r.inv # 0
      BY <1>7, <1>r, <1>t, <3>1 DEF CreateInvite, Doing, OrgKnows, FoundInvite
    <3>2. CASE r.inv = 0
      <4>1. \E j \in Invites : invite[j].status = "free"
        BY <1>7, <3>2 DEF CreateInvite
      <4>2. NewInvite \in Invites
        BY <4>1 DEF NewInvite
      <4> QED
        BY <1>7, <3>2, <4>2 DEF CreateInvite
    <3> QED
      BY <3>1, <3>2
  <2>2. r.role \in Roles
    BY <1>7, <1>u DEF CreateInvite, Assignable, Roles
  <2>3. PICK e \in Invite :
          /\ invite' = [invite EXCEPT ![i] = e]
          /\ e.status = IF invite[i].status = "free" THEN "pending" ELSE invite[i].status
    <3> DEFINE e == [status |-> IF invite[i].status = "free" THEN "pending" ELSE invite[i].status,
                     role |-> r.role, token |-> issued + 1, live |-> TRUE]
    <3>1. invite[i] \in Invite
      BY <2>1, <1>u
    <3>2. e \in Invite
      BY <1>u, <2>2, <3>1 DEF Invite
    <3>3. invite' = [invite EXCEPT ![i] = e]
      BY <1>7 DEF CreateInvite
    <3> QED
      BY <3>2, <3>3
  <2> HIDE DEF i
  <2>4. OrgTablesTyped /\ AdminsStay
    <3>1. invite' \in [Invites -> Invite]
      BY <1>u, <2>3
    <3> QED
      BY <1>7, <1>u, <3>1 DEF CreateInvite, tables, OrgTablesTyped, AdminsStay, Admins
  <2>5. OrgRequestMoves(p, OrgIdle) /\ inviteLock = p
    BY <1>7, <1>t, <1>u
       DEF CreateInvite, OrgRequestMoves, End, Release, Doing, OrgKnows, HoldsItsLock
  <2>6. AtMostOneActive'
    <3>1. \A j \in Invites \ {i} : invite'[j] = invite[j]
      BY <1>u, <2>1, <2>3
    <3>2. invite'[i].status =
            IF invite[i].status = "free" THEN "pending" ELSE invite[i].status
      BY <1>u, <2>1, <2>3
    <3>3. CASE r.inv = 0
      BY <2>1, <3>1, <3>3 DEF AtMostOneActive, Active
    <3>4. CASE r.inv # 0
      BY <1>t, <2>1, <3>1, <3>2, <3>4 DEF AtMostOneActive, Active
    <3> QED
      BY <3>3, <3>4
  <2> QED
    BY <2>4, <2>5, <2>6, UpsertStep
<1>8. CASE RevokeInvite(p)
  <2>1. r.inv \in Invites
    BY <1>8 DEF RevokeInvite, Active
  <2>2. PICK e \in Invite : invite' = [invite EXCEPT ![r.inv] = e] /\ e.status = "revoked"
    <3> DEFINE e == [invite[r.inv] EXCEPT !.status = "revoked"]
    <3>1. e \in Invite /\ e.status = "revoked"
      BY <1>u, <2>1 DEF Invite
    <3>2. invite' = [invite EXCEPT ![r.inv] = e]
      BY <1>8 DEF RevokeInvite
    <3> QED
      BY <3>1, <3>2
  <2>3. invite' \in [Invites -> Invite] /\ InvitesStay
    BY <1>u, <2>1, <2>2 DEF InvitesStay, Active
  <2>4. OrgTablesTyped /\ AdminsStay
    BY <1>8, <1>u, <2>3 DEF RevokeInvite, tables, OrgTablesTyped, AdminsStay, Admins
  <2>5. OrgRequestMoves(p, OrgIdle)
    BY <1>8, <1>t, <1>u DEF RevokeInvite, OrgRequestMoves, End
  <2> QED
    BY <2>3, <2>4, <2>5, <1>i, QuietStep
<1>9. CASE AcceptInvite(p)
  <2>1. r.inv \in Invites /\ r.role \in Roles
    BY <1>9, <1>u DEF AcceptInvite, ClaimInvite, Active, Assignable, Roles
  <2>2. PICK e \in Invite : invite' = [invite EXCEPT ![r.inv] = e] /\ e.status = "accepted"
    <3> DEFINE e == [invite[r.inv] EXCEPT !.status = "accepted"]
    <3>1. e \in Invite /\ e.status = "accepted"
      BY <1>u, <2>1 DEF Invite
    <3>2. invite' = [invite EXCEPT ![r.inv] = e]
      BY <1>9 DEF AcceptInvite
    <3> QED
      BY <3>1, <3>2
  <2>3. invite' \in [Invites -> Invite] /\ InvitesStay
    BY <1>u, <2>1, <2>2 DEF InvitesStay, Active
  <2>4. seat' \in [OrgUsers -> 0 .. FounderSeat]
    <3>1. r.inv \in 0 .. FounderSeat
      BY <2>1, OrgAssumption DEF Invites, FounderSeat
    <3> QED
      BY <1>9, <1>u, <3>1 DEF AcceptInvite
  <2>5. OrgTablesTyped /\ AdminsStay
    BY <1>9, <1>t, <1>u, <1>b, <2>1, <2>3, <2>4
       DEF AcceptInvite, OrgTablesTyped, AdminsStay, Admins
  <2>6. OrgRequestMoves(p, OrgIdle)
    BY <1>9, <1>t, <1>u DEF AcceptInvite, OrgRequestMoves, End
  <2> QED
    BY <2>3, <2>5, <2>6, <1>i, QuietStep
<1> QED
  BY <1>1, <1>2, <1>3, <1>4, <1>5, <1>6, <1>7, <1>8, <1>9

\* The steps of which no request is the actor.
LEMMA WorldKeepsOrg ==
  ASSUME OrgInv, CreateRole \/ RemoveOrganization \/ InviteExpires \/ PurgeInvites
  PROVE  OrgInv'
<1>u. /\ seat \in [OrgUsers -> 0 .. FounderSeat] /\ holds \subseteq OrgUsers \X Roles
      /\ role \subseteq CustomRoles /\ perm \in [Perms -> {"free", "linked", "orphan", "deleted"}]
      /\ permRole \in [Perms -> CustomRoles \cup {NoRole}]
      /\ aclVersion \in Nat /\ invite \in [Invites -> Invite] /\ issued \in Nat
      /\ adminLock \in OrgRequests \cup {NoRequest} /\ inviteLock \in OrgRequests \cup {NoRequest}
      /\ orgReq \in [OrgRequests -> Request]
  BY DEF OrgInv, OrgTypeOK
<1>1. UNCHANGED <<orgReq, adminLock, inviteLock>>
  BY DEF CreateRole, RemoveOrganization, InviteExpires, PurgeInvites
<1>2. OrgTablesTyped /\ AdminsStay /\ InvitesStay
  <2>1. CASE CreateRole
    BY <2>1, <1>u DEF CreateRole, OrgTablesTyped, AdminsStay, Admins, InvitesStay, Active
  <2>2. CASE RemoveOrganization
    <3>1. ASSUME NEW i \in Invites
          PROVE  /\ invite'[i] \in Invite
                 /\ invite'[i].status \in {invite[i].status, "purged"}
                 /\ invite[i].status # "free" => invite'[i].status # "free"
      <4> DEFINE e == [invite[i] EXCEPT !.status = "purged"]
      <4>1. e \in Invite /\ e.status = "purged" /\ invite[i] \in Invite
        BY <1>u DEF Invite
      <4>2. invite'[i] = e \/ invite'[i] = invite[i]
        BY <2>2 DEF RemoveOrganization
      <4> QED
        BY <4>1, <4>2
    <3>2. invite' = [i \in Invites |-> invite'[i]]
      BY <2>2 DEF RemoveOrganization
    <3>3. invite' \in [Invites -> Invite]
      BY <3>1, <3>2
    <3>4. InvitesStay
      BY <3>1 DEF InvitesStay, Active
    <3>5. seat' \in [OrgUsers -> 0 .. FounderSeat]
      BY <2>2, OrgAssumption DEF RemoveOrganization, FounderSeat
    <3>6. perm' \in [Perms -> {"free", "linked", "orphan", "deleted"}]
      BY <2>2, <1>u DEF RemoveOrganization
    <3> QED
      BY <2>2, <1>u, <3>3, <3>4, <3>5, <3>6 DEF RemoveOrganization, OrgTablesTyped, AdminsStay
  <2>3. CASE InviteExpires \/ PurgeInvites
    <3>1. PICK i \in Invites, e \in Invite :
            /\ invite' = [invite EXCEPT ![i] = e]
            /\ e.status \in {invite[i].status, "purged"}
            /\ UNCHANGED <<tables, issued>>
      <4>1. CASE InviteExpires
        <5>1. PICK i \in Active : invite' = [invite EXCEPT ![i].live = FALSE]
          BY <4>1 DEF InviteExpires
        <5> DEFINE e == [invite[i] EXCEPT !.live = FALSE]
        <5>2. e \in Invite /\ e.status = invite[i].status /\ i \in Invites
          BY <1>u DEF Invite, Active
        <5> QED
          BY <4>1, <5>1, <5>2 DEF InviteExpires
      <4>2. CASE PurgeInvites
        <5>1. PICK i \in Invites : invite' = [invite EXCEPT ![i].status = "purged"]
          BY <4>2 DEF PurgeInvites
        <5> DEFINE e == [invite[i] EXCEPT !.status = "purged"]
        <5>2. e \in Invite /\ e.status = "purged"
          BY <1>u DEF Invite
        <5> QED
          BY <4>2, <5>1, <5>2 DEF PurgeInvites
      <4> QED
        BY <2>3, <4>1, <4>2
    <3>2. invite' \in [Invites -> Invite] /\ InvitesStay
      BY <1>u, <3>1 DEF InvitesStay, Active
    <3> QED
      BY <1>u, <3>1, <3>2 DEF OrgTablesTyped, AdminsStay, Admins, tables
  <2> QED
    BY <2>1, <2>2, <2>3
<1>3. OrgTypeOK'
  BY <1>u, <1>1, <1>2 DEF OrgTypeOK, OrgTablesTyped
<1>4. KeepsAdmin' /\ AtMostOneActive'
  BY <1>2 DEF OrgInv, KeepsAdmin, AtMostOneActive, AdminsStay, InvitesStay
<1>5. ASSUME NEW q \in OrgRequests PROVE OrgKnows(orgReq[q], q)'
  <2>1. orgReq'[q] = orgReq[q] /\ orgReq[q] \in Request /\ OrgKnows(orgReq[q], q)
    BY <1>1, <1>u DEF OrgInv, OrgRequestsKnow
  <2>2. orgReq[q].inv \in {0} \cup Invites
    BY <2>1 DEF Request
  <2>3. FoundInvite(orgReq[q])'
    BY <1>2, <2>1, <2>2 DEF OrgKnows, FoundInvite, InvitesStay
  <2>4. LeavesAnAdmin(orgReq[q])' /\ HoldsItsLock(orgReq[q], q)'
    BY <1>1, <1>2, <2>1 DEF OrgKnows, LeavesAnAdmin, HoldsItsLock, AdminsStay
  <2> QED
    BY <2>3, <2>4 DEF OrgKnows
<1> QED
  BY <1>3, <1>4, <1>5 DEF OrgInv, OrgRequestsKnow

-----------------------------------------------------------------------------
(* The theorems.                                                           *)

LEMMA OrgInitInv == OrgInit => OrgInv
<1> SUFFICES ASSUME OrgInit PROVE OrgInv
  OBVIOUS
<1> USE OrgAssumption, OrgIdleFits
<1>1. OrgTypeOK
  <2>1. seat \in [OrgUsers -> 0 .. FounderSeat]
    BY DEF OrgInit, FounderSeat
  <2>2. holds \subseteq OrgUsers \X Roles /\ role \subseteq CustomRoles
    BY DEF OrgInit, Roles
  <2>3. invite \in [Invites -> Invite]
    BY DEF OrgInit, Invite
  <2> QED
    BY <2>1, <2>2, <2>3 DEF OrgInit, OrgTypeOK
<1>2. KeepsAdmin
  BY DEF OrgInit, KeepsAdmin, Admins
<1>3. AtMostOneActive
  BY DEF OrgInit, AtMostOneActive, Active
<1>4. OrgRequestsKnow
  BY DEF OrgInit, OrgRequestsKnow, OrgKnows, LeavesAnAdmin, FoundInvite, HoldsItsLock
<1> QED
  BY <1>1, <1>2, <1>3, <1>4 DEF OrgInv

\* The strengthened invariant of an organisation: a removal holds the lock and leaves another
\* administrator, an upsert holds the other lock and is right about the row it found.
THEOREM OrgInvariant == OrgSpec => []OrgInv
<1>1. OrgInv /\ [OrgNext]_orgVars => OrgInv'
  <2> SUFFICES ASSUME OrgInv, [OrgNext]_orgVars PROVE OrgInv'
    OBVIOUS
  <2>1. ASSUME NEW p \in OrgRequests, OrgStep(p) PROVE OrgInv'
    BY <2>1, ReadKeepsOrg, WriteKeepsOrg DEF OrgStep
  <2>2. CASE CreateRole \/ RemoveOrganization \/ InviteExpires \/ PurgeInvites
    BY <2>2, WorldKeepsOrg
  <2>3. CASE UNCHANGED orgVars
    BY <2>3 DEF orgVars, tables, OrgInv, OrgTypeOK, KeepsAdmin, Admins, AtMostOneActive, Active,
                OrgRequestsKnow, OrgKnows, LeavesAnAdmin, FoundInvite, HoldsItsLock
  <2> QED
    BY <2>1, <2>2, <2>3 DEF OrgNext
<1> QED
  BY <1>1, OrgInitInv, PTL DEF OrgSpec

LEMMA StepCoversChange ==
  ASSUME OrgInv, [OrgNext]_orgVars
  PROVE  UNCHANGED <<holds, perm, permRole>> \/ aclVersion' # aclVersion
<1>1. aclVersion \in Nat
  BY DEF OrgInv, OrgTypeOK
<1>2. ASSUME NEW p \in OrgRequests, OrgStep(p)
      PROVE  UNCHANGED <<holds, perm, permRole>> \/ aclVersion' # aclVersion
  <2>1. BumpAclVersionTx => aclVersion' # aclVersion
    BY <1>1 DEF BumpAclVersionTx
  <2>2. CASE RemoveMember(p) \/ RemoveRole(p) \/ AssignRole(p)
    BY <2>1, <2>2 DEF RemoveMember, RemoveRole, AssignRole
  <2>3. CASE DeleteRole(p) \/ AssignPermission(p) \/ RemovePermission(p) \/ AcceptInvite(p)
    BY <2>1, <2>3 DEF DeleteRole, AssignPermission, RemovePermission, AcceptInvite
  <2>4. CASE \/ RemoveMemberRead(p) \/ RemoveRoleRead(p) \/ AssignRoleRead(p) \/ DeleteRoleRead(p)
             \/ AssignPermissionRead(p) \/ RemovePermissionRead(p) \/ CreateInviteRead(p)
             \/ CreateInvite(p) \/ RevokeInviteRead(p) \/ RevokeInvite(p) \/ AcceptInviteRead(p)
             \/ OrgAbort(p)
    BY <2>4 DEF RemoveMemberRead, RemoveRoleRead, AssignRoleRead, DeleteRoleRead,
       AssignPermissionRead, RemovePermissionRead, CreateInviteRead, CreateInvite,
       RevokeInviteRead, RevokeInvite, AcceptInviteRead, OrgAbort, tables
  <2> QED
    BY <1>2, <2>2, <2>3, <2>4 DEF OrgStep
<1>3. CASE CreateRole \/ RemoveOrganization \/ InviteExpires \/ PurgeInvites
  BY <1>3 DEF CreateRole, RemoveOrganization, InviteExpires, PurgeInvites, tables
<1>4. CASE UNCHANGED orgVars
  BY <1>4 DEF orgVars, tables
<1> QED
  BY <1>2, <1>3, <1>4 DEF OrgNext

\* What a step does to an invitation that was settled, and to who sits in the organisation.
LEMMA StepSettles ==
  ASSUME OrgInv, [OrgNext]_orgVars, NEW i \in Invites
  PROVE  /\ invite[i].status \in {"accepted", "revoked"} =>
              invite'[i].status \in {invite[i].status, "purged"}
         /\ seat'[Guest] = i /\ seat[Guest] # i => invite[i].status = "pending" /\ invite[i].live
<1>u. /\ seat \in [OrgUsers -> 0 .. FounderSeat] /\ Guest \in OrgUsers /\ i # 0
      /\ invite \in [Invites -> Invite] /\ invite[i] \in Invite
  <2>1. i # 0
    BY OrgAssumption DEF Invites
  <2> QED
    BY <2>1, OrgAssumption DEF OrgInv, OrgTypeOK
<1> DEFINE Settles == invite[i].status \in {"accepted", "revoked"} =>
                        invite'[i].status \in {invite[i].status, "purged"}
           Seats == seat'[Guest] = i /\ seat[Guest] # i =>
                      invite[i].status = "pending" /\ invite[i].live
<1>0. UNCHANGED <<invite, seat>> => Settles /\ Seats
  OBVIOUS
<1>1. ASSUME NEW p \in OrgRequests, OrgStep(p) PROVE Settles /\ Seats
  <2>1. CASE RemoveMember(p)
    BY <2>1, <1>u DEF RemoveMember
  <2>2. CASE DeleteRole(p)
    <3>1. Seats
      BY <2>2 DEF DeleteRole
    <3> DEFINE e == [invite[i] EXCEPT !.role = NoRole]
    <3>2. e.status = invite[i].status
      BY <1>u DEF Invite
    <3>3. invite'[i] = e \/ invite'[i] = invite[i]
      BY <2>2 DEF DeleteRole
    <3> QED
      BY <3>1, <3>2, <3>3
  <2>3. CASE CreateInvite(p)
    <3> DEFINE j == IF orgReq[p].inv # 0 THEN orgReq[p].inv ELSE NewInvite
    <3>1. PICK e :
            /\ invite' = [invite EXCEPT ![j] = e]
            /\ e.status = IF invite[j].status = "free" THEN "pending" ELSE invite[j].status
      <4> DEFINE e == [status |-> IF invite[j].status = "free" THEN "pending"
                                  ELSE invite[j].status,
                       role |-> orgReq[p].role, token |-> issued + 1, live |-> TRUE]
      <4>1. invite' = [invite EXCEPT ![j] = e]
        BY <2>3 DEF CreateInvite
      <4>2. e.status = IF invite[j].status = "free" THEN "pending" ELSE invite[j].status
        OBVIOUS
      <4> HIDE DEF e, j
      <4> QED
        BY <4>1, <4>2
    <3> HIDE DEF j
    <3>2. Settles
      BY <1>u, <3>1
    <3> QED
      BY <2>3, <3>2 DEF CreateInvite, tables
  <2>4. CASE RevokeInvite(p)
    <3> DEFINE j == orgReq[p].inv
    <3>1. j \in Active /\ invite' = [invite EXCEPT ![j].status = "revoked"]
      BY <2>4 DEF RevokeInvite
    <3>2. Settles
      BY <1>u, <3>1 DEF Active
    <3> QED
      BY <2>4, <3>2 DEF RevokeInvite, tables
  <2>5. CASE AcceptInvite(p)
    <3> DEFINE j == orgReq[p].inv
    <3>1. /\ j \in Active /\ invite[j].live
          /\ invite' = [invite EXCEPT ![j].status = "accepted"]
          /\ seat' = [seat EXCEPT ![Guest] = j]
      BY <2>5 DEF AcceptInvite, ClaimInvite
    <3> QED
      BY <1>u, <3>1 DEF Active
  <2>6. CASE UNCHANGED <<invite, seat>>
    BY <2>6, <1>0
  <2> QED
    BY <1>1, <2>1, <2>2, <2>3, <2>4, <2>5, <2>6
       DEF OrgStep, RemoveMemberRead, RemoveRoleRead, RemoveRole, AssignRoleRead, AssignRole,
           DeleteRoleRead, AssignPermissionRead, AssignPermission, RemovePermissionRead,
           RemovePermission, CreateInviteRead, RevokeInviteRead, AcceptInviteRead, OrgAbort, tables
<1>2. CASE CreateRole
  BY <1>2, <1>0 DEF CreateRole
<1>3. CASE RemoveOrganization
  <2> DEFINE e == [invite[i] EXCEPT !.status = "purged"]
  <2>1. e.status = "purged"
    BY <1>u DEF Invite
  <2>2. invite'[i] = e \/ invite'[i] = invite[i]
    BY <1>3 DEF RemoveOrganization
  <2>3. seat'[Guest] = 0
    BY <1>3, <1>u DEF RemoveOrganization
  <2> QED
    BY <1>u, <2>1, <2>2, <2>3
<1>4. CASE InviteExpires
  <2>1. PICK j \in Active : invite' = [invite EXCEPT ![j].live = FALSE]
    BY <1>4 DEF InviteExpires
  <2>2. Settles
    BY <1>u, <2>1 DEF Active
  <2> QED
    BY <1>4, <2>2 DEF InviteExpires, tables
<1>5. CASE PurgeInvites
  <2>1. PICK j \in Invites : invite' = [invite EXCEPT ![j].status = "purged"]
    BY <1>5 DEF PurgeInvites
  <2>2. Settles
    <3> DEFINE e == [invite[j] EXCEPT !.status = "purged"]
    <3>1. e.status = "purged"
      BY <1>u DEF Invite
    <3>2. invite'[i] = IF i = j THEN e ELSE invite[i]
      BY <1>u, <2>1
    <3> QED
      BY <3>1, <3>2
  <2> QED
    BY <1>5, <2>2 DEF PurgeInvites, tables
<1>6. CASE UNCHANGED orgVars
  BY <1>6, <1>0 DEF orgVars, tables
<1> QED
  BY <1>1, <1>2, <1>3, <1>4, <1>5, <1>6 DEF OrgNext

\* An organisation keeps an administrator while it exists, at most one invitation of an address
\* is active, no permission changes without a new ACL version, and a settled invitation stays
\* settled, whatever requests race.
THEOREM OrganizationHolds == OrgSpec => OrganizationIsSound
<1>1. OrgInv => KeepsAdmin
  BY DEF OrgInv
<1>2. OrgInv => OneActiveInvite
  <2> SUFFICES ASSUME OrgInv PROVE OneActiveInvite
    OBVIOUS
  <2>1. Cardinality(Active) <= 1
    <3>1. CASE Active = {}
      BY <3>1, FS_EmptySet
    <3>2. CASE Active # {}
      <4>1. PICK i : Active = {i}
        BY <3>2 DEF OrgInv, AtMostOneActive
      <4>2. Cardinality({i}) = 1
        BY FS_Singleton
      <4> QED
        BY <4>1, <4>2
    <3> QED
      BY <3>1, <3>2
  <2>2. ASSUME NEW p \in OrgRequests, Doing(p, "inviteWrite"), orgReq[p].inv = 0
        PROVE  Active = {}
    <3>1. OrgKnows(orgReq[p], p)
      BY DEF OrgInv, OrgRequestsKnow
    <3> QED
      BY <2>2, <3>1 DEF Doing, OrgKnows, FoundInvite
  <2> QED
    BY <2>1, <2>2 DEF OneActiveInvite
<1>3. OrgInv /\ [OrgNext]_orgVars =>
        [\/ UNCHANGED <<holds, perm, permRole>>
         \/ aclVersion' # aclVersion
         \/ \A u \in OrgUsers : Effective(u)' = Effective(u)]_orgVars
  BY StepCoversChange
<1>4. OrgInv /\ [OrgNext]_orgVars =>
        [\/ UNCHANGED <<invite, seat>>
         \/ \A i \in Invites :
              /\ invite[i].status \in {"accepted", "revoked"} =>
                   invite'[i].status \in {invite[i].status, "purged"}
              /\ seat'[Guest] = i /\ seat[Guest] # i =>
                   invite[i].status = "pending" /\ invite[i].live]_orgVars
  BY StepSettles
<1> QED
  BY <1>1, <1>2, <1>3, <1>4, OrgInvariant, PTL
     DEF OrgSpec, OrganizationIsSound, AclCoversChange, SettledInvite

-----------------------------------------------------------------------------
(* NameRaces.                                                              *)

\* What a request holds at each of its steps: it has written from its first write on, and the
\* slug it is about to insert is the name it looked for or one nobody has.
RequestFits(r) ==
  /\ r.pc \in {"new", "look", "look again", "write"} => ~r.wrote /\ ~r.broke
  /\ r.pc = "session" => r.wrote /\ ~r.broke /\ r.kind = "register"
  /\ r.pc = "write" /\ r.kind \in {"createOrg", "nameOrg"} => r.slug \in {r.name, "suffixed"}

NrTablesTyped ==
  /\ emails \subseteq NrNames
  /\ slugs \in [OrgRows -> Slug]
  /\ roleName \in [RoleRows -> NrNames \cup NoRow]
  /\ member \in BOOLEAN
  /\ held \subseteq RoleRows /\ linked \subseteq RoleRows
  /\ faults \in 0 .. MaxFaults

\* The statuses that say a row is missing, and those of a refusal.
Missed == {400, 403, 404}
Refusals == Missed \cup {409}

\* What an answer must go with, in the state it is given in.
AnswerFits(r, taken, missing) ==
  r.pc = "done" /\ ~r.broke =>
    /\ r.answer.status = 200 <=> r.wrote
    /\ r.answer.status = 409 => taken
    /\ r.answer.status \in Missed => missing
    /\ r.answer.status < 500

\* The inductive invariant: the constraints of the tables hold, and what a request is told.
NrInv ==
  /\ NameTypeOK /\ NamesAreUnique /\ RowsAreWhole
  /\ \A p \in NrRequests :
       RequestFits(op[p]) /\ AnswerFits(op[p], since[p].taken, since[p].missing)

\* A step of one request: the tables keep their constraints, and the answer fits them.
LEMMA NrMoves ==
  ASSUME NrInv, NEW p \in NrRequests, NEW r \in NrOp, op' = [op EXCEPT ![p] = r], Observe,
         op[p].pc # "done", r.pc # "new", RequestFits(r), AnswerFits(r, NameTaken(p)', RowMissing(p)'),
         NrTablesTyped', NamesAreUnique', RowsAreWhole'
  PROVE  NrInv'
<1>1. op' \in [NrRequests -> NrOp] /\ op'[p] = r /\ \A q \in NrRequests \ {p} : op'[q] = op[q]
  BY DEF NrInv, NameTypeOK
<1>2. since' \in [NrRequests -> [taken : BOOLEAN, missing : BOOLEAN]]
  <2>1. ASSUME NEW q \in NrRequests
        PROVE  since'[q] \in [taken : BOOLEAN, missing : BOOLEAN]
    <3>1. CASE op[q].pc = "done" \/ op'[q].pc = "new"
      BY <3>1 DEF Observe, NrInv, NameTypeOK
    <3>2. CASE ~(op[q].pc = "done" \/ op'[q].pc = "new")
      <4>1. since'[q] = [taken |-> since[q].taken \/ NameTaken(q)',
                         missing |-> since[q].missing \/ RowMissing(q)']
        BY <3>2 DEF Observe
      <4>2. (since[q].taken \/ NameTaken(q)') \in BOOLEAN
            /\ (since[q].missing \/ RowMissing(q)') \in BOOLEAN
        OBVIOUS
      <4> QED
        BY <4>1, <4>2
    <3> QED
      BY <3>1, <3>2
  <2> QED
    BY <2>1 DEF Observe
<1>3. /\ NameTaken(p)' => since'[p].taken
      /\ RowMissing(p)' => since'[p].missing
  BY <1>1 DEF Observe
<1>4. AnswerFits(r, since'[p].taken, since'[p].missing)
  BY <1>3 DEF AnswerFits
<1>5. ASSUME NEW q \in NrRequests, q # p
      PROVE  (RequestFits(op[q]) /\ AnswerFits(op[q], since[q].taken, since[q].missing))'
  <2>1. /\ op'[q] = op[q] /\ RequestFits(op[q])
        /\ AnswerFits(op[q], since[q].taken, since[q].missing)
    BY <1>1, <1>5 DEF NrInv
  <2>2. RequestFits(op[q])'
    BY <2>1, Zenon
  <2>3. AnswerFits(op[q], since[q].taken, since[q].missing)'
    <3>1. CASE op[q].pc = "done"
      <4>1. since'[q] = since[q]
        BY <3>1 DEF Observe
      <4> QED
        BY <2>1, <4>1, Zenon
    <3>2. CASE op[q].pc # "done"
      BY <2>1, <3>2 DEF AnswerFits
    <3> QED
      BY <3>1, <3>2
  <2> QED
    BY <2>2, <2>3
<1>p. AnswerFits(op[p], since[p].taken, since[p].missing)'
  BY <1>1, <1>4, Zenon
<1>6. RequestFits(op[p])'
  BY <1>1
<1>7. NameTypeOK'
  BY <1>1, <1>2 DEF NameTypeOK, NrTablesTyped
<1> QED
  BY <1>p, <1>5, <1>6, <1>7 DEF NrInv

LEMMA NrTablesRest ==
  ASSUME NrInv, UNCHANGED <<nrData, faults>>
  PROVE  NrTablesTyped' /\ NamesAreUnique' /\ RowsAreWhole'
BY DEF NrInv, NameTypeOK, NrTablesTyped, nrData, NamesAreUnique, RowsAreWhole, HomeIsThere, IsRow

\* While the tables stand, the same name is taken and the same row missing.
LEMMA NrSameView ==
  ASSUME UNCHANGED nrData, NEW p,
         op'[p].kind = op[p].kind, op'[p].name = op[p].name, op'[p].role = op[p].role,
         op'[p].org = op[p].org
  PROVE  (NameTaken(p)' <=> NameTaken(p)) /\ (RowMissing(p)' <=> RowMissing(p))
<1>1. UNCHANGED <<emails, slugs, roleName, member, held>>
  BY DEF nrData
<1>2. NameTaken(p)' <=> NameTaken(p)
  BY <1>1 DEF NameTaken
<1>3. RowMissing(p)' <=> RowMissing(p)
  BY <1>1 DEF RowMissing, HomeIsThere, IsRow
<1> QED
  BY <1>2, <1>3

-----------------------------------------------------------------------------

\* What the filters make of each exception.
LEMMA AppAnswers ==
  ASSUME NEW s \in {403, 404, 409}, NEW c \in Codes
  PROVE  Filtered(App(s, c)) \in NrAnswer /\ Filtered(App(s, c)).status = s
         /\ (s # 409 => Filtered(App(s, c)).status \in Missed)
BY DEF Filtered, App, HttpFilter, NrAnswer, Missed

LEMMA KnownAnswers ==
  ASSUME NEW fields
  PROVE  /\ Filtered(Prisma("P2002", fields)) \in NrAnswer
         /\ Filtered(Prisma("P2002", fields)).status = 409
         /\ Filtered(Prisma("P2003", fields)) \in NrAnswer
         /\ Filtered(Prisma("P2003", fields)).status \in Missed
         /\ Filtered(Prisma("P2025", fields)) \in NrAnswer
         /\ Filtered(Prisma("P2025", fields)).status \in Missed
<1>1. ResolveP2002ErrorCode(fields) \in Codes
  BY DEF ResolveP2002ErrorCode, Codes
<1>2. Filtered(Prisma("P2002", fields)) = [status |-> 409, code |-> ResolveP2002ErrorCode(fields)]
  BY DEF Filtered, Prisma, PrismaFilter, ErrorCodeMapping, PrismaErrorCode
<1>3. Filtered(Prisma("P2003", fields)) = [status |-> 400, code |-> "PRISMA_P2003"]
  BY DEF Filtered, Prisma, PrismaFilter, ErrorCodeMapping, PrismaErrorCode
<1>4. Filtered(Prisma("P2025", fields)) = [status |-> 404, code |-> "PRISMA_P2025"]
  BY DEF Filtered, Prisma, PrismaFilter, ErrorCodeMapping, PrismaErrorCode
<1> QED
  BY <1>1, <1>2, <1>3, <1>4 DEF NrAnswer, Codes, Missed

LEMMA BrokenAnswers ==
  ASSUME NEW e \in Broken
  PROVE  Filtered(e) \in NrAnswer
<1>1. CASE e = Prisma("P2024", {})
  BY <1>1 DEF Filtered, Prisma, PrismaFilter, ErrorCodeMapping, PrismaErrorCode, NrAnswer, Codes
<1>2. CASE e = Prisma("P2034", {})
  BY <1>2 DEF Filtered, Prisma, PrismaFilter, ErrorCodeMapping, PrismaErrorCode, NrAnswer, Codes
<1>3. CASE e = Prisma("P1017", {})
  BY <1>3 DEF Filtered, Prisma, PrismaFilter, ErrorCodeMapping, PrismaErrorCode, NrAnswer, Codes
<1>4. CASE e \in {Other("initialization"), Other("unknown")}
  BY <1>4 DEF Filtered, Other, PrismaFilter, NrAnswer, Codes
<1> QED
  BY <1>1, <1>2, <1>3, <1>4 DEF Broken

LEMMA NotAnError ==
  ASSUME NEW s \in Refusals
  PROVE  s # 200 /\ s < 500
BY DEF Refusals, Missed

LEMMA MissedIsRefused == \A s \in Missed : s \in Refusals /\ s # 409
BY DEF Refusals, Missed

LEMMA RefusalKinds ==
  /\ 409 \in Refusals /\ 409 \notin Missed
  /\ 400 \in Missed /\ 403 \in Missed /\ 404 \in Missed
BY DEF Refusals, Missed

\* A request that is refused: the exception's status goes with what stood in its way.
LEMMA NrRefused ==
  ASSUME NrInv, NEW p \in NrRequests, Observe, op[p].pc \in {"look", "look again", "write"},
         NEW a \in NrAnswer, a.status \in Refusals,
         a.status = 409 => NameTaken(p), a.status \in Missed => RowMissing(p),
         op' = [op EXCEPT ![p] = [op[p] EXCEPT !.pc = "done", !.answer = a]],
         UNCHANGED <<nrData, faults>>
  PROVE  NrInv'
<1>t. op \in [NrRequests -> NrOp] /\ op[p] \in NrOp
  BY DEF NrInv, NameTypeOK
<1>5. op[p].wrote = FALSE
  BY <1>t DEF NrInv, RequestFits, NrOp
<1>2. PICK r \in NrOp : /\ op' = [op EXCEPT ![p] = r]
                        /\ r.pc = "done" /\ r.answer = a /\ ~r.wrote
                        /\ r.kind = op[p].kind /\ r.name = op[p].name /\ r.role = op[p].role
                        /\ r.org = op[p].org
  <2> DEFINE n == [op[p] EXCEPT !.pc = "done", !.answer = a]
  <2>1. /\ n \in NrOp /\ n.pc = "done" /\ n.answer = a /\ ~n.wrote
        /\ n.kind = op[p].kind /\ n.name = op[p].name /\ n.role = op[p].role
        /\ n.org = op[p].org
    BY <1>t, <1>5 DEF NrOp
  <2>2. op' = [op EXCEPT ![p] = n]
    OBVIOUS
  <2> HIDE DEF n
  <2> QED
    BY <2>1, <2>2
<1>3. op'[p] = r
  BY <1>t, <1>2
<1>4. (NameTaken(p)' <=> NameTaken(p)) /\ (RowMissing(p)' <=> RowMissing(p))
  <2>1. UNCHANGED nrData
    OBVIOUS
  <2> QED
    <3>1. /\ op'[p].kind = op[p].kind /\ op'[p].name = op[p].name
          /\ op'[p].role = op[p].role /\ op'[p].org = op[p].org
      BY <1>2, <1>3
    <3> QED
      BY <2>1, <3>1, NrSameView, Zenon
<1>6. AnswerFits(r, NameTaken(p)', RowMissing(p)')
  <2>1. a.status # 200 /\ a.status < 500
    BY NotAnError, Zenon
  <2>2. r.answer = a /\ ~r.wrote
    BY <1>2
  <2> QED
    BY <1>4, <2>1, <2>2 DEF AnswerFits
<1>7. RequestFits(r)
  BY <1>2 DEF RequestFits
<1> QED
  BY <1>2, <1>6, <1>7, NrTablesRest, NrMoves

LEMMA NrThrows ==
  ASSUME NrInv, NEW p \in NrRequests, Observe, op[p].pc \in {"look", "look again", "write"},
         NEW e, Throws(p, e), UNCHANGED <<nrData, faults>>,
         Filtered(e) \in NrAnswer, Filtered(e).status \in Refusals,
         Filtered(e).status = 409 => NameTaken(p),
         Filtered(e).status \in Missed => RowMissing(p)
  PROVE  NrInv'
<1>1. PICK a \in NrAnswer : a = Filtered(e)
  OBVIOUS
<1>2. op' = [op EXCEPT ![p] = [op[p] EXCEPT !.pc = "done", !.answer = a]]
  BY <1>1, Zenon DEF Throws, NrGo
<1>3. /\ a.status \in Refusals
      /\ (a.status = 409 => NameTaken(p))
      /\ (a.status \in Missed => RowMissing(p))
  <2>1. a.status = Filtered(e).status
    BY <1>1, Zenon
  <2> QED
    BY <2>1, Zenon
<1> QED
  BY <1>2, <1>3, NrRefused

\* The name is taken, or a row is missing, and the request is told so.
LEMMA NrConflict ==
  ASSUME NrInv, NEW p \in NrRequests, Observe, op[p].pc \in {"look", "look again", "write"},
         NEW e, Throws(p, e), UNCHANGED <<nrData, faults>>,
         Filtered(e) \in NrAnswer, Filtered(e).status = 409, NameTaken(p)
  PROVE  NrInv'
<1>1. Filtered(e).status \in Refusals /\ Filtered(e).status \notin Missed
  BY RefusalKinds, Zenon
<1> QED
  BY <1>1, NrThrows, Zenon

LEMMA NrNotThere ==
  ASSUME NrInv, NEW p \in NrRequests, Observe, op[p].pc \in {"look", "look again", "write"},
         NEW e, Throws(p, e), UNCHANGED <<nrData, faults>>,
         Filtered(e) \in NrAnswer, Filtered(e).status \in Missed, RowMissing(p)
  PROVE  NrInv'
<1>1. Filtered(e).status \in Refusals /\ Filtered(e).status # 409
  BY MissedIsRefused, Zenon
<1> QED
  BY <1>1, NrThrows, Zenon

\* A statement that breaks: the client is told of an error of the database's own.
LEMMA NrBreaks ==
  ASSUME NrInv, NEW p \in NrRequests, Observe, op[p].pc # "done", NEW w \in BOOLEAN, Breaks(p, w),
         NrTablesTyped', NamesAreUnique', RowsAreWhole'
  PROVE  NrInv'
<1>t. op \in [NrRequests -> NrOp] /\ op[p] \in NrOp
  BY DEF NrInv, NameTypeOK
<1>1. PICK e \in Broken : NrGo(p, [op[p] EXCEPT !.pc = "done", !.broke = TRUE, !.wrote = w,
                                                !.answer = Filtered(e)])
  BY DEF Breaks
<1>2. PICK a \in NrAnswer : a = Filtered(e)
  BY BrokenAnswers
<1>3. PICK r \in NrOp : op' = [op EXCEPT ![p] = r] /\ r.pc = "done" /\ r.broke
  <2> DEFINE n == [op[p] EXCEPT !.pc = "done", !.broke = TRUE, !.wrote = w, !.answer = a]
  <2>1. n \in NrOp /\ n.pc = "done" /\ n.broke
    BY <1>t DEF NrOp
  <2>2. op' = [op EXCEPT ![p] = n]
    BY <1>1, <1>2 DEF NrGo
  <2> HIDE DEF n
  <2> QED
    BY <2>1, <2>2
<1> QED
  BY <1>3, NrMoves DEF RequestFits, AnswerFits

\* A request that goes on without a word to the database's tables.
LEMMA NrGoesOn ==
  ASSUME NrInv, NEW p \in NrRequests, Observe, op[p].pc \in {"new", "look", "look again"},
         NEW r \in NrOp, op' = [op EXCEPT ![p] = r], r.pc \in {"look", "look again", "write"},
         r.wrote = op[p].wrote, r.broke = op[p].broke,
         r.pc = "write" /\ r.kind \in {"createOrg", "nameOrg"} => r.slug \in {r.name, "suffixed"},
         UNCHANGED <<nrData, faults>>
  PROVE  NrInv'
<1>1. RequestFits(r)
  BY DEF NrInv, RequestFits
<1>2. AnswerFits(r, NameTaken(p)', RowMissing(p)')
  BY DEF AnswerFits
<1> QED
  BY <1>1, <1>2, NrTablesRest, NrMoves

\* A write that took effect: the tables keep their constraints, and the request is told so, goes
\* on to its session, or never hears of it.
LEMMA NrWrites ==
  ASSUME NrInv, NEW p \in NrRequests, Observe, op[p].pc # "done", ~op[p].broke,
         NEW pc \in {"session", "done"}, pc = "session" => op[p].kind = "register", Written(p, pc),
         faults' \in 0 .. MaxFaults => NrTablesTyped', NamesAreUnique', RowsAreWhole'
  PROVE  NrInv'
<1>t. op \in [NrRequests -> NrOp] /\ op[p] \in NrOp /\ faults \in 0 .. MaxFaults
  BY DEF NrInv, NameTypeOK
<1>f. faults' \in 0 .. MaxFaults
  <2>1. faults' = faults \/ Fault
    BY DEF Written
  <2> QED
    BY <1>t, <2>1, NameAssumption DEF Fault
<1>1. CASE Breaks(p, TRUE)
  BY <1>1, <1>f, NrBreaks
<1>2. CASE ~Breaks(p, TRUE)
  <2>1. PICK a \in NrAnswer : /\ pc = "done" => a.status = 200
                              /\ NrGo(p, [op[p] EXCEPT !.pc = pc, !.wrote = TRUE, !.answer = a])
    <3>1. CASE pc = "done"
      <4>1. [status |-> 200, code |-> "NONE"] \in NrAnswer
        BY DEF NrAnswer, Codes
      <4> QED
        BY <1>2, <3>1, <4>1 DEF Written
    <3>2. CASE pc # "done"
      <4>1. op[p].answer \in NrAnswer
        BY <1>t DEF NrOp
      <4> QED
        BY <1>2, <3>2, <4>1 DEF Written
    <3> QED
      BY <3>1, <3>2
  <2>2. PICK r \in NrOp : /\ op' = [op EXCEPT ![p] = r]
                          /\ r.pc = pc /\ r.wrote /\ r.answer = a /\ ~r.broke
                          /\ r.kind = op[p].kind
    <3> DEFINE n == [op[p] EXCEPT !.pc = pc, !.wrote = TRUE, !.answer = a]
    <3>1. n \in NrOp /\ n.pc = pc /\ n.wrote /\ n.answer = a /\ ~n.broke /\ n.kind = op[p].kind
      BY <1>t DEF NrOp
    <3>2. op' = [op EXCEPT ![p] = n]
      BY <2>1 DEF NrGo
    <3> HIDE DEF n
    <3> QED
      BY <3>1, <3>2
  <2>3. RequestFits(r)
    BY <2>2 DEF RequestFits
  <2>4. AnswerFits(r, NameTaken(p)', RowMissing(p)')
    BY <2>1, <2>2 DEF AnswerFits, Missed
  <2> QED
    BY <1>f, <2>2, <2>3, <2>4, NrMoves
<1> QED
  BY <1>1, <1>2

LEMMA NrDataRests ==
  ASSUME NrInv, UNCHANGED nrData
  PROVE  NamesAreUnique' /\ RowsAreWhole' /\ (faults' \in 0 .. MaxFaults => NrTablesTyped')
BY DEF NrInv, NameTypeOK, NrTablesTyped, nrData, NamesAreUnique, RowsAreWhole, HomeIsThere, IsRow

-----------------------------------------------------------------------------

\* A request comes, or is too large to.
LEMMA ArrivalKeeps ==
  ASSUME NrInv, NEW p \in NrRequests, Observe, ArriveNr(p)
  PROVE  NrInv'
<1>t. op \in [NrRequests -> NrOp] /\ op[p] \in NrOp /\ UNCHANGED <<nrData, faults>> /\ NrAt(p, "new")
  BY DEF NrInv, NameTypeOK, ArriveNr
<1>1. CASE Throws(p, Other("entity.too.large"))
  <2>1. Filtered(Other("entity.too.large")) = [status |-> 413, code |-> "PAYLOAD_TOO_LARGE"]
    BY DEF Filtered, Other, AllFilter
  <2>2. PICK a \in NrAnswer : a = Filtered(Other("entity.too.large")) /\ a.status = 413
    BY <2>1 DEF NrAnswer, Codes
  <2>3. op[p].wrote = FALSE
    BY <1>t DEF NrInv, RequestFits, NrAt, NrOp
  <2>4. PICK r \in NrOp : /\ op' = [op EXCEPT ![p] = r]
                          /\ r.pc = "done" /\ r.answer = a /\ ~r.wrote
    <3> DEFINE n == [op[p] EXCEPT !.pc = "done", !.answer = a]
    <3>1. n \in NrOp /\ n.pc = "done" /\ n.answer = a /\ ~n.wrote
      BY <1>t, <2>3 DEF NrOp
    <3>2. op' = [op EXCEPT ![p] = n]
      BY <1>1, <2>2, Zenon DEF Throws, NrGo
    <3> HIDE DEF n
    <3> QED
      BY <3>1, <3>2
  <2>5. AnswerFits(r, NameTaken(p)', RowMissing(p)') /\ RequestFits(r)
    BY <2>2, <2>4 DEF AnswerFits, RequestFits, Missed
  <2>6. op[p].pc # "done"
    BY <1>t DEF NrAt
  <2>7. NrTablesTyped' /\ NamesAreUnique' /\ RowsAreWhole'
    BY <1>t, NrTablesRest
  <2> QED
    BY <2>4, <2>5, <2>6, <2>7, NrMoves
<1>2. CASE ~Throws(p, Other("entity.too.large"))
  <2>1. PICK kind \in Kinds, name \in NrNames, x \in RoleRows, org \in OrgRows :
          NrGo(p, [op[p] EXCEPT !.pc = "look", !.kind = kind, !.name = name, !.role = x,
                                !.org = org])
    BY <1>2 DEF ArriveNr
  <2>2. PICK r \in NrOp : /\ op' = [op EXCEPT ![p] = r] /\ r.pc = "look"
                          /\ r.wrote = op[p].wrote /\ r.broke = op[p].broke
    <3> DEFINE n == [op[p] EXCEPT !.pc = "look", !.kind = kind, !.name = name, !.role = x,
                                  !.org = org]
    <3>1. n \in NrOp /\ n.pc = "look" /\ n.wrote = op[p].wrote /\ n.broke = op[p].broke
      BY <1>t DEF NrOp
    <3>2. op' = [op EXCEPT ![p] = n]
      BY <2>1 DEF NrGo
    <3> HIDE DEF n
    <3> QED
      BY <3>1, <3>2
  <2>3. op[p].pc = "new"
    BY <1>t DEF NrAt
  <2> QED
    BY <1>t, <2>2, <2>3, NrGoesOn
<1> QED
  BY <1>1, <1>2

\* A statement of any request breaks.
LEMMA BreakKeeps ==
  ASSUME NrInv, NEW p \in NrRequests, Observe, StatementFails(p)
  PROVE  NrInv'
<1>1. /\ op[p].pc \in {"look", "look again", "write", "session"}
      /\ Breaks(p, op[p].wrote) /\ UNCHANGED nrData
  BY DEF StatementFails
<1>f. Fault
  BY DEF StatementFails
<1>2. faults' \in 0 .. MaxFaults
  <2>1. faults \in 0 .. MaxFaults
    BY DEF NrInv, NameTypeOK
  <2> QED
    BY <1>f, <2>1, NameAssumption DEF Fault
<1>3. PICK w \in BOOLEAN : w = op[p].wrote
  BY DEF NrInv, NameTypeOK, NrOp
<1>4. Breaks(p, w)
  BY <1>1, <1>3
<1>5. op[p].pc # "done"
  BY <1>1
<1> QED
  BY <1>1, <1>2, <1>4, <1>5, NrDataRests, NrBreaks

\* To another step, with the same request.
LEMMA NrTo ==
  ASSUME NrInv, NEW p \in NrRequests, Observe, op[p].pc \in {"look", "look again"},
         NEW pc \in {"look again", "write"}, To(p, pc), UNCHANGED <<nrData, faults>>,
         op[p].kind \notin {"createOrg", "nameOrg"}
  PROVE  NrInv'
<1>t. op \in [NrRequests -> NrOp] /\ op[p] \in NrOp
  BY DEF NrInv, NameTypeOK
<1>1. PICK r \in NrOp : /\ op' = [op EXCEPT ![p] = r] /\ r.pc = pc /\ r.kind = op[p].kind
                        /\ r.wrote = op[p].wrote /\ r.broke = op[p].broke
  <2> DEFINE n == [op[p] EXCEPT !.pc = pc]
  <2>1. /\ n \in NrOp /\ n.pc = pc /\ n.kind = op[p].kind
        /\ n.wrote = op[p].wrote /\ n.broke = op[p].broke
    BY <1>t DEF NrOp
  <2>2. op' = [op EXCEPT ![p] = n]
    BY DEF To, NrGo
  <2> HIDE DEF n
  <2> QED
    BY <2>1, <2>2
<1> QED
  BY <1>1, NrGoesOn

\* To the write, with the slug it will insert.
LEMMA NrWithSlug ==
  ASSUME NrInv, NEW p \in NrRequests, Observe, op[p].pc = "look",
         NEW slug \in {op[p].name, "suffixed"},
         NrGo(p, [op[p] EXCEPT !.pc = "write", !.slug = slug]), UNCHANGED <<nrData, faults>>
  PROVE  NrInv'
<1>t. op \in [NrRequests -> NrOp] /\ op[p] \in NrOp
  BY DEF NrInv, NameTypeOK
<1>1. PICK r \in NrOp : /\ op' = [op EXCEPT ![p] = r] /\ r.pc = "write"
                        /\ r.wrote = op[p].wrote /\ r.broke = op[p].broke
                        /\ r.slug \in {r.name, "suffixed"}
  <2> DEFINE n == [op[p] EXCEPT !.pc = "write", !.slug = slug]
  <2>1. /\ n \in NrOp /\ n.pc = "write" /\ n.slug \in {n.name, "suffixed"}
        /\ n.wrote = op[p].wrote /\ n.broke = op[p].broke
    BY <1>t DEF NrOp
  <2>2. op' = [op EXCEPT ![p] = n]
    BY DEF NrGo
  <2> HIDE DEF n
  <2> QED
    BY <2>1, <2>2
<1> QED
  BY <1>1, NrGoesOn

-----------------------------------------------------------------------------

\* The looks: a name that is taken or a row that is missing is what the request is told, and
\* otherwise the tables may change before it writes.
LEMMA LookKeeps ==
  ASSUME NrInv, NEW p \in NrRequests, Observe,
         \/ LookForName(p) \/ GenerateSlug(p) \/ FindCustomRole(p) \/ NameConflict(p)
         \/ FindMember(p) \/ AssertAssignable(p)
  PROVE  NrInv'
<1>a. \A s \in {403, 404, 409} : \A c \in Codes :
        Filtered(App(s, c)) \in NrAnswer /\ Filtered(App(s, c)).status = s
        /\ (s # 409 => Filtered(App(s, c)).status \in Missed)
  BY AppAnswers
<1>b. {"CONFLICT", "RESOURCE_NOT_FOUND", "FORBIDDEN", "EMAIL_ALREADY_EXISTS"} \subseteq Codes
  BY DEF Codes
<1>t. op[p] \in NrOp
  BY DEF NrInv, NameTypeOK
<1>c. /\ Filtered(ConflictException) \in NrAnswer /\ Filtered(ConflictException).status = 409
      /\ Filtered(NotFoundException) \in NrAnswer /\ Filtered(NotFoundException).status \in Missed
      /\ Filtered(ForbiddenException) \in NrAnswer /\ Filtered(ForbiddenException).status \in Missed
      /\ Filtered(App(409, "EMAIL_ALREADY_EXISTS")) \in NrAnswer
      /\ Filtered(App(409, "EMAIL_ALREADY_EXISTS")).status = 409
  BY <1>a, <1>b DEF ConflictException, NotFoundException, ForbiddenException
<1>1. CASE LookForName(p)
  <2>1. op[p].pc = "look" /\ UNCHANGED <<nrData, faults>>
    BY <1>1 DEF LookForName, NrAt
  <2>2. CASE NameTaken(p)
    <3>1. Throws(p, App(409, "EMAIL_ALREADY_EXISTS")) \/ Throws(p, ConflictException)
      BY <1>1, <2>2 DEF LookForName
    <3> QED
      BY <1>c, NrConflict, <2>1, <2>2, <3>1
  <2>3. CASE ~NameTaken(p)
    <3>1. NrGo(p, [op[p] EXCEPT !.pc = "write", !.slug = op[p].name])
      BY <1>1, <2>3 DEF LookForName
    <3> QED
      BY <2>1, <3>1, NrWithSlug
  <2> QED
    BY <2>2, <2>3
<1>2. CASE GenerateSlug(p)
  <2>1. op[p].pc = "look" /\ UNCHANGED <<nrData, faults>>
    BY <1>2 DEF GenerateSlug, NrAt
  <2>2. PICK slug \in {op[p].name, "suffixed"} :
          NrGo(p, [op[p] EXCEPT !.pc = "write", !.slug = slug])
    BY <1>2 DEF GenerateSlug
  <2> QED
    BY <2>1, <2>2, NrWithSlug
<1>3. CASE FindCustomRole(p)
  <2>1. /\ op[p].pc = "look" /\ UNCHANGED <<nrData, faults>>
        /\ op[p].kind \in {"updateRole", "deleteRole", "assignPermission"}
    BY <1>3 DEF FindCustomRole, NrAt
  <2>2. CASE ~IsRow(roleName[op[p].role])
    <3>1. Throws(p, NotFoundException)
      BY <1>3, <2>2 DEF FindCustomRole
    <3>2. RowMissing(p)
      BY <2>1, <2>2 DEF RowMissing
    <3> QED
      BY <1>c, NrNotThere, <2>1, <3>1, <3>2
  <2>3. CASE IsRow(roleName[op[p].role])
    <3>1. PICK pc \in {"look again", "write"} : To(p, pc)
      BY <1>3, <2>3 DEF FindCustomRole
    <3> QED
      BY <2>1, <3>1, NrTo
  <2> QED
    BY <2>2, <2>3
<1>4. CASE NameConflict(p)
  <2>1. /\ op[p].pc = "look again" /\ UNCHANGED <<nrData, faults>>
        /\ op[p].kind = "updateRole"
    BY <1>4 DEF NameConflict, NrAt
  <2>2. CASE NameTaken(p)
    <3>1. Throws(p, ConflictException)
      BY <1>4, <2>2 DEF NameConflict
    <3> QED
      BY <1>c, NrConflict, <2>1, <2>2, <3>1
  <2>3. CASE ~NameTaken(p)
    <3>1. To(p, "write")
      BY <1>4, <2>3 DEF NameConflict
    <3> QED
      BY <2>1, <3>1, NrTo
  <2> QED
    BY <2>2, <2>3
<1>5. CASE FindMember(p)
  <2>1. op[p].pc = "look" /\ UNCHANGED <<nrData, faults>> /\ op[p].kind = "assignRole"
    BY <1>5 DEF FindMember, NrAt
  <2>2. CASE ~member
    <3>1. Throws(p, NotFoundException)
      BY <1>5, <2>2 DEF FindMember
    <3>2. RowMissing(p)
      BY <2>1, <2>2 DEF RowMissing
    <3> QED
      BY <1>c, NrNotThere, <2>1, <3>1, <3>2
  <2>3. CASE member
    <3>1. To(p, "look again")
      BY <1>5, <2>3 DEF FindMember
    <3> QED
      BY <2>1, <3>1, NrTo
  <2> QED
    BY <2>2, <2>3
<1>6. CASE AssertAssignable(p)
  <2>1. op[p].pc = "look again" /\ UNCHANGED <<nrData, faults>> /\ op[p].kind = "assignRole"
    BY <1>6 DEF AssertAssignable, NrAt
  <2>2. CASE ~IsRow(roleName[op[p].role])
    <3>1. Throws(p, ForbiddenException)
      BY <1>6, <2>2 DEF AssertAssignable
    <3>2. RowMissing(p)
      BY <2>1, <2>2 DEF RowMissing
    <3> QED
      BY <1>c, NrNotThere, <2>1, <3>1, <3>2
  <2>3. CASE IsRow(roleName[op[p].role]) /\ op[p].role \in held
    <3>1. Throws(p, ConflictException)
      BY <1>6, <2>3 DEF AssertAssignable
    <3>2. NameTaken(p)
      BY <2>1, <2>3 DEF NameTaken
    <3> QED
      BY <1>c, NrConflict, <2>1, <3>1, <3>2
  <2>4. CASE IsRow(roleName[op[p].role]) /\ op[p].role \notin held
    <3>1. To(p, "write")
      BY <1>6, <2>4 DEF AssertAssignable
    <3> QED
      BY <2>1, <3>1, NrTo
  <2> QED
    BY <2>2, <2>3, <2>4
<1> QED
  BY <1>1, <1>2, <1>3, <1>4, <1>5, <1>6

-----------------------------------------------------------------------------

\* What the database's own refusals tell: a constraint that is met, a row that is missing.
LEMMA NrUnique ==
  ASSUME NrInv, NEW p \in NrRequests, Observe, op[p].pc = "write", NEW field, Unique(p, field),
         NameTaken(p), UNCHANGED <<nrData, faults>>
  PROVE  NrInv'
<1>1. PICK fields : Throws(p, Prisma("P2002", fields))
  BY DEF Unique
<1>2. Filtered(Prisma("P2002", fields)) \in NrAnswer /\ Filtered(Prisma("P2002", fields)).status = 409
  BY KnownAnswers
<1> QED
  BY <1>1, <1>2, NrConflict

LEMMA NrDangling ==
  ASSUME NrInv, NEW p \in NrRequests, Observe, op[p].pc \in {"look", "look again", "write"},
         NEW c \in {"P2003", "P2025"}, Throws(p, Prisma(c, {})), RowMissing(p),
         UNCHANGED <<nrData, faults>>
  PROVE  NrInv'
<1>1. Filtered(Prisma(c, {})) \in NrAnswer /\ Filtered(Prisma(c, {})).status \in Missed
  BY KnownAnswers, Zenon
<1> QED
  BY <1>1, NrNotThere

\* A request about to write has neither written nor broken.
LEMMA NrAboutTo ==
  ASSUME NrInv, NEW p \in NrRequests, op[p].pc \in {"look", "look again", "write", "session"}
  PROVE  op[p] \in NrOp /\ op[p].pc # "done" /\ ~op[p].broke
BY DEF NrInv, NameTypeOK, RequestFits

\* An account: its address is nobody else's.
LEMMA UserKeeps ==
  ASSUME NrInv, NEW p \in NrRequests, Observe, InsertUser(p) \/ OpenFirstSession(p)
  PROVE  NrInv'
<1>1. CASE InsertUser(p)
  <2>1. /\ op[p].pc = "write" /\ op[p].kind = "register"
        /\ UNCHANGED <<slugs, roleName, member, held, linked>>
    BY <1>1 DEF InsertUser, NrAt
  <2>2. CASE op[p].name \in emails
    <3>1. Unique(p, "emailCanonical") /\ UNCHANGED <<emails, faults>>
      BY <1>1, <2>2 DEF InsertUser
    <3>2. NameTaken(p) /\ UNCHANGED nrData
      BY <2>1, <2>2, <3>1 DEF NameTaken, nrData
    <3> QED
      BY <2>1, <3>1, <3>2, NrUnique
  <2>3. CASE op[p].name \notin emails
    <3>1. Written(p, "session") /\ emails' = emails \cup {op[p].name}
      BY <1>1, <2>3 DEF InsertUser
    <3>2. op[p] \in NrOp /\ op[p].pc # "done" /\ ~op[p].broke
      BY <2>1, NrAboutTo
    <3>3. NamesAreUnique' /\ RowsAreWhole'
      BY <2>1 DEF NrInv, NamesAreUnique, RowsAreWhole, HomeIsThere, IsRow
    <3>4. faults' \in 0 .. MaxFaults => NrTablesTyped'
      BY <2>1, <3>1, <3>2 DEF NrInv, NameTypeOK, NrTablesTyped, NrOp
    <3> QED
      BY <2>1, <3>1, <3>2, <3>3, <3>4, NrWrites
  <2> QED
    BY <2>2, <2>3
<1>2. CASE OpenFirstSession(p)
  <2>1. op[p].pc = "session" /\ Written(p, "done") /\ UNCHANGED nrData
    BY <1>2 DEF OpenFirstSession, NrAt
  <2>2. op[p].pc # "done" /\ ~op[p].broke
    BY <2>1, NrAboutTo
  <2> QED
    BY <2>1, <2>2, NrDataRests, NrWrites
<1> QED
  BY <1>1, <1>2

\* An organisation is inserted, renamed or removed.
LEMMA OrgKeeps ==
  ASSUME NrInv, NEW p \in NrRequests, Observe, InsertOrg(p) \/ UpdateOrg(p) \/ RemoveOrg(p)
  PROVE  NrInv'
<1>i. NameTypeOK /\ NamesAreUnique /\ RowsAreWhole
  BY DEF NrInv
<1>1. CASE InsertOrg(p)
  <2>1. /\ op[p].pc = "write" /\ op[p].kind \in {"createOrg", "nameOrg"}
        /\ UNCHANGED <<emails, roleName, member, held, linked>>
    BY <1>1 DEF InsertOrg, NrAt
  <2>2. op[p] \in NrOp /\ op[p].pc # "done" /\ ~op[p].broke
    BY <2>1, NrAboutTo
  <2>3. op[p].slug \in {op[p].name, "suffixed"}
    BY <2>1 DEF NrInv, RequestFits
  <2>4. CASE op[p].slug \in NrNames /\ \E o \in OrgRows : slugs[o] = op[p].slug
    <3>1. Unique(p, "slug") /\ UNCHANGED <<slugs, faults>>
      BY <1>1, <2>4 DEF InsertOrg
    <3>2. op[p].slug = op[p].name
      BY <2>3, <2>4, NameAssumption
    <3>3. NameTaken(p) /\ UNCHANGED nrData
      BY <2>1, <2>4, <3>1, <3>2 DEF NameTaken, nrData
    <3> QED
      BY <2>1, <3>1, <3>3, NrUnique
  <2>5. CASE ~(op[p].slug \in NrNames /\ \E o \in OrgRows : slugs[o] = op[p].slug)
    <3>1. PICK o \in OrgRows : /\ slugs[o] = "unused"
                               /\ slugs' = [slugs EXCEPT ![o] = op[p].slug]
                               /\ Written(p, "done")
      BY <1>1, <2>5 DEF InsertOrg
    <3>2. PICK slug \in NrNames \cup {"suffixed"} : slug = op[p].slug
      BY <2>2 DEF NrOp
    <3>3. slugs' = [slugs EXCEPT ![o] = slug]
      BY <3>1, <3>2
    <3>4. slugs' \in [OrgRows -> Slug] /\ slugs'[o] = slug
          /\ \A q \in OrgRows \ {o} : slugs'[q] = slugs[q]
      BY <1>i, <3>3 DEF NameTypeOK, Slug
    <3>5. \A q \in OrgRows : slugs[q] = slug => slug \notin NrNames
      BY <2>5, <3>2
    <3>6. NamesAreUnique'
      BY <1>i, <2>1, <3>4, <3>5 DEF NamesAreUnique, IsRow
    <3>7. RowsAreWhole'
      <4>1. IsRow(slug)
        BY NameAssumption DEF IsRow, NoRow
      <4>2. HomeIsThere => HomeIsThere'
        BY <3>4, <4>1, NameAssumption DEF HomeIsThere
      <4> QED
        BY <1>i, <2>1, <4>2 DEF RowsAreWhole, IsRow
    <3>8. faults' \in 0 .. MaxFaults => NrTablesTyped'
      BY <1>i, <2>1, <3>4 DEF NameTypeOK, NrTablesTyped
    <3> QED
      BY <2>1, <2>2, <3>1, <3>6, <3>7, <3>8, NrWrites
  <2> QED
    BY <2>4, <2>5
<1>2. CASE UpdateOrg(p)
  <2>1. /\ op[p].pc = "write" /\ op[p].kind = "updateOrg"
        /\ UNCHANGED <<emails, roleName, member, held, linked>>
    BY <1>2 DEF UpdateOrg, NrAt
  <2>2. op[p] \in NrOp /\ op[p].pc # "done" /\ ~op[p].broke
    BY <2>1, NrAboutTo
  <2>3. CASE ~IsRow(slugs[op[p].org])
    <3>1. Throws(p, Prisma("P2025", {})) /\ UNCHANGED <<slugs, faults>>
      BY <1>2, <2>3 DEF UpdateOrg
    <3>2. RowMissing(p) /\ UNCHANGED nrData
      BY <2>1, <2>3, <3>1 DEF RowMissing, nrData
    <3> QED
      BY <2>1, <3>1, <3>2, NrDangling
  <2>4. CASE IsRow(slugs[op[p].org]) /\ NameTaken(p)
    <3>1. Unique(p, "slug") /\ UNCHANGED <<slugs, faults>>
      BY <1>2, <2>4 DEF UpdateOrg
    <3>2. UNCHANGED nrData
      BY <2>1, <3>1 DEF nrData
    <3> QED
      BY <2>1, <2>4, <3>1, <3>2, NrUnique
  <2>5. CASE IsRow(slugs[op[p].org]) /\ ~NameTaken(p)
    <3>1. Written(p, "done") /\ slugs' = [slugs EXCEPT ![op[p].org] = op[p].name]
      BY <1>2, <2>5 DEF UpdateOrg
    <3>2. PICK name \in NrNames, o \in OrgRows : name = op[p].name /\ o = op[p].org
      BY <2>2 DEF NrOp
    <3>4. slugs' \in [OrgRows -> Slug] /\ slugs'[o] = name
          /\ \A q \in OrgRows \ {o} : slugs'[q] = slugs[q]
      BY <1>i, <3>1, <3>2 DEF NameTypeOK, Slug
    <3>5. \A q \in OrgRows \ {o} : slugs[q] # name
      BY <2>1, <2>5, <3>2 DEF NameTaken
    <3>6. NamesAreUnique'
      BY <1>i, <2>1, <3>4, <3>5 DEF NamesAreUnique, IsRow
    <3>7. RowsAreWhole'
      <4>1. IsRow(name)
        BY NameAssumption DEF IsRow, NoRow
      <4>2. HomeIsThere => HomeIsThere'
        BY <3>4, <4>1, NameAssumption DEF HomeIsThere
      <4> QED
        BY <1>i, <2>1, <4>2 DEF RowsAreWhole, IsRow
    <3>8. faults' \in 0 .. MaxFaults => NrTablesTyped'
      BY <1>i, <2>1, <3>4 DEF NameTypeOK, NrTablesTyped
    <3> QED
      BY <2>1, <2>2, <3>1, <3>6, <3>7, <3>8, NrWrites
  <2> QED
    BY <2>3, <2>4, <2>5
<1>3. CASE RemoveOrg(p)
  <2>1. op[p].pc = "look" /\ op[p].kind = "removeOrg"
    BY <1>3 DEF RemoveOrg, NrAt
  <2>2. op[p] \in NrOp /\ op[p].pc # "done" /\ ~op[p].broke
    BY <2>1, NrAboutTo
  <2>3. CASE ~IsRow(slugs[op[p].org])
    <3>1. Throws(p, Prisma("P2025", {})) /\ UNCHANGED <<nrData, faults>>
      BY <1>3, <2>3 DEF RemoveOrg
    <3>2. RowMissing(p) /\ UNCHANGED nrData
      BY <2>1, <2>3, <3>1 DEF RowMissing
    <3> QED
      BY <2>1, <3>1, <3>2, NrDangling
  <2>4. CASE IsRow(slugs[op[p].org])
    <3>1. /\ Written(p, "done") /\ UNCHANGED emails
          /\ slugs' = [slugs EXCEPT ![op[p].org] = "gone"]
      BY <1>3, <2>4 DEF RemoveOrg
    <3>2. PICK o \in OrgRows : o = op[p].org
      BY <2>2 DEF NrOp
    <3>3. slugs' \in [OrgRows -> Slug] /\ slugs'[o] = "gone"
          /\ \A q \in OrgRows \ {o} : slugs'[q] = slugs[q]
      BY <1>i, <3>1, <3>2 DEF NameTypeOK, Slug, NoRow
    <3>4. CASE o # HomeOrg
      <4>1. UNCHANGED <<roleName, member, held, linked>>
        BY <1>3, <2>4, <3>2, <3>4 DEF RemoveOrg
      <4>2. NamesAreUnique'
        BY <1>i, <3>3, <4>1, NameAssumption DEF NamesAreUnique, IsRow
      <4>3. HomeIsThere' <=> HomeIsThere
        BY <3>3, <3>4, NameAssumption DEF HomeIsThere, IsRow
      <4>4. RowsAreWhole'
        BY <1>i, <4>1, <4>3 DEF RowsAreWhole, IsRow
      <4>5. faults' \in 0 .. MaxFaults => NrTablesTyped'
        BY <1>i, <3>1, <3>3, <4>1 DEF NameTypeOK, NrTablesTyped
      <4> QED
        BY <2>2, <3>1, <4>2, <4>4, <4>5, NrWrites
    <3>5. CASE o = HomeOrg
      <4>1. /\ roleName' = [r \in RoleRows |-> IF IsRow(roleName[r]) THEN "gone" ELSE roleName[r]]
            /\ member' = FALSE /\ held' = {} /\ linked' = {}
        BY <1>3, <2>4, <3>2, <3>5 DEF RemoveOrg
      <4>2. \A r \in RoleRows : roleName'[r] \in NoRow
        BY <4>1 DEF IsRow, NoRow
      <4>3. NamesAreUnique'
        BY <1>i, <3>3, <4>2, NameAssumption DEF NamesAreUnique, IsRow
      <4>4. RowsAreWhole'
        BY <4>1, <4>2 DEF RowsAreWhole, IsRow
      <4>5. roleName' \in [RoleRows -> NrNames \cup NoRow]
        BY <4>1, <4>2
      <4>6. faults' \in 0 .. MaxFaults => NrTablesTyped'
        BY <1>i, <3>1, <3>3, <4>1, <4>5 DEF NameTypeOK, NrTablesTyped
      <4> QED
        BY <2>2, <3>1, <4>3, <4>4, <4>6, NrWrites
    <3> QED
      BY <3>4, <3>5
  <2> QED
    BY <2>3, <2>4
<1> QED
  BY <1>1, <1>2, <1>3

\* A role is inserted, renamed or removed.
LEMMA RoleKeeps ==
  ASSUME NrInv, NEW p \in NrRequests, Observe, InsertRole(p) \/ UpdateRole(p) \/ RemoveRoleRow(p)
  PROVE  NrInv'
<1>i. NameTypeOK /\ NamesAreUnique /\ RowsAreWhole
  BY DEF NrInv
<1>1. CASE InsertRole(p)
  <2>1. /\ op[p].pc = "write" /\ op[p].kind = "createRole"
        /\ UNCHANGED <<emails, slugs, member, held, linked>>
    BY <1>1 DEF InsertRole, NrAt
  <2>2. op[p] \in NrOp /\ op[p].pc # "done" /\ ~op[p].broke
    BY <2>1, NrAboutTo
  <2>3. CASE ~HomeIsThere
    <3>1. Throws(p, Prisma("P2003", {})) /\ UNCHANGED <<roleName, faults>>
      BY <1>1, <2>3 DEF InsertRole
    <3>2. RowMissing(p) /\ UNCHANGED nrData
      BY <2>1, <2>3, <3>1 DEF RowMissing, nrData
    <3> QED
      BY <2>1, <3>1, <3>2, NrDangling
  <2>4. CASE HomeIsThere /\ NameTaken(p)
    <3>1. Unique(p, "name") /\ UNCHANGED <<roleName, faults>>
      BY <1>1, <2>4 DEF InsertRole
    <3>2. UNCHANGED nrData
      BY <2>1, <3>1 DEF nrData
    <3> QED
      BY <2>1, <2>4, <3>1, <3>2, NrUnique
  <2>5. CASE HomeIsThere /\ ~NameTaken(p)
    <3>1. PICK x \in RoleRows : /\ roleName[x] = "unused"
                                /\ roleName' = [roleName EXCEPT ![x] = op[p].name]
                                /\ Written(p, "done")
      BY <1>1, <2>5 DEF InsertRole
    <3>2. PICK name \in NrNames : name = op[p].name
      BY <2>2 DEF NrOp
    <3>3. roleName' \in [RoleRows -> NrNames \cup NoRow] /\ roleName'[x] = name
          /\ \A y \in RoleRows \ {x} : roleName'[y] = roleName[y]
      BY <1>i, <3>1, <3>2 DEF NameTypeOK
    <3>4. \A y \in RoleRows : roleName[y] # name
      BY <2>1, <2>5, <3>2 DEF NameTaken
    <3>5. NamesAreUnique'
      BY <1>i, <2>1, <3>3, <3>4 DEF NamesAreUnique, IsRow
    <3>6. RowsAreWhole'
      <4>1. IsRow(name)
        BY NameAssumption DEF IsRow, NoRow
      <4>2. HomeIsThere'
        BY <2>1, <2>5 DEF HomeIsThere
      <4> QED
        BY <1>i, <2>1, <3>3, <4>1, <4>2 DEF RowsAreWhole, IsRow, NameTypeOK
    <3>7. faults' \in 0 .. MaxFaults => NrTablesTyped'
      BY <1>i, <2>1, <3>3 DEF NameTypeOK, NrTablesTyped
    <3> QED
      BY <2>1, <2>2, <3>1, <3>5, <3>6, <3>7, NrWrites
  <2> QED
    BY <2>3, <2>4, <2>5
<1>2. CASE UpdateRole(p)
  <2>1. /\ op[p].pc = "write" /\ op[p].kind = "updateRole"
        /\ UNCHANGED <<emails, slugs, member, held, linked>>
    BY <1>2 DEF UpdateRole, NrAt
  <2>2. op[p] \in NrOp /\ op[p].pc # "done" /\ ~op[p].broke
    BY <2>1, NrAboutTo
  <2>3. CASE ~IsRow(roleName[op[p].role])
    <3>1. Throws(p, Prisma("P2025", {})) /\ UNCHANGED <<roleName, faults>>
      BY <1>2, <2>3 DEF UpdateRole
    <3>2. RowMissing(p) /\ UNCHANGED nrData
      BY <2>1, <2>3, <3>1 DEF RowMissing, nrData
    <3> QED
      BY <2>1, <3>1, <3>2, NrDangling
  <2>4. CASE IsRow(roleName[op[p].role]) /\ NameTaken(p)
    <3>1. Unique(p, "name") /\ UNCHANGED <<roleName, faults>>
      BY <1>2, <2>4 DEF UpdateRole
    <3>2. UNCHANGED nrData
      BY <2>1, <3>1 DEF nrData
    <3> QED
      BY <2>1, <2>4, <3>1, <3>2, NrUnique
  <2>5. CASE IsRow(roleName[op[p].role]) /\ ~NameTaken(p)
    <3>1. Written(p, "done") /\ roleName' = [roleName EXCEPT ![op[p].role] = op[p].name]
      BY <1>2, <2>5 DEF UpdateRole
    <3>2. PICK name \in NrNames, x \in RoleRows : name = op[p].name /\ x = op[p].role
      BY <2>2 DEF NrOp
    <3>3. roleName' \in [RoleRows -> NrNames \cup NoRow] /\ roleName'[x] = name
          /\ \A y \in RoleRows \ {x} : roleName'[y] = roleName[y]
      BY <1>i, <3>1, <3>2 DEF NameTypeOK
    <3>4. \A y \in RoleRows \ {x} : roleName[y] # name
      BY <2>1, <2>5, <3>2 DEF NameTaken
    <3>5. NamesAreUnique'
      BY <1>i, <2>1, <3>3, <3>4 DEF NamesAreUnique, IsRow
    <3>6. RowsAreWhole'
      <4>1. IsRow(name)
        BY NameAssumption DEF IsRow, NoRow
      <4>2. HomeIsThere /\ HomeIsThere'
        BY <1>i, <2>1, <2>5, <3>2 DEF HomeIsThere, RowsAreWhole
      <4> QED
        BY <1>i, <2>1, <3>3, <4>1, <4>2 DEF RowsAreWhole, IsRow, NameTypeOK
    <3>7. faults' \in 0 .. MaxFaults => NrTablesTyped'
      BY <1>i, <2>1, <3>3 DEF NameTypeOK, NrTablesTyped
    <3> QED
      BY <2>1, <2>2, <3>1, <3>5, <3>6, <3>7, NrWrites
  <2> QED
    BY <2>3, <2>4, <2>5
<1>3. CASE RemoveRoleRow(p)
  <2>1. /\ op[p].pc = "write" /\ op[p].kind = "deleteRole"
        /\ UNCHANGED <<emails, slugs, member>>
    BY <1>3 DEF RemoveRoleRow, NrAt
  <2>2. op[p] \in NrOp /\ op[p].pc # "done" /\ ~op[p].broke
    BY <2>1, NrAboutTo
  <2>3. CASE ~IsRow(roleName[op[p].role])
    <3>1. Throws(p, Prisma("P2025", {})) /\ UNCHANGED <<roleName, held, linked, faults>>
      BY <1>3, <2>3 DEF RemoveRoleRow
    <3>2. RowMissing(p) /\ UNCHANGED nrData
      BY <2>1, <2>3, <3>1 DEF RowMissing, nrData
    <3> QED
      BY <2>1, <3>1, <3>2, NrDangling
  <2>4. CASE IsRow(roleName[op[p].role])
    <3>1. /\ Written(p, "done") /\ roleName' = [roleName EXCEPT ![op[p].role] = "gone"]
          /\ held' = held \ {op[p].role} /\ linked' = linked \ {op[p].role}
      BY <1>3, <2>4 DEF RemoveRoleRow
    <3>2. PICK x \in RoleRows : x = op[p].role
      BY <2>2 DEF NrOp
    <3>3. roleName' \in [RoleRows -> NrNames \cup NoRow] /\ roleName'[x] = "gone"
          /\ \A y \in RoleRows \ {x} : roleName'[y] = roleName[y]
      BY <1>i, <3>1, <3>2 DEF NameTypeOK, NoRow
    <3>4. ~IsRow("gone")
      BY DEF IsRow, NoRow
    <3>5. NamesAreUnique'
      BY <1>i, <2>1, <3>3, <3>4 DEF NamesAreUnique, IsRow
    <3>6. HomeIsThere' <=> HomeIsThere
      BY <2>1 DEF HomeIsThere
    <3>7. RowsAreWhole'
      BY <1>i, <2>1, <3>1, <3>2, <3>3, <3>4, <3>6 DEF RowsAreWhole, IsRow
    <3>8. faults' \in 0 .. MaxFaults => NrTablesTyped'
      BY <1>i, <2>1, <3>1, <3>3 DEF NameTypeOK, NrTablesTyped
    <3> QED
      BY <2>1, <2>2, <3>1, <3>5, <3>7, <3>8, NrWrites
  <2> QED
    BY <2>3, <2>4
<1> QED
  BY <1>1, <1>2, <1>3

\* The rows that refer to a role or to the member.
LEMMA LinkKeeps ==
  ASSUME NrInv, NEW p \in NrRequests, Observe,
         InsertMemberRole(p) \/ InsertPermission(p) \/ DeleteMember(p)
  PROVE  NrInv'
<1>i. NameTypeOK /\ NamesAreUnique /\ RowsAreWhole
  BY DEF NrInv
<1>1. CASE InsertMemberRole(p)
  <2>1. /\ op[p].pc = "write" /\ op[p].kind = "assignRole"
        /\ UNCHANGED <<emails, slugs, roleName, member, linked>>
    BY <1>1 DEF InsertMemberRole, NrAt
  <2>2. op[p] \in NrOp /\ op[p].pc # "done" /\ ~op[p].broke
    BY <2>1, NrAboutTo
  <2>3. CASE ~member \/ ~IsRow(roleName[op[p].role])
    <3>1. Throws(p, Prisma("P2003", {})) /\ UNCHANGED <<held, faults>>
      BY <1>1, <2>3 DEF InsertMemberRole
    <3>2. RowMissing(p) /\ UNCHANGED nrData
      BY <2>1, <2>3, <3>1 DEF RowMissing, nrData
    <3> QED
      BY <2>1, <3>1, <3>2, NrDangling
  <2>4. CASE member /\ IsRow(roleName[op[p].role]) /\ op[p].role \in held
    <3>1. Unique(p, "memberId") /\ UNCHANGED <<held, faults>>
      BY <1>1, <2>4 DEF InsertMemberRole
    <3>2. NameTaken(p) /\ UNCHANGED nrData
      BY <2>1, <2>4, <3>1 DEF NameTaken, nrData
    <3> QED
      BY <2>1, <3>1, <3>2, NrUnique
  <2>5. CASE member /\ IsRow(roleName[op[p].role]) /\ op[p].role \notin held
    <3>1. Written(p, "done") /\ held' = held \cup {op[p].role}
      BY <1>1, <2>5 DEF InsertMemberRole
    <3>2. NamesAreUnique' /\ RowsAreWhole'
      BY <1>i, <2>1, <2>5, <3>1 DEF NamesAreUnique, RowsAreWhole, HomeIsThere, IsRow
    <3>3. faults' \in 0 .. MaxFaults => NrTablesTyped'
      BY <1>i, <2>1, <2>2, <3>1 DEF NameTypeOK, NrTablesTyped, NrOp
    <3> QED
      BY <2>1, <2>2, <3>1, <3>2, <3>3, NrWrites
  <2> QED
    BY <2>3, <2>4, <2>5
<1>2. CASE InsertPermission(p)
  <2>1. /\ op[p].pc = "write" /\ op[p].kind = "assignPermission"
        /\ UNCHANGED <<emails, slugs, roleName, member, held>>
    BY <1>2 DEF InsertPermission, NrAt
  <2>2. op[p] \in NrOp /\ op[p].pc # "done" /\ ~op[p].broke
    BY <2>1, NrAboutTo
  <2>3. CASE ~IsRow(roleName[op[p].role])
    <3>1. Throws(p, Prisma("P2003", {})) /\ UNCHANGED <<linked, faults>>
      BY <1>2, <2>3 DEF InsertPermission
    <3>2. RowMissing(p) /\ UNCHANGED nrData
      BY <2>1, <2>3, <3>1 DEF RowMissing, nrData
    <3> QED
      BY <2>1, <3>1, <3>2, NrDangling
  <2>4. CASE IsRow(roleName[op[p].role])
    <3>1. Written(p, "done") /\ linked' = linked \cup {op[p].role}
      BY <1>2, <2>4 DEF InsertPermission
    <3>2. NamesAreUnique' /\ RowsAreWhole'
      BY <1>i, <2>1, <2>4, <3>1 DEF NamesAreUnique, RowsAreWhole, HomeIsThere, IsRow
    <3>3. faults' \in 0 .. MaxFaults => NrTablesTyped'
      BY <1>i, <2>1, <2>2, <3>1 DEF NameTypeOK, NrTablesTyped, NrOp
    <3> QED
      BY <2>1, <2>2, <3>1, <3>2, <3>3, NrWrites
  <2> QED
    BY <2>3, <2>4
<1>3. CASE DeleteMember(p)
  <2>1. /\ op[p].pc = "look" /\ op[p].kind = "removeMember"
        /\ UNCHANGED <<emails, slugs, roleName, linked>>
    BY <1>3 DEF DeleteMember, NrAt
  <2>2. op[p] \in NrOp /\ op[p].pc # "done" /\ ~op[p].broke
    BY <2>1, NrAboutTo
  <2>3. CASE ~member
    <3>1. Throws(p, NotFoundException) /\ UNCHANGED <<member, held, faults>>
      BY <1>3, <2>3 DEF DeleteMember
    <3>2. RowMissing(p) /\ UNCHANGED nrData
      BY <2>1, <2>3, <3>1 DEF RowMissing, nrData
    <3>3. Filtered(NotFoundException) \in NrAnswer /\ Filtered(NotFoundException).status \in Missed
      <4>1. "RESOURCE_NOT_FOUND" \in Codes
        BY DEF Codes
      <4> QED
        BY <4>1, AppAnswers DEF NotFoundException
    <3> QED
      BY <2>1, <3>1, <3>2, <3>3, NrNotThere
  <2>4. CASE member
    <3>1. Written(p, "done") /\ member' = FALSE /\ held' = {}
      BY <1>3, <2>4 DEF DeleteMember
    <3>2. NamesAreUnique' /\ RowsAreWhole'
      BY <1>i, <2>1, <3>1 DEF NamesAreUnique, RowsAreWhole, HomeIsThere, IsRow
    <3>3. faults' \in 0 .. MaxFaults => NrTablesTyped'
      BY <1>i, <2>1, <3>1 DEF NameTypeOK, NrTablesTyped
    <3> QED
      BY <2>1, <2>2, <3>1, <3>2, <3>3, NrWrites
  <2> QED
    BY <2>3, <2>4
<1> QED
  BY <1>1, <1>2, <1>3

-----------------------------------------------------------------------------

LEMMA NrInitInv == NameInit => NrInv
<1> SUFFICES ASSUME NameInit PROVE NrInv
  OBVIOUS
<1>1. FirstOf(NrNames) \in NrNames /\ FirstOf(RoleRows) \in RoleRows
  BY NameAssumption DEF FirstOf
<1>2. PICK n \in NrNames, x \in RoleRows : n = FirstOf(NrNames) /\ x = FirstOf(RoleRows)
  BY <1>1
<1>3. op \in [NrRequests -> NrOp]
      /\ \A p \in NrRequests : op[p].pc = "new" /\ op[p].wrote = FALSE /\ op[p].broke = FALSE
  <2>1. NotYet \in NrAnswer
    BY DEF NotYet, NrAnswer, Codes
  <2> QED
    BY <1>2, <2>1, NameAssumption DEF NameInit, NrOp, Kinds
<1>4. NameTypeOK
  <2>1. emails \subseteq NrNames /\ member \in BOOLEAN /\ held \subseteq RoleRows /\ linked \subseteq RoleRows
    BY DEF NameInit
  <2>2. slugs \in [OrgRows -> Slug] /\ roleName \in [RoleRows -> NrNames \cup NoRow]
    BY <1>2 DEF NameInit, Slug, NoRow
  <2>3. since \in [NrRequests -> [taken : BOOLEAN, missing : BOOLEAN]]
    BY DEF NameInit
  <2>4. faults \in 0 .. MaxFaults
    BY NameAssumption DEF NameInit
  <2> QED
    BY <1>3, <2>1, <2>2, <2>3, <2>4 DEF NameTypeOK
<1>5. IsRow(n) /\ ~IsRow("unused")
  BY NameAssumption DEF IsRow, NoRow
<1>6. NamesAreUnique
  BY <1>2, <1>5, NameAssumption DEF NameInit, NamesAreUnique
<1>7. RowsAreWhole
  BY <1>2, <1>5, NameAssumption DEF NameInit, RowsAreWhole, HomeIsThere
<1>8. \A p \in NrRequests : RequestFits(op[p]) /\ AnswerFits(op[p], since[p].taken, since[p].missing)
  BY <1>3 DEF RequestFits, AnswerFits
<1> QED
  BY <1>4, <1>6, <1>7, <1>8 DEF NrInv

\* Every state of the racing requests: the constraints of the tables, and what each request holds
\* and is told.
THEOREM NrInvariant == NameSpec => []NrInv
<1>1. NrInv /\ [NameNext]_nrVars => NrInv'
  <2> SUFFICES ASSUME NrInv, [NameNext]_nrVars PROVE NrInv'
    OBVIOUS
  <2>1. CASE UNCHANGED nrVars
    <3>1. UNCHANGED <<emails, slugs, roleName, member, held, linked, op, since, faults>>
      BY <2>1 DEF nrVars
    <3>2. NameTypeOK' /\ NamesAreUnique' /\ RowsAreWhole'
      BY <3>1 DEF NrInv, NameTypeOK, NamesAreUnique, RowsAreWhole, HomeIsThere, IsRow
    <3>3. \A p \in NrRequests :
            (RequestFits(op[p]) /\ AnswerFits(op[p], since[p].taken, since[p].missing))'
      BY <3>1, Zenon DEF NrInv
    <3> QED
      BY <3>2, <3>3 DEF NrInv
  <2>2. CASE NameNext
    <3>1. PICK p \in NrRequests : NameStep(p)
      BY <2>2 DEF NameNext
    <3>2. Observe
      BY <2>2 DEF NameNext
    <3> QED
      BY <3>1, <3>2, ArrivalKeeps, BreakKeeps, LookKeeps, UserKeeps, OrgKeeps, RoleKeeps, LinkKeeps
         DEF NameStep
  <2> QED
    BY <2>1, <2>2
<1> QED
  BY <1>1, NrInitInv, PTL DEF NameSpec

\* RacesAreAnswered: whatever passes between a look and its write, names stay unique and rows
\* whole, and the client is told what happened.
THEOREM RacesHold == NameSpec => []RacesAreAnswered
<1>1. NrInv => RacesAreAnswered
  BY DEF NrInv, RacesAreAnswered, AnswerIsHonest, AnswerFits, NrAt, Missed
<1> QED
  BY <1>1, NrInvariant, PTL

-----------------------------------------------------------------------------
(* OAuthLogin.                                                             *)

\* A request works for a flow from its callback to its redirect, and before it has opened
\* anything up to its session or its link.
Serves(r) == r.pc \notin {"idle", "ticket"}
BeforeOpen == {"exchangeCode", "findAccount", "findEmail", "attach", "linkEmail", "create", "session"}

\* What a request of a flow knows: the flow is spent and of its browser, and what it holds of the
\* rows is what they hold.
OaKnows(r) ==
  /\ Serves(r) =>
       /\ r.flow \in Flows /\ r.browser \in Browsers
       /\ flow[r.flow].state = "gone" /\ flow[r.flow].browser = r.browser
  /\ r.pc \in BeforeOpen => r.session = 0 /\ \A b \in Browsers : opened[r.flow][b] = 0
  /\ r.pc \in BeforeOpen \ {"exchangeCode"} => r.identity \in Identities
  /\ r.pc = "linkEmail" => r.user # 0
  /\ r.pc = "session" => r.user # 0 /\ accountOf[r.identity] = r.user
  /\ r.pc = "redirect" /\ r.session # 0 => sess[r.session].state # "none" /\ ticket[r.session] = "none"
  /\ r.pc = "ticket" => r.browser \in Browsers

\* No two requests work for one flow, or answer with one session.
Apart(r, s) ==
  /\ Serves(r) /\ Serves(s) => r.flow # s.flow
  /\ r.pc = "redirect" /\ s.pc = "redirect" /\ r.session # 0 => r.session # s.session

\* Only a spent flow has opened anything, once, in its browser; and only that browser has its nonce.
FlowsFit ==
  /\ \A f \in Flows, b \in Browsers :
       /\ opened[f][b] \in {0, 1}
       /\ opened[f][b] = 1 => flow[f].state = "gone" /\ flow[f].browser = b
  /\ \A b \in Browsers, c \in Cookies : LET f == jar[b][c] IN
       f # NoFlow => flow[f].state # "none" /\ flow[f].browser = b

\* A ticket is of a session, and only a spent one has been exchanged, once.
TicketsFit ==
  \A s \in OaSessions :
    /\ sess[s].state = "none" => ticket[s] = "none"
    /\ \A b \in Browsers : tokens[s][b] \in {0, 1} /\ (tokens[s][b] = 1 => ticket[s] = "gone")
    /\ \A b, c \in Browsers : tokens[s][b] = 1 /\ tokens[s][c] = 1 => b = c

\* A session is of the user its identity is linked to.
SessionsFit ==
  \A s \in OaSessions : sess[s].state # "none" =>
    /\ sess[s].identity \in Identities /\ sess[s].user # 0
    /\ accountOf[sess[s].identity] = sess[s].user

\* The inductive invariant.
OaInv ==
  /\ OaTypeOK /\ FlowsFit /\ TicketsFit /\ SessionsFit
  /\ \A p \in OaRequests : OaKnows(oaReq[p])
  /\ \A p, q \in OaRequests : p # q => Apart(oaReq[p], oaReq[q])

OaTyped ==
  /\ flow \in [Flows -> FlowRecord]
  /\ jar \in [Browsers -> [Cookies -> Flows \cup {NoFlow}]]
  /\ refresh \in [Browsers -> OaSessions \cup {0}]
  /\ accountOf \in [Identities -> OaUsers \cup {0}]
  /\ emailOf \in [OaUsers -> OaEmails \cup {""}]
  /\ sess \in [OaSessions -> [state : {"none", "live", "revoked"}, user : OaUsers \cup {0},
                              identity : Identities \cup {NoFlow}]]
  /\ ticket \in [OaSessions -> {"none", "issued", "gone"}]
  /\ opened \in [Flows -> [Browsers -> Nat]]
  /\ tokens \in [OaSessions -> [Browsers -> Nat]]

oaWorld == <<flow, jar, refresh, accountOf, emailOf, sess, ticket, opened, tokens>>

\* What no step takes back: a spent flow, a linked identity, an opened session.
OaStays ==
  /\ \A f \in Flows : flow[f].state = "gone" => flow'[f] = flow[f]
  /\ \A i \in Identities : accountOf[i] # 0 => accountOf'[i] = accountOf[i]
  /\ \A s \in OaSessions : sess[s].state # "none" => sess'[s].state # "none"

\* What another request counts on: nothing is opened for its flow, nor a ticket of its session issued.
OaLeaves(r) ==
  /\ Serves(r) => \A b \in Browsers : opened'[r.flow][b] = opened[r.flow][b]
  /\ r.pc = "redirect" /\ r.session # 0 => ticket'[r.session] = ticket[r.session]

LEMMA OthersKeepKnowing ==
  ASSUME NEW r \in OaRecord, OaKnows(r), OaStays, OaLeaves(r)
  PROVE  OaKnows(r)'
<1>1. /\ r.pc \in BeforeOpen => Serves(r)
      /\ r.pc = "session" => r.pc \in BeforeOpen \ {"exchangeCode"}
  BY DEF BeforeOpen, Serves
<1>2. Serves(r) => flow'[r.flow] = flow[r.flow]
  BY DEF OaKnows, OaStays
<1>3. r.pc \in BeforeOpen => \A b \in Browsers : opened'[r.flow][b] = 0
  BY <1>1 DEF OaKnows, OaLeaves
<1>4. r.pc = "session" => accountOf'[r.identity] = r.user
  BY <1>1 DEF OaKnows, OaStays
<1>5. r.pc = "redirect" /\ r.session # 0 => sess'[r.session].state # "none" /\ ticket'[r.session] = "none"
  BY DEF OaKnows, OaStays, OaLeaves, OaRecord
<1> QED
  BY <1>1, <1>2, <1>3, <1>4, <1>5 DEF OaKnows

\* A step of one request: what it knows then, and that the others may go on knowing theirs.
LEMMA OaMoves ==
  ASSUME OaInv, NEW p \in OaRequests, NEW r \in OaRecord, oaReq' = [oaReq EXCEPT ![p] = r],
         OaTyped', FlowsFit', TicketsFit', SessionsFit', OaStays,
         \A q \in OaRequests \ {p} : OaLeaves(oaReq[q]) /\ Apart(r, oaReq[q]),
         OaKnows(r)'
  PROVE  OaInv'
<1>1. oaReq' \in [OaRequests -> OaRecord] /\ oaReq'[p] = r /\ \A q \in OaRequests \ {p} : oaReq'[q] = oaReq[q]
  BY DEF OaInv, OaTypeOK
<1>2. OaTypeOK'
  BY <1>1 DEF OaTypeOK, OaTyped
<1>3. ASSUME NEW q \in OaRequests PROVE OaKnows(oaReq[q])'
  <2>1. CASE q = p
    BY <1>1, <2>1
  <2>2. CASE q # p
    <3>1. PICK s \in OaRecord : s = oaReq[q] /\ s = oaReq'[q]
      BY <1>1, <2>2 DEF OaInv, OaTypeOK
    <3>2. OaKnows(s) /\ OaLeaves(s)
      BY <2>2, <3>1 DEF OaInv
    <3>3. OaKnows(s)'
      BY <3>2, OthersKeepKnowing
    <3> QED
      BY <3>1, <3>3
  <2> QED
    BY <2>1, <2>2
<1>4. ASSUME NEW q \in OaRequests, NEW u \in OaRequests, q # u
      PROVE  Apart(oaReq[q], oaReq[u])'
  <2>1. CASE q = p
    <3>1. Apart(r, oaReq[u]) /\ oaReq'[q] = r /\ oaReq'[u] = oaReq[u]
      BY <1>1, <1>4, <2>1
    <3> QED
      BY <3>1 DEF Apart, Serves
  <2>2. CASE u = p
    <3>1. Apart(r, oaReq[q]) /\ oaReq'[u] = r /\ oaReq'[q] = oaReq[q]
      BY <1>1, <1>4, <2>2
    <3> QED
      BY <3>1 DEF Apart, Serves
  <2>3. CASE q # p /\ u # p
    <3>1. Apart(oaReq[q], oaReq[u]) /\ oaReq'[u] = oaReq[u] /\ oaReq'[q] = oaReq[q]
      BY <1>1, <1>4, <2>3 DEF OaInv
    <3> QED
      BY <3>1 DEF Apart, Serves
  <2> QED
    BY <2>1, <2>2, <2>3
<1> QED
  BY <1>2, <1>3, <1>4 DEF OaInv

LEMMA OaWorldRests ==
  ASSUME OaInv, UNCHANGED oaWorld
  PROVE  /\ OaTyped' /\ FlowsFit' /\ TicketsFit' /\ SessionsFit' /\ OaStays
         /\ \A p \in OaRequests : OaLeaves(oaReq[p])
<1>1. UNCHANGED <<flow, jar, refresh, accountOf, emailOf, sess, ticket, opened, tokens>>
  BY DEF oaWorld
<1>2. OaTyped' /\ OaStays /\ \A p \in OaRequests : OaLeaves(oaReq[p])
  BY <1>1 DEF OaInv, OaTypeOK, OaTyped, OaStays, OaLeaves
<1>3. FlowsFit'
  BY <1>1 DEF OaInv, FlowsFit
<1>4. TicketsFit' /\ SessionsFit'
  BY <1>1 DEF OaInv, TicketsFit, SessionsFit
<1> QED
  BY <1>2, <1>3, <1>4

\* A request that only reads: it ends, or goes on with the flow it has.
LEMMA OaGoesOn ==
  ASSUME OaInv, NEW p \in OaRequests, NEW r \in OaRecord, oaReq' = [oaReq EXCEPT ![p] = r],
         UNCHANGED oaWorld, OaKnows(r), r.pc # "redirect",
         Serves(r) => Serves(oaReq[p]) /\ r.flow = oaReq[p].flow
  PROVE  OaInv'
<1>1. ASSUME NEW q \in OaRequests \ {p} PROVE Apart(r, oaReq[q])
  <2>1. Apart(oaReq[p], oaReq[q])
    BY DEF OaInv
  <2> QED
    BY <2>1 DEF Apart, Serves
<1>2. OaLeaves(r)
  BY DEF OaLeaves, oaWorld
<1>3. OaKnows(r)'
  BY <1>2, OaWorldRests, OthersKeepKnowing
<1> QED
  BY <1>1, <1>3, OaWorldRests, OaMoves

\* What a request that has ended knows.
LEMMA OaIdleKnows == OaIdle \in OaRecord /\ ~Serves(OaIdle) /\ OaIdle.pc = "idle" /\ OaKnows(OaIdle)
<1>1. OaIdle \in OaRecord /\ OaIdle.pc = "idle"
  BY DEF OaIdle, OaRecord
<1> QED
  BY <1>1 DEF OaKnows, Serves, BeforeOpen

LEMMA OaEnds ==
  ASSUME OaInv, NEW p \in OaRequests, OaEnd(p), UNCHANGED oaWorld
  PROVE  OaInv'
<1>1. PICK r \in OaRecord : r = OaIdle
  BY OaIdleKnows
<1>2. oaReq' = [oaReq EXCEPT ![p] = r]
  BY <1>1 DEF OaEnd, OaGo
<1>3. OaKnows(r) /\ ~Serves(r) /\ r.pc # "redirect"
  BY <1>1, OaIdleKnows
<1> QED
  BY <1>2, <1>3, OaGoesOn

LEMMA OaWorldOf ==
  ASSUME UNCHANGED <<flow, oaCookies, oaRows, sess, ticket, oaCounts>>
  PROVE  UNCHANGED oaWorld
BY DEF oaWorld, oaCookies, oaRows, oaCounts

-----------------------------------------------------------------------------

\* The provider's answer.
LEMMA ExchangeKeeps ==
  ASSUME OaInv, NEW p \in OaRequests, ExchangeCode(p)
  PROVE  OaInv'
<1>1. oaReq[p].pc = "exchangeCode" /\ UNCHANGED oaWorld
  BY OaWorldOf DEF ExchangeCode, OaAt
<1>t. oaReq[p] \in OaRecord
  BY DEF OaInv, OaTypeOK
<1>2. CASE OaEnd(p)
  BY <1>1, <1>2, OaEnds
<1>3. CASE ~OaEnd(p)
  <2>1. PICK i \in Identities, e \in ProfileEmails(flow[oaReq[p].flow].provider) :
          OaGo(p, [oaReq[p] EXCEPT !.pc = "findAccount", !.identity = i, !.email = e])
    BY <1>3 DEF ExchangeCode
  <2>2. e \in OaEmails \cup {""}
    BY DEF ProfileEmails
  <2>3. PICK r \in OaRecord : /\ oaReq' = [oaReq EXCEPT ![p] = r]
                              /\ r.pc = "findAccount" /\ r.identity = i
                              /\ r.flow = oaReq[p].flow /\ r.browser = oaReq[p].browser
                              /\ r.session = oaReq[p].session
    <3> DEFINE n == [oaReq[p] EXCEPT !.pc = "findAccount", !.identity = i, !.email = e]
    <3>1. /\ n \in OaRecord /\ n.pc = "findAccount" /\ n.identity = i
          /\ n.flow = oaReq[p].flow /\ n.browser = oaReq[p].browser /\ n.session = oaReq[p].session
      BY <1>t, <2>2 DEF OaRecord
    <3>2. oaReq' = [oaReq EXCEPT ![p] = n]
      BY <2>1 DEF OaGo
    <3> HIDE DEF n
    <3> QED
      BY <3>1, <3>2
  <2>4. OaKnows(oaReq[p])
    BY DEF OaInv
  <2>5. OaKnows(r)
    BY <1>1, <2>3, <2>4 DEF OaKnows, Serves, BeforeOpen
  <2> QED
    BY <1>1, <2>3, <2>5, OaGoesOn DEF Serves
<1> QED
  BY <1>2, <1>3

\* The account of the identity.
LEMMA FindKeeps ==
  ASSUME OaInv, NEW p \in OaRequests, FindAccount(p)
  PROVE  OaInv'
<1>1. oaReq[p].pc = "findAccount" /\ UNCHANGED oaWorld
  BY OaWorldOf DEF FindAccount, OaAt
<1>t. oaReq[p] \in OaRecord /\ OaKnows(oaReq[p])
  BY DEF OaInv, OaTypeOK
<1>k. /\ oaReq[p].flow \in Flows /\ oaReq[p].identity \in Identities /\ oaReq[p].session = 0
      /\ accountOf[oaReq[p].identity] \in OaUsers \cup {0}
      /\ flow[oaReq[p].flow].user \in OaUsers \cup {0}
  BY <1>1, <1>t DEF OaKnows, Serves, BeforeOpen, OaInv, OaTypeOK, FlowRecord
<1>2. CASE OaEnd(p)
  BY <1>1, <1>2, OaEnds
<1>3. CASE ~OaEnd(p)
  <2>1. PICK u \in OaUsers \cup {0}, pc \in {"attach", "session", "findEmail"} :
          /\ OaGo(p, [oaReq[p] EXCEPT !.pc = pc, !.user = u])
          /\ (pc = "session" => u # 0 /\ accountOf[oaReq[p].identity] = u)
    <3>1. CASE flow[oaReq[p].flow].mode = "link"
      <4>1. OaGo(p, [oaReq[p] EXCEPT !.pc = "attach", !.user = flow[oaReq[p].flow].user])
        BY <1>3, <3>1 DEF FindAccount
      <4> QED
        BY <1>k, <4>1
    <3>2. CASE flow[oaReq[p].flow].mode # "link" /\ accountOf[oaReq[p].identity] # 0
      <4>1. OaGo(p, [oaReq[p] EXCEPT !.pc = "session", !.user = accountOf[oaReq[p].identity]])
        BY <1>3, <3>2 DEF FindAccount
      <4> QED
        BY <1>k, <3>2, <4>1
    <3>3. CASE flow[oaReq[p].flow].mode # "link" /\ accountOf[oaReq[p].identity] = 0
      <4>1. OaGo(p, [oaReq[p] EXCEPT !.pc = "findEmail", !.user = accountOf[oaReq[p].identity]])
        BY <1>3, <3>3 DEF FindAccount
      <4> QED
        BY <1>k, <4>1
    <3> QED
      BY <3>1, <3>2, <3>3
  <2>3. PICK r \in OaRecord : /\ oaReq' = [oaReq EXCEPT ![p] = r]
                              /\ r.pc = pc /\ r.user = u /\ r.identity = oaReq[p].identity
                              /\ r.flow = oaReq[p].flow /\ r.browser = oaReq[p].browser
                              /\ r.session = oaReq[p].session
    <3> DEFINE n == [oaReq[p] EXCEPT !.pc = pc, !.user = u]
    <3>1. /\ n \in OaRecord /\ n.pc = pc /\ n.user = u /\ n.identity = oaReq[p].identity
          /\ n.flow = oaReq[p].flow /\ n.browser = oaReq[p].browser /\ n.session = oaReq[p].session
      BY <1>t DEF OaRecord
    <3>2. oaReq' = [oaReq EXCEPT ![p] = n]
      BY <2>1 DEF OaGo
    <3> HIDE DEF n
    <3> QED
      BY <3>1, <3>2
  <2>5. OaKnows(r)
    BY <1>1, <1>t, <2>1, <2>3 DEF OaKnows, Serves, BeforeOpen
  <2> QED
    BY <1>1, <2>1, <2>3, <2>5, OaGoesOn DEF Serves
<1> QED
  BY <1>2, <1>3

\* The user of the address.
LEMMA FindByEmailKeeps ==
  ASSUME OaInv, NEW p \in OaRequests, FindByEmail(p)
  PROVE  OaInv'
<1>1. oaReq[p].pc = "findEmail" /\ UNCHANGED oaWorld
  BY OaWorldOf DEF FindByEmail, OaAt
<1>t. oaReq[p] \in OaRecord /\ OaKnows(oaReq[p])
  BY DEF OaInv, OaTypeOK
<1>2. PICK u \in OaUsers \cup {0}, pc \in {"linkEmail", "create"} :
        /\ OaGo(p, [oaReq[p] EXCEPT !.pc = pc, !.user = u])
        /\ (pc = "linkEmail" => u # 0)
  <2>1. CASE \E u \in OaUsers : emailOf[u] = oaReq[p].email
    <3>1. PICK u \in OaUsers : u = CHOOSE w \in OaUsers : emailOf[w] = oaReq[p].email
      BY <2>1
    <3>2. OaGo(p, [oaReq[p] EXCEPT !.pc = "linkEmail", !.user = u])
      BY <2>1, <3>1 DEF FindByEmail
    <3>3. u # 0
      BY DEF OaUsers
    <3> QED
      BY <3>2, <3>3
  <2>2. CASE ~ \E u \in OaUsers : emailOf[u] = oaReq[p].email
    <3>1. OaGo(p, [oaReq[p] EXCEPT !.pc = "create"])
      BY <2>2 DEF FindByEmail
    <3>2. PICK u \in OaUsers \cup {0} : u = oaReq[p].user
      BY <1>t DEF OaRecord
    <3>3. [oaReq[p] EXCEPT !.pc = "create"] = [oaReq[p] EXCEPT !.pc = "create", !.user = u]
      BY <1>t, <3>2 DEF OaRecord
    <3> QED
      BY <3>1, <3>3
  <2> QED
    BY <2>1, <2>2
<1>3. PICK r \in OaRecord : /\ oaReq' = [oaReq EXCEPT ![p] = r]
                            /\ r.pc = pc /\ r.user = u /\ r.identity = oaReq[p].identity
                            /\ r.flow = oaReq[p].flow /\ r.browser = oaReq[p].browser
                            /\ r.session = oaReq[p].session
  <2> DEFINE n == [oaReq[p] EXCEPT !.pc = pc, !.user = u]
  <2>1. /\ n \in OaRecord /\ n.pc = pc /\ n.user = u /\ n.identity = oaReq[p].identity
        /\ n.flow = oaReq[p].flow /\ n.browser = oaReq[p].browser /\ n.session = oaReq[p].session
    BY <1>t DEF OaRecord
  <2>2. oaReq' = [oaReq EXCEPT ![p] = n]
    BY <1>2 DEF OaGo
  <2> HIDE DEF n
  <2> QED
    BY <2>1, <2>2
<1>4. OaKnows(r)
  BY <1>1, <1>t, <1>2, <1>3 DEF OaKnows, Serves, BeforeOpen
<1> QED
  BY <1>1, <1>2, <1>3, <1>4, OaGoesOn DEF Serves

\* The exchange begins with the refresh cookie.
LEMMA ValidateKeeps ==
  ASSUME OaInv, NEW p \in OaRequests, NEW b \in Browsers, ValidateRefresh(p, b)
  PROVE  OaInv'
<1>1. UNCHANGED oaWorld /\ OaGo(p, [OaIdle EXCEPT !.pc = "ticket", !.browser = b, !.session = refresh[b]])
  BY OaWorldOf DEF ValidateRefresh
<1>2. refresh[b] \in OaSessions \cup {0}
  BY DEF OaInv, OaTypeOK
<1>3. PICK r \in OaRecord : /\ oaReq' = [oaReq EXCEPT ![p] = r]
                            /\ r.pc = "ticket" /\ r.browser = b
  <2> DEFINE n == [OaIdle EXCEPT !.pc = "ticket", !.browser = b, !.session = refresh[b]]
  <2>1. n \in OaRecord /\ n.pc = "ticket" /\ n.browser = b
    BY <1>2, OaIdleKnows DEF OaRecord
  <2>2. oaReq' = [oaReq EXCEPT ![p] = n]
    BY <1>1 DEF OaGo
  <2>3. PICK m \in OaRecord : m = n
    BY <2>1
  <2> HIDE DEF n
  <2> QED
    BY <2>1, <2>2, <2>3
<1>4. OaKnows(r) /\ ~Serves(r)
  BY <1>3 DEF OaKnows, Serves, BeforeOpen
<1> QED
  BY <1>1, <1>3, <1>4, OaGoesOn

-----------------------------------------------------------------------------

\* A step that moves no request.
LEMMA OaWorldMoves ==
  ASSUME OaInv, UNCHANGED oaReq, OaTyped', FlowsFit', TicketsFit', SessionsFit', OaStays,
         \A q \in OaRequests : OaLeaves(oaReq[q])
  PROVE  OaInv'
<1>1. OaTypeOK'
  BY DEF OaInv, OaTypeOK, OaTyped
<1>2. ASSUME NEW q \in OaRequests PROVE OaKnows(oaReq[q])'
  <2>1. PICK s \in OaRecord : s = oaReq[q] /\ s = oaReq'[q]
    BY DEF OaInv, OaTypeOK
  <2>2. OaKnows(s) /\ OaLeaves(s)
    BY <2>1 DEF OaInv
  <2>3. OaKnows(s)'
    BY <2>2, OthersKeepKnowing
  <2> QED
    BY <2>1, <2>3
<1>3. \A q, u \in OaRequests : q # u => Apart(oaReq[q], oaReq[u])'
  BY DEF OaInv, Apart, Serves
<1> QED
  BY <1>1, <1>2, <1>3 DEF OaInv

LEMMA JarTyped ==
  ASSUME OaInv
  PROVE  \A d \in Browsers : \A e \in Cookies : jar[d][e] \in Flows \cup {NoFlow}
<1>1. jar \in [Browsers -> [Cookies -> Flows \cup {NoFlow}]]
  BY DEF OaInv, OaTypeOK
<1> QED
  BY <1>1

\* The browser leaves with a fresh flow.
LEMMA StoreKeeps ==
  ASSUME OaInv, NEW b \in Browsers, NEW provider \in Providers, NEW mode \in {"login", "link"},
         NEW u \in OaUsers \cup {0}, StoreState(b, provider, mode, u),
         UNCHANGED <<refresh, oaRows, sess, ticket, oaCounts, oaReq>>
  PROVE  OaInv'
<1>1. PICK f \in Flows :
        /\ flow[f].state = "none"
        /\ flow' = [flow EXCEPT ![f] = [state |-> "stored", provider |-> provider, mode |-> mode,
                                        browser |-> b, user |-> u]]
        /\ jar' = [jar EXCEPT ![b][CookieOf(provider)] = f]
  BY DEF StoreState
<1>t. OaTypeOK /\ FlowsFit /\ TicketsFit /\ SessionsFit
  BY DEF OaInv
<1>2. PICK c \in Cookies : c = CookieOf(provider)
  BY DEF CookieOf, Cookies
<1>3. /\ flow' \in [Flows -> FlowRecord]
      /\ flow'[f].state = "stored" /\ flow'[f].browser = b
      /\ \A g \in Flows \ {f} : flow'[g] = flow[g]
  <2>1. PICK n \in FlowRecord : /\ n = [state |-> "stored", provider |-> provider, mode |-> mode,
                                       browser |-> b, user |-> u]
                                /\ n.state = "stored" /\ n.browser = b
    <3> DEFINE m == [state |-> "stored", provider |-> provider, mode |-> mode,
                     browser |-> b, user |-> u]
    <3>1. m \in FlowRecord /\ m.state = "stored" /\ m.browser = b
      BY DEF FlowRecord
    <3> HIDE DEF m
    <3> QED
      BY <3>1 DEF m
  <2>2. flow' = [flow EXCEPT ![f] = n]
    BY <1>1, <2>1
  <2> QED
    BY <1>t, <2>1, <2>2 DEF OaTypeOK
<1>4. /\ jar' \in [Browsers -> [Cookies -> Flows \cup {NoFlow}]]
      /\ jar'[b][c] = f
      /\ \A d \in Browsers, e \in Cookies : d # b \/ e # c => jar'[d][e] = jar[d][e]
  BY <1>1, <1>2, <1>t DEF OaTypeOK
<1>5. UNCHANGED <<refresh, accountOf, emailOf, sess, ticket, opened, tokens>>
  BY DEF oaRows, oaCounts
<1>6. OaTyped'
  BY <1>t, <1>3, <1>4, <1>5 DEF OaTypeOK, OaTyped
<1>7. FlowsFit'
  <2>1. \A g \in Flows, d \in Browsers :
          /\ opened'[g][d] \in {0, 1}
          /\ opened'[g][d] = 1 => flow'[g].state = "gone" /\ flow'[g].browser = d
    BY <1>1, <1>t, <1>3, <1>5 DEF FlowsFit
  <2>2. ASSUME NEW d \in Browsers, NEW e \in Cookies, jar'[d][e] # NoFlow
        PROVE  flow'[jar'[d][e]].state # "none" /\ flow'[jar'[d][e]].browser = d
    <3>1. CASE d = b /\ e = c
      BY <1>3, <1>4, <3>1
    <3>2. CASE d # b \/ e # c
      <4>1. jar'[d][e] = jar[d][e] /\ jar[d][e] \in Flows
        <5>1. jar[d][e] \in Flows \cup {NoFlow}
          BY <2>2, JarTyped
        <5>2. jar'[d][e] = jar[d][e]
          BY <1>4, <3>2
        <5> QED
          BY <2>2, <5>1, <5>2
      <4>2. PICK g \in Flows : g = jar[d][e]
        BY <4>1
      <4>3. flow[g].state # "none" /\ flow[g].browser = d
        BY <1>t, <2>2, <4>1, <4>2 DEF FlowsFit
      <4>4. flow'[g] = flow[g]
        BY <1>1, <1>3, <4>3
      <4> QED
        BY <4>1, <4>2, <4>3, <4>4
    <3> QED
      BY <3>1, <3>2
  <2> QED
    BY <2>1, <2>2 DEF FlowsFit
<1>8. TicketsFit' /\ SessionsFit'
  BY <1>t, <1>5 DEF TicketsFit, SessionsFit
<1>9. OaStays /\ \A q \in OaRequests : OaLeaves(oaReq[q])
  BY <1>1, <1>3, <1>5 DEF OaStays, OaLeaves
<1> QED
  BY <1>6, <1>7, <1>8, <1>9, OaWorldMoves

\* A state is spent, by a callback or by time.
LEMMA SpentFits ==
  ASSUME OaInv, NEW f \in Flows, ConsumeState(f), UNCHANGED <<jar, refresh, oaRows, oaCounts>>
  PROVE  /\ FlowsFit' /\ flow' \in [Flows -> FlowRecord]
         /\ flow'[f].state = "gone" /\ flow'[f].browser = flow[f].browser
         /\ \A g \in Flows : flow[g].state = "gone" => flow'[g] = flow[g]
<1>t. OaTypeOK /\ FlowsFit
  BY DEF OaInv
<1>1. /\ flow' \in [Flows -> FlowRecord]
      /\ flow'[f].state = "gone" /\ flow'[f].browser = flow[f].browser
      /\ \A g \in Flows \ {f} : flow'[g] = flow[g]
  <2>1. PICK n \in FlowRecord : n = [flow[f] EXCEPT !.state = "gone"]
                                /\ n.state = "gone" /\ n.browser = flow[f].browser
    <3> DEFINE m == [flow[f] EXCEPT !.state = "gone"]
    <3>1. m \in FlowRecord /\ m.state = "gone" /\ m.browser = flow[f].browser
      <4>1. flow[f] \in FlowRecord
        BY <1>t DEF OaTypeOK
      <4> QED
        BY <4>1 DEF FlowRecord
    <3>2. PICK n \in FlowRecord : n = m
      BY <3>1
    <3> HIDE DEF m
    <3>3. n.state = "gone" /\ n.browser = flow[f].browser
      BY <3>1, <3>2
    <3> QED
      BY <3>2, <3>3 DEF m
  <2>2. flow' = [flow EXCEPT ![f] = n]
    BY <2>1 DEF ConsumeState
  <2> QED
    BY <1>t, <2>1, <2>2 DEF OaTypeOK
<1>2. \A g \in Flows : /\ flow'[g].browser = flow[g].browser
                       /\ flow'[g].state = flow[g].state \/ flow'[g].state = "gone"
                       /\ (flow[g].state = "gone" => flow'[g] = flow[g])
  BY <1>1 DEF ConsumeState
<1>3. UNCHANGED <<jar, opened>>
  BY DEF oaCounts
<1>4. FlowsFit'
  <2>1. ASSUME NEW d \in Browsers, NEW e \in Cookies, jar[d][e] # NoFlow
        PROVE  flow'[jar[d][e]].state # "none" /\ flow'[jar[d][e]].browser = d
    <3>1. PICK g \in Flows : g = jar[d][e]
      <4>1. jar[d][e] \in Flows \cup {NoFlow}
        BY <2>1, JarTyped
      <4> QED
        BY <2>1, <4>1
    <3>2. flow[g].state # "none" /\ flow[g].browser = d
      BY <1>t, <2>1, <3>1 DEF FlowsFit
    <3> QED
      BY <1>2, <3>1, <3>2
  <2>2. \A g \in Flows, d \in Browsers :
          /\ opened[g][d] \in {0, 1}
          /\ opened[g][d] = 1 => flow'[g].state = "gone" /\ flow'[g].browser = d
    BY <1>t, <1>2 DEF FlowsFit
  <2> QED
    BY <1>3, <2>1, <2>2 DEF FlowsFit
<1> QED
  BY <1>1, <1>2, <1>4

\* A callback spends its state, and is heard in the browser that has the nonce.
LEMMA CallbackKeeps ==
  ASSUME OaInv, NEW p \in OaRequests, NEW b \in Browsers, NEW f \in Flows, NEW provider \in Providers,
         Callback(p, b, f, provider)
  PROVE  OaInv'
<1>1. /\ ConsumeState(f) /\ UNCHANGED <<jar, refresh, oaRows, sess, ticket, oaCounts>>
      /\ oaReq[p].pc = "idle"
  BY DEF Callback, oaCookies, OaAt
<1>t. OaTypeOK /\ FlowsFit /\ TicketsFit /\ SessionsFit
  BY DEF OaInv
<1>2. UNCHANGED <<jar, refresh, accountOf, emailOf, sess, ticket, opened, tokens>>
  BY <1>1 DEF oaRows, oaCounts
<1>3. OaTyped' /\ FlowsFit' /\ TicketsFit' /\ SessionsFit'
  <2>1. FlowsFit' /\ flow' \in [Flows -> FlowRecord]
    BY <1>1, SpentFits
  <2>2. OaTyped'
    BY <1>t, <1>2, <2>1 DEF OaTypeOK, OaTyped
  <2>3. TicketsFit' /\ SessionsFit'
    BY <1>t, <1>2 DEF TicketsFit, SessionsFit
  <2> QED
    BY <2>1, <2>2, <2>3
<1>4. OaStays /\ \A q \in OaRequests : OaLeaves(oaReq[q])
  BY <1>1, <1>2, SpentFits DEF OaStays, OaLeaves
<1>5. CASE flow[f].provider = provider /\ jar[b][CookieOf(provider)] = f
  <2>1. OaGo(p, [OaIdle EXCEPT !.pc = "exchangeCode", !.browser = b, !.flow = f])
    BY <1>5 DEF Callback
  <2>2. PICK r \in OaRecord : /\ oaReq' = [oaReq EXCEPT ![p] = r]
                              /\ r.pc = "exchangeCode" /\ r.browser = b /\ r.flow = f /\ r.session = 0
    <3> DEFINE n == [OaIdle EXCEPT !.pc = "exchangeCode", !.browser = b, !.flow = f]
    <3>1. n \in OaRecord /\ n.pc = "exchangeCode" /\ n.browser = b /\ n.flow = f /\ n.session = 0
      BY DEF OaIdle, OaRecord
    <3>2. oaReq' = [oaReq EXCEPT ![p] = n]
      BY <2>1 DEF OaGo
    <3>3. PICK m \in OaRecord : m = n
      BY <3>1
    <3> HIDE DEF n
    <3> QED
      BY <3>1, <3>2, <3>3
  <2>3. flow[f].browser = b
    <3>1. CookieOf(provider) \in Cookies /\ f # NoFlow
      BY OaAssumption DEF CookieOf, Cookies
    <3> QED
      BY <1>5, <1>t, <3>1 DEF FlowsFit
  <2>4. flow'[f].state = "gone" /\ flow'[f].browser = b
    BY <1>1, <2>3, SpentFits
  <2>5. \A d \in Browsers : opened'[f][d] = 0
    BY <1>1, <1>2, <1>t DEF FlowsFit, ConsumeState
  <2>6. OaKnows(r)'
    BY <2>2, <2>4, <2>5 DEF OaKnows, BeforeOpen
  <2>7. ASSUME NEW q \in OaRequests \ {p} PROVE Apart(r, oaReq[q])
    <3>1. OaKnows(oaReq[q])
      BY DEF OaInv
    <3> QED
      BY <1>1, <2>2, <3>1 DEF Apart, OaKnows, ConsumeState
  <2> QED
    BY <1>3, <1>4, <2>2, <2>6, <2>7, OaMoves
<1>6. CASE ~(flow[f].provider = provider /\ jar[b][CookieOf(provider)] = f)
  <2>1. UNCHANGED oaReq
    BY <1>6 DEF Callback
  <2> QED
    BY <1>3, <1>4, <2>1, OaWorldMoves
<1> QED
  BY <1>5, <1>6

-----------------------------------------------------------------------------

\* A flow opens something once: it is spent, its request has opened nothing, and no other works
\* for it.
LEMMA OpenedOnce ==
  ASSUME OaInv, NEW p \in OaRequests, oaReq[p].pc \in BeforeOpen,
         opened' = Count(opened, oaReq[p].flow, oaReq[p].browser), UNCHANGED <<flow, jar>>
  PROVE  /\ FlowsFit' /\ opened' \in [Flows -> [Browsers -> Nat]]
         /\ \A q \in OaRequests \ {p} :
              Serves(oaReq[q]) => \A b \in Browsers : opened'[oaReq[q].flow][b] = opened[oaReq[q].flow][b]
<1>t. OaTypeOK /\ FlowsFit /\ Serves(oaReq[p]) /\ OaKnows(oaReq[p])
  BY DEF OaInv, BeforeOpen, Serves
<1>1. PICK f \in Flows, b \in Browsers : f = oaReq[p].flow /\ b = oaReq[p].browser
  BY <1>t DEF OaKnows
<1>2. opened[f][b] = 0 /\ flow[f].state = "gone" /\ flow[f].browser = b
  BY <1>t, <1>1 DEF OaKnows
<1>3. opened \in [Flows -> [Browsers -> Nat]]
  BY <1>t DEF OaTypeOK
<1>4. opened' = [opened EXCEPT ![f] = [opened[f] EXCEPT ![b] = 1]]
  <2>1. opened[f] \in [Browsers -> Nat]
    BY <1>3
  <2>2. opened' = [opened EXCEPT ![f] = [opened[f] EXCEPT ![b] = opened[f][b] + 1]]
    BY <1>1, Zenon DEF Count
  <2> QED
    BY <1>2, <2>2
<1>5. /\ opened' \in [Flows -> [Browsers -> Nat]] /\ opened'[f][b] = 1
      /\ \A g \in Flows, d \in Browsers : g # f \/ d # b => opened'[g][d] = opened[g][d]
  BY <1>3, <1>4
<1>6. FlowsFit'
  BY <1>t, <1>2, <1>5 DEF FlowsFit
<1>7. ASSUME NEW q \in OaRequests \ {p}, Serves(oaReq[q]), NEW d \in Browsers
      PROVE  opened'[oaReq[q].flow][d] = opened[oaReq[q].flow][d]
  <2>1. Apart(oaReq[p], oaReq[q]) /\ OaKnows(oaReq[q])
    BY DEF OaInv
  <2>2. oaReq[q].flow # f /\ oaReq[q].flow \in Flows
    BY <1>t, <1>1, <1>7, <2>1 DEF Apart, OaKnows
  <2> QED
    BY <1>5, <1>7, <2>2
<1> QED
  BY <1>5, <1>6, <1>7

\* An identity is linked once, so what is linked stays.
LEMMA LinkedOnce ==
  ASSUME OaInv, NEW i \in Identities, InsertAccount(i), NEW u \in OaUsers \cup {0},
         accountOf' = [accountOf EXCEPT ![i] = u], UNCHANGED sess
  PROVE  /\ SessionsFit' /\ accountOf' \in [Identities -> OaUsers \cup {0}] /\ accountOf'[i] = u
         /\ \A j \in Identities : accountOf[j] # 0 => accountOf'[j] = accountOf[j]
<1>1. accountOf \in [Identities -> OaUsers \cup {0}]
  BY DEF OaInv, OaTypeOK
<1>2. /\ accountOf' \in [Identities -> OaUsers \cup {0}] /\ accountOf'[i] = u
      /\ \A j \in Identities : accountOf[j] # 0 => accountOf'[j] = accountOf[j]
  BY <1>1 DEF InsertAccount
<1>3. SessionsFit'
  BY <1>2 DEF OaInv, SessionsFit
<1> QED
  BY <1>2, <1>3

LEMMA UserIsNotZero == \A u \in OaUsers : u # 0
BY DEF OaUsers

LEMMA SessionIsNotZero == \A s \in OaSessions : s # 0
BY DEF OaSessions

LEMMA TicketsRest ==
  ASSUME TicketsFit, UNCHANGED <<sess, ticket, tokens>>
  PROVE  TicketsFit'
BY DEF TicketsFit

\* A link, and the answer that goes with it.
LEMMA AttachKeeps ==
  ASSUME OaInv, NEW p \in OaRequests, AttachProvider(p)
  PROVE  OaInv'
<1>1. oaReq[p].pc = "attach" /\ UNCHANGED <<flow, jar, refresh, emailOf, sess, ticket, tokens>>
  BY DEF AttachProvider, OaAt, oaCookies
<1>t. OaTypeOK /\ TicketsFit /\ oaReq[p] \in OaRecord /\ OaKnows(oaReq[p])
  BY DEF OaInv, OaTypeOK
<1>k. /\ oaReq[p].pc \in BeforeOpen /\ Serves(oaReq[p]) /\ oaReq[p].session = 0
      /\ oaReq[p].identity \in Identities /\ oaReq[p].user \in OaUsers \cup {0}
  BY <1>1, <1>t DEF OaKnows, BeforeOpen, Serves, OaRecord
<1>2. CASE InsertAccount(oaReq[p].identity)
  <2>1. /\ accountOf' = [accountOf EXCEPT ![oaReq[p].identity] = oaReq[p].user]
        /\ opened' = Count(opened, oaReq[p].flow, oaReq[p].browser)
        /\ OaGo(p, [oaReq[p] EXCEPT !.pc = "redirect"])
    BY <1>2 DEF AttachProvider
  <2>2. PICK i \in Identities, u \in OaUsers \cup {0} : i = oaReq[p].identity /\ u = oaReq[p].user
    BY <1>k
  <2>3. /\ SessionsFit' /\ accountOf' \in [Identities -> OaUsers \cup {0}]
        /\ \A j \in Identities : accountOf[j] # 0 => accountOf'[j] = accountOf[j]
    BY <1>1, <1>2, <2>1, <2>2, LinkedOnce
  <2>4. /\ FlowsFit' /\ opened' \in [Flows -> [Browsers -> Nat]]
        /\ \A q \in OaRequests \ {p} :
             Serves(oaReq[q]) => \A b \in Browsers : opened'[oaReq[q].flow][b] = opened[oaReq[q].flow][b]
    BY <1>1, <1>k, <2>1, OpenedOnce
  <2>t. OaTyped'
    BY <1>1, <1>t, <2>3, <2>4 DEF OaTypeOK, OaTyped
  <2>5. TicketsFit'
    BY <1>1, <1>t DEF TicketsFit
  <2>6. OaStays
    BY <1>1, <2>3 DEF OaStays
  <2>7. \A q \in OaRequests \ {p} : OaLeaves(oaReq[q])
    BY <1>1, <2>4 DEF OaLeaves
  <2>8. PICK r \in OaRecord : /\ oaReq' = [oaReq EXCEPT ![p] = r]
                              /\ r.pc = "redirect" /\ r.session = 0
                              /\ r.flow = oaReq[p].flow /\ r.browser = oaReq[p].browser
    <3> DEFINE n == [oaReq[p] EXCEPT !.pc = "redirect"]
    <3>1. /\ n \in OaRecord /\ n.pc = "redirect" /\ n.session = 0
          /\ n.flow = oaReq[p].flow /\ n.browser = oaReq[p].browser
      BY <1>t, <1>k DEF OaRecord
    <3>2. oaReq' = [oaReq EXCEPT ![p] = n]
      BY <2>1 DEF OaGo
    <3> HIDE DEF n
    <3> QED
      BY <3>1, <3>2
  <2>9. OaKnows(r)'
    BY <1>1, <1>t, <1>k, <2>8 DEF OaKnows, BeforeOpen, Serves
  <2>10. ASSUME NEW q \in OaRequests \ {p} PROVE Apart(r, oaReq[q])
    <3>1. Apart(oaReq[p], oaReq[q])
      BY DEF OaInv
    <3> QED
      BY <1>k, <2>8, <3>1 DEF Apart, Serves
  <2> QED
    BY <2>3, <2>4, <2>t, <2>5, <2>6, <2>7, <2>8, <2>9, <2>10, OaMoves
<1>3. CASE ~InsertAccount(oaReq[p].identity)
  <2>1. OaEnd(p) /\ UNCHANGED <<accountOf, opened>>
    BY <1>3 DEF AttachProvider
  <2> QED
    BY <1>1, <2>1, OaEnds DEF oaWorld
<1> QED
  BY <1>2, <1>3

\* A login that has linked its identity to a user goes on to its session.
LEMMA LinkedGoesOn ==
  ASSUME OaInv, NEW p \in OaRequests, oaReq[p].pc \in {"linkEmail", "create"},
         InsertAccount(oaReq[p].identity), NEW u \in OaUsers,
         accountOf' = [accountOf EXCEPT ![oaReq[p].identity] = u],
         OaGo(p, [oaReq[p] EXCEPT !.pc = "session", !.user = u]),
         emailOf' \in [OaUsers -> OaEmails \cup {""}],
         UNCHANGED <<flow, jar, refresh, sess, ticket, opened, tokens>>
  PROVE  OaInv'
<1>t. /\ OaTypeOK /\ TicketsFit /\ FlowsFit /\ oaReq[p] \in OaRecord /\ OaKnows(oaReq[p])
  BY DEF OaInv, OaTypeOK
<1>k. /\ oaReq[p].pc \in BeforeOpen \ {"exchangeCode"} /\ Serves(oaReq[p])
      /\ oaReq[p].identity \in Identities
  BY <1>t DEF OaKnows, BeforeOpen, Serves
<1>1. PICK i \in Identities : i = oaReq[p].identity
  BY <1>k
<1>2. /\ SessionsFit' /\ accountOf' \in [Identities -> OaUsers \cup {0}] /\ accountOf'[i] = u
      /\ \A j \in Identities : accountOf[j] # 0 => accountOf'[j] = accountOf[j]
  BY <1>1, LinkedOnce
<1>3. OaTyped' /\ TicketsFit' /\ FlowsFit'
  <2>1. OaTyped'
    BY <1>t, <1>2 DEF OaTypeOK, OaTyped
  <2>2. TicketsFit'
    BY <1>t, TicketsRest
  <2>3. FlowsFit'
    BY <1>t DEF FlowsFit
  <2> QED
    BY <2>1, <2>2, <2>3
<1>4. OaStays /\ \A q \in OaRequests : OaLeaves(oaReq[q])
  BY <1>2 DEF OaStays, OaLeaves
<1>5. PICK r \in OaRecord : /\ oaReq' = [oaReq EXCEPT ![p] = r]
                            /\ r.pc = "session" /\ r.user = u /\ r.identity = i
                            /\ r.flow = oaReq[p].flow /\ r.browser = oaReq[p].browser
                            /\ r.session = oaReq[p].session
  <2> DEFINE n == [oaReq[p] EXCEPT !.pc = "session", !.user = u]
  <2>1. /\ n \in OaRecord /\ n.pc = "session" /\ n.user = u /\ n.identity = i
        /\ n.flow = oaReq[p].flow /\ n.browser = oaReq[p].browser /\ n.session = oaReq[p].session
    BY <1>t, <1>1 DEF OaRecord
  <2>2. oaReq' = [oaReq EXCEPT ![p] = n]
    BY DEF OaGo
  <2> HIDE DEF n
  <2> QED
    BY <2>1, <2>2
<1>6. OaKnows(r)'
  <2>1. u # 0
    BY UserIsNotZero
  <2> QED
    BY <1>t, <1>k, <1>2, <1>5, <2>1 DEF OaKnows, BeforeOpen, Serves
<1>7. ASSUME NEW q \in OaRequests \ {p} PROVE Apart(r, oaReq[q])
  <2>1. Apart(oaReq[p], oaReq[q])
    BY DEF OaInv
  <2> QED
    BY <1>k, <1>5, <2>1 DEF Apart, Serves
<1> QED
  BY <1>2, <1>3, <1>4, <1>5, <1>6, <1>7, OaMoves

LEMMA LinkByEmailKeeps ==
  ASSUME OaInv, NEW p \in OaRequests, LinkByEmail(p)
  PROVE  OaInv'
<1>1. /\ oaReq[p].pc = "linkEmail"
      /\ UNCHANGED <<flow, jar, refresh, emailOf, sess, ticket, opened, tokens>>
  BY DEF LinkByEmail, OaAt, oaCookies, oaCounts
<1>t. oaReq[p] \in OaRecord /\ OaKnows(oaReq[p]) /\ emailOf \in [OaUsers -> OaEmails \cup {""}]
  BY DEF OaInv, OaTypeOK
<1>2. CASE InsertAccount(oaReq[p].identity)
  <2>1. PICK u \in OaUsers : u = oaReq[p].user
    BY <1>1, <1>t DEF OaKnows, OaRecord
  <2>2. /\ accountOf' = [accountOf EXCEPT ![oaReq[p].identity] = u]
        /\ OaGo(p, [oaReq[p] EXCEPT !.pc = "session"])
    BY <1>2, <2>1 DEF LinkByEmail
  <2>3. [oaReq[p] EXCEPT !.pc = "session"] = [oaReq[p] EXCEPT !.pc = "session", !.user = u]
    BY <1>t, <2>1 DEF OaRecord
  <2>4. OaGo(p, [oaReq[p] EXCEPT !.pc = "session", !.user = u])
    BY <2>2, <2>3
  <2> QED
    BY <1>1, <1>t, <1>2, <2>2, <2>4, LinkedGoesOn
<1>3. CASE ~InsertAccount(oaReq[p].identity)
  <2>1. OaEnd(p) /\ UNCHANGED accountOf
    BY <1>3 DEF LinkByEmail
  <2> QED
    BY <1>1, <2>1, OaEnds DEF oaWorld
<1> QED
  BY <1>2, <1>3

LEMMA CreateKeeps ==
  ASSUME OaInv, NEW p \in OaRequests, CreateOAuthUser(p)
  PROVE  OaInv'
<1>1. /\ oaReq[p].pc = "create"
      /\ UNCHANGED <<flow, jar, refresh, sess, ticket, opened, tokens>>
  BY DEF CreateOAuthUser, OaAt, oaCookies, oaCounts
<1>t. oaReq[p] \in OaRecord /\ emailOf \in [OaUsers -> OaEmails \cup {""}]
  BY DEF OaInv, OaTypeOK
<1>2. CASE InsertAccount(oaReq[p].identity) /\ ~ \E u \in OaUsers : emailOf[u] = oaReq[p].email
  <2>1. PICK u \in OaUsers :
          /\ emailOf' = [emailOf EXCEPT ![u] = oaReq[p].email]
          /\ accountOf' = [accountOf EXCEPT ![oaReq[p].identity] = u]
          /\ OaGo(p, [oaReq[p] EXCEPT !.pc = "session", !.user = u])
    BY <1>2 DEF CreateOAuthUser
  <2>2. emailOf' \in [OaUsers -> OaEmails \cup {""}]
    BY <1>t, <2>1 DEF OaRecord
  <2> QED
    BY <1>1, <1>2, <2>1, <2>2, LinkedGoesOn
<1>3. CASE ~(InsertAccount(oaReq[p].identity) /\ ~ \E u \in OaUsers : emailOf[u] = oaReq[p].email)
  <2>1. OaEnd(p) /\ UNCHANGED <<accountOf, emailOf>>
    BY <1>3 DEF CreateOAuthUser, oaRows
  <2> QED
    BY <1>1, <2>1, OaEnds DEF oaWorld
<1> QED
  BY <1>2, <1>3

\* A login opens a session of its identity and its user, that no other request answers with.
LEMMA OpenKeeps ==
  ASSUME OaInv, NEW p \in OaRequests, OpenSession(p)
  PROVE  OaInv'
<1>1. /\ oaReq[p].pc = "session" /\ opened' = Count(opened, oaReq[p].flow, oaReq[p].browser)
      /\ UNCHANGED <<flow, jar, refresh, accountOf, emailOf, ticket, tokens>>
  BY DEF OpenSession, OaAt, oaCookies, oaRows
<1>t. /\ OaTypeOK /\ TicketsFit /\ FlowsFit /\ SessionsFit
      /\ oaReq[p] \in OaRecord /\ OaKnows(oaReq[p])
  BY DEF OaInv, OaTypeOK
<1>k. /\ oaReq[p].pc \in BeforeOpen \ {"exchangeCode"} /\ Serves(oaReq[p])
      /\ oaReq[p].identity \in Identities /\ oaReq[p].user \in OaUsers \cup {0}
      /\ oaReq[p].user # 0 /\ accountOf[oaReq[p].identity] = oaReq[p].user
  BY <1>1, <1>t DEF OaKnows, BeforeOpen, Serves, OaRecord
<1>2. PICK s \in OaSessions :
        /\ sess[s].state = "none"
        /\ sess' = [sess EXCEPT ![s] = [state |-> "live", user |-> oaReq[p].user,
                                        identity |-> oaReq[p].identity]]
        /\ OaGo(p, [oaReq[p] EXCEPT !.pc = "redirect", !.session = s])
  BY DEF OpenSession
<1>3. /\ sess' \in [OaSessions -> [state : {"none", "live", "revoked"}, user : OaUsers \cup {0},
                                   identity : Identities \cup {NoFlow}]]
      /\ sess'[s].state # "none" /\ sess'[s].user = oaReq[p].user
      /\ sess'[s].identity = oaReq[p].identity
      /\ \A t \in OaSessions \ {s} : sess'[t] = sess[t]
  <2> DEFINE R == [state : {"none", "live", "revoked"}, user : OaUsers \cup {0},
                   identity : Identities \cup {NoFlow}]
             n == [state |-> "live", user |-> oaReq[p].user, identity |-> oaReq[p].identity]
  <2>1. /\ n \in R /\ n.state # "none" /\ n.user = oaReq[p].user
        /\ n.identity = oaReq[p].identity
    BY <1>k
  <2>2. sess' = [sess EXCEPT ![s] = n] /\ sess \in [OaSessions -> R]
    BY <1>2, <1>t DEF OaTypeOK
  <2> HIDE DEF n, R
  <2>3. /\ sess' \in [OaSessions -> R] /\ sess'[s].state # "none"
        /\ sess'[s].user = oaReq[p].user /\ sess'[s].identity = oaReq[p].identity
        /\ \A t \in OaSessions \ {s} : sess'[t] = sess[t]
    BY <2>1, <2>2
  <2> QED
    BY <2>3 DEF R
<1>4. /\ FlowsFit' /\ opened' \in [Flows -> [Browsers -> Nat]]
      /\ \A q \in OaRequests \ {p} :
           Serves(oaReq[q]) => \A b \in Browsers : opened'[oaReq[q].flow][b] = opened[oaReq[q].flow][b]
  BY <1>1, <1>k, OpenedOnce
<1>5. OaTyped'
  BY <1>1, <1>t, <1>3, <1>4 DEF OaTypeOK, OaTyped
<1>6. TicketsFit'
  BY <1>1, <1>t, <1>3 DEF TicketsFit
<1>7. SessionsFit'
  BY <1>1, <1>t, <1>k, <1>3 DEF SessionsFit
<1>8. OaStays
  BY <1>1, <1>3 DEF OaStays
<1>9. \A q \in OaRequests \ {p} : OaLeaves(oaReq[q])
  BY <1>1, <1>4 DEF OaLeaves
<1>10. PICK r \in OaRecord : /\ oaReq' = [oaReq EXCEPT ![p] = r]
                             /\ r.pc = "redirect" /\ r.session = s
                             /\ r.flow = oaReq[p].flow /\ r.browser = oaReq[p].browser
  <2> DEFINE n == [oaReq[p] EXCEPT !.pc = "redirect", !.session = s]
  <2>1. /\ n \in OaRecord /\ n.pc = "redirect" /\ n.session = s
        /\ n.flow = oaReq[p].flow /\ n.browser = oaReq[p].browser
    BY <1>t DEF OaRecord
  <2>2. oaReq' = [oaReq EXCEPT ![p] = n]
    BY <1>2 DEF OaGo
  <2> HIDE DEF n
  <2> QED
    BY <2>1, <2>2
<1>11. OaKnows(r)'
  <2>1. /\ oaReq[p].flow \in Flows /\ oaReq[p].browser \in Browsers
        /\ flow'[oaReq[p].flow].state = "gone" /\ flow'[oaReq[p].flow].browser = oaReq[p].browser
    BY <1>1, <1>t, <1>k DEF OaKnows
  <2>2. sess'[s].state # "none" /\ ticket'[s] = "none"
    BY <1>1, <1>2, <1>t, <1>3 DEF TicketsFit
  <2> QED
    BY <1>10, <2>1, <2>2 DEF OaKnows, BeforeOpen, Serves
<1>12. ASSUME NEW q \in OaRequests \ {p} PROVE Apart(r, oaReq[q])
  <2>1. Apart(oaReq[p], oaReq[q]) /\ OaKnows(oaReq[q])
    BY DEF OaInv
  <2>2. oaReq[q].pc = "redirect" => oaReq[q].session # s
    <3>1. oaReq[q] \in OaRecord
      BY DEF OaInv, OaTypeOK
    <3>2. s # 0
      BY SessionIsNotZero
    <3> QED
      BY <1>2, <2>1, <3>1, <3>2 DEF OaKnows
  <2> QED
    BY <1>k, <1>10, <2>1, <2>2 DEF Apart, Serves
<1> QED
  BY <1>4, <1>5, <1>6, <1>7, <1>8, <1>9, <1>10, <1>11, <1>12, OaMoves

-----------------------------------------------------------------------------

\* A ticket is issued for a session that is answered with, or spent: nobody has exchanged more.
LEMMA TicketMoves ==
  ASSUME OaInv, NEW s \in OaSessions, NEW k \in {"issued", "gone"},
         ticket' = [ticket EXCEPT ![s] = k], sess[s].state # "none",
         k = "issued" => ticket[s] # "gone", UNCHANGED <<sess, tokens>>
  PROVE  /\ TicketsFit' /\ ticket' \in [OaSessions -> {"none", "issued", "gone"}]
         /\ \A t \in OaSessions \ {s} : ticket'[t] = ticket[t]
<1>t. ticket \in [OaSessions -> {"none", "issued", "gone"}] /\ TicketsFit
  BY DEF OaInv, OaTypeOK
<1>1. /\ ticket' \in [OaSessions -> {"none", "issued", "gone"}]
      /\ ticket'[s] = k /\ \A t \in OaSessions \ {s} : ticket'[t] = ticket[t]
  BY <1>t
<1> QED
  BY <1>t, <1>1 DEF TicketsFit

\* The answer takes the binding cookie, and with it no flow a browser has the nonce of.
LEMMA RedirectKeeps ==
  ASSUME OaInv, NEW p \in OaRequests, Redirect(p)
  PROVE  OaInv'
<1>1. /\ oaReq[p].pc = "redirect" /\ OaEnd(p)
      /\ jar' = [jar EXCEPT ![oaReq[p].browser][CookieOf(flow[oaReq[p].flow].provider)] = NoFlow]
      /\ UNCHANGED <<flow, accountOf, emailOf, sess, opened, tokens>>
  BY DEF Redirect, OaAt, oaRows, oaCounts
<1>t. /\ OaTypeOK /\ TicketsFit /\ FlowsFit /\ SessionsFit
      /\ oaReq[p] \in OaRecord /\ OaKnows(oaReq[p])
  BY DEF OaInv, OaTypeOK
<1>2. PICK c \in Cookies, b \in Browsers :
        c = CookieOf(flow[oaReq[p].flow].provider) /\ b = oaReq[p].browser
  BY <1>1, <1>t DEF OaKnows, Serves, CookieOf, Cookies
<1>3. /\ jar' \in [Browsers -> [Cookies -> Flows \cup {NoFlow}]]
      /\ jar'[b][c] = NoFlow
      /\ \A d \in Browsers, e \in Cookies : d # b \/ e # c => jar'[d][e] = jar[d][e]
  BY <1>1, <1>2, <1>t DEF OaTypeOK
<1>4. FlowsFit'
  <2>1. \A d \in Browsers, e \in Cookies : jar'[d][e] = NoFlow \/ jar'[d][e] = jar[d][e]
    BY <1>3
  <2>2. ASSUME NEW d \in Browsers, NEW e \in Cookies, jar'[d][e] # NoFlow
        PROVE  flow'[jar'[d][e]].state # "none" /\ flow'[jar'[d][e]].browser = d
    <3>1. jar'[d][e] = jar[d][e]
      BY <2>1, <2>2
    <3> QED
      BY <1>1, <1>t, <2>2, <3>1 DEF FlowsFit
  <2>3. \A g \in Flows, d \in Browsers :
          /\ opened'[g][d] \in {0, 1}
          /\ opened'[g][d] = 1 => flow'[g].state = "gone" /\ flow'[g].browser = d
    BY <1>1, <1>t DEF FlowsFit
  <2> QED
    BY <2>2, <2>3 DEF FlowsFit
<1>5. SessionsFit' /\ OaStays
  BY <1>1, <1>t DEF SessionsFit, OaStays
<1>6. /\ refresh' \in [Browsers -> OaSessions \cup {0}]
      /\ TicketsFit' /\ ticket' \in [OaSessions -> {"none", "issued", "gone"}]
      /\ \A t \in OaSessions : ticket'[t] # ticket[t] => oaReq[p].session = t
  <2>1. CASE oaReq[p].session = 0
    <3>1. UNCHANGED <<refresh, ticket>>
      BY <2>1 DEF Redirect
    <3>2. TicketsFit'
      BY <1>1, <1>t, <3>1, TicketsRest
    <3> QED
      BY <1>t, <3>1, <3>2 DEF OaTypeOK
  <2>2. CASE oaReq[p].session # 0
    <3>1. PICK s \in OaSessions : s = oaReq[p].session
      BY <1>t, <2>2 DEF OaRecord
    <3>2. /\ refresh' = [refresh EXCEPT ![b] = s]
          /\ ticket' = ticket \/ ticket' = [ticket EXCEPT ![s] = "issued"]
      BY <1>2, <2>2, <3>1 DEF Redirect
    <3>3. sess[s].state # "none" /\ ticket[s] = "none"
      BY <1>1, <1>t, <2>2, <3>1 DEF OaKnows
    <3>4. refresh' \in [Browsers -> OaSessions \cup {0}]
      BY <1>t, <3>2 DEF OaTypeOK
    <3>5. CASE ticket' = ticket
      <4>1. TicketsFit'
        BY <1>1, <1>t, <3>5, TicketsRest
      <4> QED
        BY <1>t, <3>4, <3>5, <4>1 DEF OaTypeOK
    <3>6. CASE ticket' = [ticket EXCEPT ![s] = "issued"]
      <4>1. /\ TicketsFit' /\ ticket' \in [OaSessions -> {"none", "issued", "gone"}]
            /\ \A t \in OaSessions \ {s} : ticket'[t] = ticket[t]
        BY <1>1, <3>3, <3>6, TicketMoves
      <4> QED
        BY <3>1, <3>4, <4>1
    <3> QED
      BY <3>2, <3>5, <3>6
  <2> QED
    BY <2>1, <2>2
<1>7. OaTyped'
  BY <1>1, <1>t, <1>3, <1>6 DEF OaTypeOK, OaTyped
<1>8. ASSUME NEW q \in OaRequests \ {p} PROVE OaLeaves(oaReq[q])
  <2>1. Apart(oaReq[p], oaReq[q]) /\ oaReq[q] \in OaRecord
    BY DEF OaInv, OaTypeOK
  <2>2. ASSUME oaReq[q].pc = "redirect", oaReq[q].session # 0
        PROVE  ticket'[oaReq[q].session] = ticket[oaReq[q].session]
    <3>1. oaReq[q].session \in OaSessions /\ oaReq[q].session # oaReq[p].session
      BY <1>1, <2>1, <2>2 DEF Apart, OaRecord
    <3> QED
      BY <1>6, <3>1
  <2> QED
    BY <1>1, <2>2 DEF OaLeaves
<1>9. PICK r \in OaRecord : r = OaIdle
  BY OaIdleKnows
<1>10. oaReq' = [oaReq EXCEPT ![p] = r]
  BY <1>1, <1>9 DEF OaEnd, OaGo
<1>11. ~Serves(r) /\ r.pc = "idle"
  BY <1>9, OaIdleKnows
<1>12. OaKnows(r)' /\ \A q \in OaRequests \ {p} : Apart(r, oaReq[q])
  BY <1>11 DEF OaKnows, BeforeOpen, Serves, Apart
<1> QED
  BY <1>4, <1>5, <1>6, <1>7, <1>8, <1>10, <1>12, OaMoves

-----------------------------------------------------------------------------

\* An issued ticket belongs to an opened session, and no request waits to answer with that session.
LEMMA IssuedTicket ==
  ASSUME OaInv, NEW t \in OaSessions, ticket[t] = "issued"
  PROVE  /\ sess[t].state # "none" /\ \A b \in Browsers : tokens[t][b] = 0
         /\ \A q \in OaRequests : oaReq[q].pc = "redirect" => oaReq[q].session # t
<1>1. sess[t].state # "none" /\ \A b \in Browsers : tokens[t][b] = 0
  BY DEF OaInv, TicketsFit
<1>2. ASSUME NEW q \in OaRequests, oaReq[q].pc = "redirect" PROVE oaReq[q].session # t
  <2>1. OaKnows(oaReq[q]) /\ t # 0
    BY SessionIsNotZero DEF OaInv
  <2> QED
    BY <1>2, <2>1 DEF OaKnows
<1> QED
  BY <1>1, <1>2

\* A ticket is spent by being looked at, and exchanged by the browser of its session.
LEMMA ConsumeTicketKeeps ==
  ASSUME OaInv, NEW p \in OaRequests, NEW t \in OaSessions, ConsumeTicket(p, t)
  PROVE  OaInv'
<1>1. /\ oaReq[p].pc = "ticket" /\ ticket[t] = "issued" /\ OaEnd(p)
      /\ ticket' = [ticket EXCEPT ![t] = "gone"]
      /\ tokens' = IF oaReq[p].session = t THEN Count(tokens, t, oaReq[p].browser) ELSE tokens
      /\ UNCHANGED <<flow, jar, refresh, accountOf, emailOf, sess, opened>>
  BY DEF ConsumeTicket, OaAt, oaRows, oaCookies
<1>t. /\ OaTypeOK /\ TicketsFit /\ FlowsFit /\ SessionsFit
      /\ oaReq[p] \in OaRecord /\ OaKnows(oaReq[p])
  BY DEF OaInv, OaTypeOK
<1>2. /\ sess[t].state # "none" /\ \A b \in Browsers : tokens[t][b] = 0
      /\ \A q \in OaRequests : oaReq[q].pc = "redirect" => oaReq[q].session # t
  BY <1>1, IssuedTicket
<1>3. /\ ticket' \in [OaSessions -> {"none", "issued", "gone"}] /\ ticket'[t] = "gone"
      /\ \A s \in OaSessions \ {t} : ticket'[s] = ticket[s]
  BY <1>1, <1>t DEF OaTypeOK
<1>4. PICK b \in Browsers : b = oaReq[p].browser
  BY <1>1, <1>t DEF OaKnows
<1>5. /\ tokens' \in [OaSessions -> [Browsers -> Nat]]
      /\ tokens'[t][b] \in {0, 1}
      /\ \A s \in OaSessions, d \in Browsers : s # t \/ d # b => tokens'[s][d] = tokens[s][d]
  <2>1. tokens \in [OaSessions -> [Browsers -> Nat]] /\ tokens[t][b] = 0
    BY <1>t, <1>2 DEF OaTypeOK
  <2>2. CASE oaReq[p].session = t
    <3>1. tokens' = [tokens EXCEPT ![t] = [tokens[t] EXCEPT ![b] = tokens[t][b] + 1]]
      BY <1>1, <1>4, <2>2, Zenon DEF Count
    <3>2. tokens' = [tokens EXCEPT ![t] = [tokens[t] EXCEPT ![b] = 1]]
      BY <2>1, <3>1
    <3> QED
      BY <2>1, <3>2
  <2>3. CASE oaReq[p].session # t
    BY <1>1, <2>1, <2>3
  <2> QED
    BY <2>2, <2>3
<1>6. TicketsFit'
  <2>1. UNCHANGED sess
    BY <1>1
  <2>2. ASSUME NEW s \in OaSessions, s # t
        PROVE  /\ sess'[s].state = "none" => ticket'[s] = "none"
               /\ \A d \in Browsers : /\ tokens'[s][d] \in {0, 1}
                                      /\ (tokens'[s][d] = 1 => ticket'[s] = "gone")
               /\ \A d, c \in Browsers : tokens'[s][d] = 1 /\ tokens'[s][c] = 1 => d = c
    <3>1. ticket'[s] = ticket[s] /\ \A d \in Browsers : tokens'[s][d] = tokens[s][d]
      BY <1>3, <1>5, <2>2
    <3> QED
      BY <1>t, <2>1, <3>1 DEF TicketsFit
  <2>3. /\ sess'[t].state # "none" /\ ticket'[t] = "gone" /\ tokens'[t][b] \in {0, 1}
        /\ \A d \in Browsers : d # b => tokens'[t][d] = 0
    BY <1>2, <1>3, <1>5, <2>1
  <2> QED
    BY <2>2, <2>3 DEF TicketsFit
<1>7. SessionsFit' /\ OaStays
  BY <1>1, <1>t DEF SessionsFit, OaStays
<1>8. FlowsFit'
  BY <1>1, <1>t DEF FlowsFit
<1>9. OaTyped'
  BY <1>1, <1>t, <1>3, <1>5 DEF OaTypeOK, OaTyped
<1>10. ASSUME NEW q \in OaRequests PROVE OaLeaves(oaReq[q])
  <2>1. oaReq[q] \in OaRecord
    BY DEF OaInv, OaTypeOK
  <2> QED
    BY <1>1, <1>2, <1>3, <2>1 DEF OaLeaves, OaRecord
<1>11. PICK r \in OaRecord : r = OaIdle
  BY OaIdleKnows
<1>12. oaReq' = [oaReq EXCEPT ![p] = r]
  BY <1>1, <1>11 DEF OaEnd, OaGo
<1>13. ~Serves(r) /\ r.pc = "idle"
  BY <1>11, OaIdleKnows
<1>14. OaKnows(r)' /\ \A q \in OaRequests \ {p} : Apart(r, oaReq[q])
  BY <1>13 DEF OaKnows, BeforeOpen, Serves, Apart
<1> QED
  BY <1>6, <1>7, <1>8, <1>9, <1>10, <1>12, <1>14, OaMoves

\* What time does: a state or a ticket expires, a session is revoked.
LEMMA ExpiresKeeps ==
  ASSUME OaInv, OaExpires
  PROVE  OaInv'
<1>1. UNCHANGED <<jar, refresh, accountOf, emailOf, opened, tokens, oaReq>>
  BY DEF OaExpires, oaCookies, oaRows, oaCounts
<1>t. OaTypeOK /\ TicketsFit /\ FlowsFit /\ SessionsFit
  BY DEF OaInv
<1>2. CASE \E f \in Flows : ConsumeState(f) /\ UNCHANGED <<sess, ticket>>
  <2>1. PICK f \in Flows : ConsumeState(f) /\ UNCHANGED <<sess, ticket>>
    BY <1>2
  <2>2. UNCHANGED <<jar, refresh, oaRows, oaCounts>>
    BY <1>1 DEF oaRows, oaCounts
  <2>3. /\ FlowsFit' /\ flow' \in [Flows -> FlowRecord]
        /\ \A g \in Flows : flow[g].state = "gone" => flow'[g] = flow[g]
    BY <2>1, <2>2, SpentFits
  <2>4. TicketsFit' /\ SessionsFit'
    BY <1>1, <1>t, <2>1 DEF TicketsFit, SessionsFit
  <2>5. OaTyped' /\ OaStays /\ \A q \in OaRequests : OaLeaves(oaReq[q])
    BY <1>1, <1>t, <2>1, <2>3 DEF OaTypeOK, OaTyped, OaStays, OaLeaves
  <2> QED
    BY <1>1, <2>3, <2>4, <2>5, OaWorldMoves
<1>3. CASE \E s \in OaSessions : /\ ticket[s] = "issued" /\ ticket' = [ticket EXCEPT ![s] = "gone"]
                                 /\ UNCHANGED <<flow, sess>>
  <2>1. PICK s \in OaSessions : /\ ticket[s] = "issued" /\ ticket' = [ticket EXCEPT ![s] = "gone"]
                                /\ UNCHANGED <<flow, sess>>
    BY <1>3
  <2>2. /\ sess[s].state # "none"
        /\ \A q \in OaRequests : oaReq[q].pc = "redirect" => oaReq[q].session # s
    BY <2>1, IssuedTicket
  <2>3. /\ TicketsFit' /\ ticket' \in [OaSessions -> {"none", "issued", "gone"}]
        /\ \A t \in OaSessions \ {s} : ticket'[t] = ticket[t]
    BY <1>1, <2>1, <2>2, TicketMoves
  <2>4. FlowsFit' /\ SessionsFit' /\ OaStays
    BY <1>1, <1>t, <2>1 DEF FlowsFit, SessionsFit, OaStays
  <2>5. OaTyped'
    BY <1>1, <1>t, <2>1, <2>3 DEF OaTypeOK, OaTyped
  <2>6. ASSUME NEW q \in OaRequests PROVE OaLeaves(oaReq[q])
    <3>1. oaReq[q] \in OaRecord
      BY <1>t DEF OaTypeOK
    <3> QED
      BY <1>1, <2>2, <2>3, <3>1 DEF OaLeaves, OaRecord
  <2> QED
    BY <1>1, <2>3, <2>4, <2>5, <2>6, OaWorldMoves
<1>4. CASE \E s \in OaSessions : /\ sess[s].state = "live"
                                 /\ sess' = [sess EXCEPT ![s].state = "revoked"]
                                 /\ UNCHANGED <<flow, ticket>>
  <2>1. PICK s \in OaSessions : /\ sess[s].state = "live"
                                /\ sess' = [sess EXCEPT ![s].state = "revoked"]
                                /\ UNCHANGED <<flow, ticket>>
    BY <1>4
  <2>2. /\ sess' \in [OaSessions -> [state : {"none", "live", "revoked"}, user : OaUsers \cup {0},
                                     identity : Identities \cup {NoFlow}]]
        /\ \A t \in OaSessions : /\ sess'[t].user = sess[t].user
                                 /\ sess'[t].identity = sess[t].identity
                                 /\ (sess'[t].state = "none" <=> sess[t].state = "none")
    BY <1>t, <2>1 DEF OaTypeOK
  <2>3. TicketsFit' /\ SessionsFit'
    BY <1>1, <1>t, <2>1, <2>2 DEF TicketsFit, SessionsFit
  <2>4. FlowsFit' /\ OaStays /\ \A q \in OaRequests : OaLeaves(oaReq[q])
    BY <1>1, <1>t, <2>1, <2>2 DEF FlowsFit, OaStays, OaLeaves
  <2>5. OaTyped'
    BY <1>1, <1>t, <2>1, <2>2 DEF OaTypeOK, OaTyped
  <2> QED
    BY <1>1, <2>3, <2>4, <2>5, OaWorldMoves
<1> QED
  BY <1>2, <1>3, <1>4 DEF OaExpires

LEMMA OaInitInv == OaInit => OaInv
<1> SUFFICES ASSUME OaInit PROVE OaInv
  OBVIOUS
<1>1. OaTypeOK
  <2>1. flow \in [Flows -> FlowRecord]
    BY DEF OaInit, FlowRecord, Providers
  <2>2. /\ jar \in [Browsers -> [Cookies -> Flows \cup {NoFlow}]]
        /\ refresh \in [Browsers -> OaSessions \cup {0}]
        /\ accountOf \in [Identities -> OaUsers \cup {0}]
        /\ emailOf \in [OaUsers -> OaEmails \cup {""}]
    BY DEF OaInit
  <2>3. sess \in [OaSessions -> [state : {"none", "live", "revoked"}, user : OaUsers \cup {0},
                                 identity : Identities \cup {NoFlow}]]
    BY DEF OaInit
  <2>4. /\ ticket \in [OaSessions -> {"none", "issued", "gone"}]
        /\ opened \in [Flows -> [Browsers -> Nat]]
        /\ tokens \in [OaSessions -> [Browsers -> Nat]]
    BY DEF OaInit
  <2>5. oaReq \in [OaRequests -> OaRecord]
    BY OaIdleKnows DEF OaInit
  <2> QED
    BY <2>1, <2>2, <2>3, <2>4, <2>5 DEF OaTypeOK
<1>2. FlowsFit
  <2>1. /\ \A f \in Flows, b \in Browsers : opened[f][b] = 0
        /\ \A b \in Browsers, c \in Cookies : jar[b][c] = NoFlow
    BY DEF OaInit
  <2> QED
    BY <2>1 DEF FlowsFit
<1>3. TicketsFit /\ SessionsFit
  <2>1. \A s \in OaSessions : /\ sess[s].state = "none" /\ ticket[s] = "none"
                             /\ \A b \in Browsers : tokens[s][b] = 0
    BY DEF OaInit
  <2> QED
    BY <2>1 DEF TicketsFit, SessionsFit
<1>4. \A p \in OaRequests : oaReq[p] = OaIdle
  BY DEF OaInit
<1>5. \A p \in OaRequests : OaKnows(oaReq[p]) /\ ~Serves(oaReq[p]) /\ oaReq[p].pc = "idle"
  BY <1>4, OaIdleKnows, Zenon
<1> QED
  BY <1>1, <1>2, <1>3, <1>5 DEF OaInv, Apart

\* In every state of the OAuth flows the rows, the cookies and the tickets are what each request in
\* flight knows of them, and no two requests work for one flow.
THEOREM OaInvariant == OaSpec => []OaInv
<1>1. ASSUME OaInv, [OaNext]_oaVars PROVE OaInv'
  <2>1. CASE OaExpires
    BY <1>1, <2>1, ExpiresKeeps
  <2>2. ASSUME NEW b \in Browsers, NEW provider \in Providers, Authorize(b, provider) PROVE OaInv'
    BY <1>1, <2>2, StoreKeeps DEF Authorize
  <2>3. ASSUME NEW b \in Browsers, NEW provider \in Providers, NEW u \in OaUsers, Link(b, provider, u)
        PROVE  OaInv'
    BY <1>1, <2>3, StoreKeeps DEF Link
  <2>4. ASSUME NEW b \in Browsers, NEW provider \in Providers, NEW p \in OaRequests, NEW f \in Flows,
               Callback(p, b, f, provider)
        PROVE  OaInv'
    BY <1>1, <2>4, CallbackKeeps
  <2>5. ASSUME NEW p \in OaRequests,
               \/ ExchangeCode(p) \/ FindAccount(p) \/ FindByEmail(p) \/ AttachProvider(p)
               \/ LinkByEmail(p) \/ CreateOAuthUser(p) \/ OpenSession(p) \/ Redirect(p)
        PROVE  OaInv'
    BY <1>1, <2>5, ExchangeKeeps, FindKeeps, FindByEmailKeeps, AttachKeeps, LinkByEmailKeeps,
       CreateKeeps, OpenKeeps, RedirectKeeps
  <2>6. ASSUME NEW p \in OaRequests, OaCrash(p) PROVE OaInv'
    BY <1>1, <2>6, OaWorldOf, OaEnds DEF OaCrash
  <2>7. ASSUME NEW p \in OaRequests, NEW b \in Browsers, ValidateRefresh(p, b) PROVE OaInv'
    BY <1>1, <2>7, ValidateKeeps
  <2>8. ASSUME NEW p \in OaRequests, NEW t \in OaSessions, ConsumeTicket(p, t) PROVE OaInv'
    BY <1>1, <2>8, ConsumeTicketKeeps
  <2>9. CASE UNCHANGED oaVars
    <3>1. UNCHANGED oaReq /\ UNCHANGED oaWorld
      BY <2>9 DEF oaVars, oaWorld
    <3> QED
      BY <1>1, <3>1, OaWorldRests, OaWorldMoves
  <2> QED
    BY <1>1, <2>1, <2>2, <2>3, <2>4, <2>5, <2>6, <2>7, <2>8, <2>9 DEF OaNext
<1> QED
  BY <1>1, OaInitInv, PTL DEF OaSpec

\* A flow signs in or links at most once, in the browser it was started in; its ticket is exchanged
\* at most once; and a login signs in the user its identity is linked to, however callbacks race.
THEOREM OAuthHolds == OaSpec => []OAuthIsSound
<1>1. ASSUME OaInv PROVE OAuthIsSound
  <2>t. FlowsFit /\ TicketsFit /\ SessionsFit
    BY <1>1 DEF OaInv
  <2>1. ASSUME NEW f \in Flows
        PROVE  LET by == {b \in Browsers : opened[f][b] > 0} IN
               by \subseteq {flow[f].browser} /\ \A b \in by : opened[f][b] = 1
    BY <2>t DEF FlowsFit
  <2>2. ASSUME NEW s \in OaSessions
        PROVE  /\ Cardinality({b \in Browsers : tokens[s][b] > 0}) <= 1
               /\ \A b \in Browsers : tokens[s][b] <= 1
    <3>1. \A b \in Browsers : tokens[s][b] = 0 \/ tokens[s][b] = 1
      BY <2>t DEF TicketsFit
    <3>2. \A b, c \in Browsers : tokens[s][b] = 1 /\ tokens[s][c] = 1 => b = c
      BY <2>t DEF TicketsFit
    <3>3. CASE \E b \in Browsers : tokens[s][b] = 1
      <4>1. PICK b \in Browsers : tokens[s][b] = 1
        BY <3>3
      <4>2. {c \in Browsers : tokens[s][c] > 0} = {b}
        BY <3>1, <3>2, <4>1
      <4>3. Cardinality({b}) = 1
        BY FS_Singleton
      <4> QED
        BY <3>1, <4>2, <4>3
    <3>4. CASE ~ \E b \in Browsers : tokens[s][b] = 1
      <4>1. {c \in Browsers : tokens[s][c] > 0} = {}
        BY <3>1, <3>4
      <4>2. Cardinality({}) = 0
        BY FS_EmptySet
      <4> QED
        BY <3>1, <4>1, <4>2
    <3> QED
      BY <3>3, <3>4
  <2>3. SignsInTheLinkedUser
    BY <2>t DEF SessionsFit, SignsInTheLinkedUser
  <2> QED
    BY <2>1, <2>2, <2>3 DEF OAuthIsSound, OAuthFlowOnce
<1> QED
  BY <1>1, OaInvariant, PTL

-----------------------------------------------------------------------------
(* Ability.                                                                *)

\* The rules are the ones the principal's permissions and scopes give.
AbilityInv ==
  /\ AbilityTypeOK
  /\ ability = [built |-> ability.built, rules |-> ability.rules]
  /\ ability.built = "yes" => ability.rules = EffectiveRules

LEMMA SeqsUpToMember ==
  ASSUME NEW S, NEW n \in Nat, NEW q \in SeqsUpTo(S, n)
  PROVE  \E m \in Nat : DOMAIN q = 1 .. m /\ q \in [1 .. m -> S]
<1>1. PICK m \in 0 .. n : q \in [1 .. m -> S]
  BY DEF SeqsUpTo
<1> QED
  BY <1>1

\* What an owner has is an array of permissions.
LEMMA OwnedFits ==
  ASSUME AbilityTypeOK
  PROVE  \E m \in Nat : DOMAIN Owned = 1 .. m /\ Owned \in [1 .. m -> Permission]
<1>1. CASE principal.super
  <2>1. Manage \in Permission
    BY DEF Manage, Permission, AnyAction, AnySubject
  <2>2. Owned = <<Manage>>
    BY <1>1 DEF Owned
  <2>3. DOMAIN <<Manage>> = 1 .. 1 /\ <<Manage>> \in [1 .. 1 -> Permission]
    BY <2>1
  <2> QED
    BY <2>2, <2>3
<1>2. CASE ~principal.super /\ principal.inOrg
  <2>1. Owned = granted
    BY <1>2 DEF Owned
  <2>2. MaxPerms \in Nat /\ granted \in SeqsUpTo(Permission, MaxPerms)
    BY AbilityAssumption DEF AbilityTypeOK
  <2> QED
    BY <2>1, <2>2, SeqsUpToMember
<1>3. CASE ~principal.super /\ ~principal.inOrg
  <2> DEFINE p == [action |-> "read", subject |-> "User", inverted |-> FALSE, resolved |-> TRUE]
             q == [action |-> "update", subject |-> "User", inverted |-> FALSE, resolved |-> TRUE]
  <2>1. p \in Permission /\ q \in Permission
    BY AbilityAssumption DEF Permission, AnyAction, AnySubject
  <2>2. Owned = <<p, q>>
    BY <1>3 DEF Owned, Personal
  <2> HIDE DEF p, q
  <2>3. DOMAIN <<p, q>> = 1 .. 2 /\ <<p, q>> \in [1 .. 2 -> Permission]
    BY <2>1
  <2> QED
    BY <2>2, <2>3
<1> QED
  BY <1>1, <1>2, <1>3

\* The scopes of a key are an array too.
LEMMA ScopesFit ==
  ASSUME AbilityTypeOK, principal.type = "api_key"
  PROVE  \E k \in Nat : DOMAIN principal.scopes = 1 .. k /\ principal.scopes \in [1 .. k -> Scope]
<1>1. MaxScopes \in Nat /\ principal.scopes \in SeqsUpTo(Scope, MaxScopes)
  BY AbilityAssumption DEF AbilityTypeOK, Principal
<1> QED
  BY <1>1, SeqsUpToMember

\* A permission cut down to a scope it meets covers what both cover, and refuses what it refused.
LEMMA NarrowCovers ==
  ASSUME NEW s \in Scope, NEW p \in Permission, NEW a \in AnyAction, NEW b \in AnySubject
  PROVE  /\ Narrow(s, p) \in Permission /\ Narrow(s, p).inverted = p.inverted
         /\ Intersect(s, p) /\ Covers(Narrow(s, p), a, b) <=> Covers(s, a, b) /\ Covers(p, a, b)
<1> DEFINE n == Narrow(s, p)
<1>1. /\ n \in Permission /\ n.inverted = p.inverted
      /\ n.action = IF s.action # "manage" THEN s.action ELSE p.action
      /\ n.subject = IF s.subject # "all" THEN s.subject ELSE p.subject
  BY DEF Narrow, Scope, Permission
<1> HIDE DEF n
<1>2. Intersect(s, p) /\ Covers(n, a, b) => Covers(s, a, b) /\ Covers(p, a, b)
  BY <1>1 DEF Intersect, Covers
<1>3. Covers(s, a, b) /\ Covers(p, a, b) => Intersect(s, p) /\ Covers(n, a, b)
  BY <1>1 DEF Intersect, Covers
<1> QED
  BY <1>1, <1>2, <1>3 DEF n

\* A nonempty set of naturals has a least element.
LEMMA LeastOf ==
  ASSUME NEW T, T \subseteq Nat, T # {}
  PROVE  \E x \in T : \A y \in T : x <= y
<1>1. PICK R : R = OpToRel(<, Nat)
  OBVIOUS
<1>2. IsWellFoundedOn(R, Nat)
  BY <1>1, NatLessThanWellFounded, Zenon
<1>3. PICK x \in T : \A y \in T : <<y, x>> \notin R
  BY <1>2, WFMin
<1>4. \A i, j \in Nat : i < j => <<i, j>> \in R
  BY <1>1 DEF OpToRel
<1>5. \A y \in T : ~(y < x)
  BY <1>3, <1>4
<1> QED
  BY <1>3, <1>5

\* ... and, when it is bounded, a greatest one.
LEMMA GreatestOf ==
  ASSUME NEW n \in Nat, NEW T, T \subseteq 0 .. n, T # {}
  PROVE  \E x \in T : \A y \in T : y <= x
<1> DEFINE U == {i \in Nat : \E x \in T : i = n - x}
<1>1. U \subseteq Nat /\ U # {}
  <2>1. PICK x \in T : TRUE
    OBVIOUS
  <2>2. n - x \in U
    BY <2>1
  <2> QED
    BY <2>2
<1>2. \A x \in T : n - x \in U
  OBVIOUS
<1> HIDE DEF U
<1>3. PICK i \in U : \A j \in U : i <= j
  BY <1>1, LeastOf
<1>4. PICK x \in T : i = n - x
  BY <1>3 DEF U
<1>5. \A y \in T : n - x <= n - y
  BY <1>2, <1>3, <1>4
<1> QED
  BY <1>4, <1>5

\* The last permission that covers allows, and one of the scopes covers.
Allows(m, perms, a, b) ==
  \E j \in 1 .. m : /\ Covers(perms[j], a, b) /\ ~perms[j].inverted
                    /\ \A l \in 1 .. m : j < l => ~Covers(perms[l], a, b)
Reaches(k, scopes, a, b) == \E i \in 1 .. k : Usable(scopes[i]) /\ Covers(scopes[i], a, b)

\* Permissions as they stand decide by the last one that covers.
LEMMA UnscopedDecides ==
  ASSUME NEW m \in Nat, NEW perms, DOMAIN perms = 1 .. m, NEW a, NEW b
  PROVE  Can(Unscoped(perms), a, b) <=> Allows(m, perms, a, b)
<1> DEFINE R == Unscoped(perms)
<1>1. DOMAIN R = {1} \X (1 .. m) /\ \A j \in 1 .. m : <<1, j>> \in DOMAIN R /\ R[<<1, j>>] = perms[j]
  BY DEF Unscoped
<1>2. \A j, l \in 1 .. m : Before(<<1, j>>, <<1, l>>) <=> j < l
  BY DEF Before
<1>3. \A x \in DOMAIN R : \E j \in 1 .. m : x = <<1, j>>
  BY <1>1
<1> HIDE DEF R
<1>4. ASSUME Can(R, a, b)
      PROVE  \E j \in 1 .. m : /\ Covers(perms[j], a, b) /\ ~perms[j].inverted
                               /\ \A l \in 1 .. m : j < l => ~Covers(perms[l], a, b)
  <2>1. PICK x \in DOMAIN R : /\ Covers(R[x], a, b) /\ ~R[x].inverted
                              /\ \A y \in DOMAIN R : Before(x, y) => ~Covers(R[y], a, b)
    BY <1>4 DEF Can
  <2>2. PICK j \in 1 .. m : x = <<1, j>>
    BY <1>3
  <2>3. ASSUME NEW l \in 1 .. m, j < l PROVE ~Covers(perms[l], a, b)
    BY <1>1, <1>2, <2>1, <2>2, <2>3
  <2> QED
    BY <1>1, <2>1, <2>2, <2>3
<1>5. ASSUME NEW j \in 1 .. m, Covers(perms[j], a, b), ~perms[j].inverted,
             \A l \in 1 .. m : j < l => ~Covers(perms[l], a, b)
      PROVE  Can(R, a, b)
  <2>1. ASSUME NEW y \in DOMAIN R, Before(<<1, j>>, y) PROVE ~Covers(R[y], a, b)
    <3>1. PICK l \in 1 .. m : y = <<1, l>>
      BY <1>3
    <3> QED
      BY <1>1, <1>2, <1>5, <2>1, <3>1
  <2> QED
    BY <1>1, <1>5, <2>1 DEF Can
<1> QED
  BY <1>4, <1>5 DEF R, Allows

\* Cut down, they decide by the last of the last scope that covers.
LEMMA ScopedDecides ==
  ASSUME NEW m \in Nat, NEW perms \in [1 .. m -> Permission],
         NEW k \in Nat, NEW scopes \in [1 .. k -> Scope], NEW a \in AnyAction, NEW b \in AnySubject
  PROVE  Can(ApplyScopes(perms, scopes), a, b) <=>
           Allows(m, perms, a, b) /\ Reaches(k, scopes, a, b)
<1> DEFINE R == ApplyScopes(perms, scopes)
           Met(i, j) == Usable(scopes[i]) /\ Intersect(scopes[i], perms[j])
           Reach(i) == Usable(scopes[i]) /\ Covers(scopes[i], a, b)
<1>1. DOMAIN R = {x \in (1 .. k) \X (1 .. m) : Met(x[1], x[2])}
  BY DEF ApplyScopes
<1>2. \A x \in DOMAIN R : \E i \in 1 .. k, j \in 1 .. m : x = <<i, j>> /\ Met(i, j)
  BY <1>1
<1>3. \A i \in 1 .. k, j \in 1 .. m : Met(i, j) =>
        <<i, j>> \in DOMAIN R /\ R[<<i, j>>] = Narrow(scopes[i], perms[j])
  BY DEF ApplyScopes
<1> HIDE DEF R, Met, Reach
<1>4. \A i \in 1 .. k, j \in 1 .. m :
        Met(i, j) => (R[<<i, j>>].inverted <=> perms[j].inverted)
  <2> SUFFICES ASSUME NEW i \in 1 .. k, NEW j \in 1 .. m, Met(i, j)
               PROVE  R[<<i, j>>].inverted <=> perms[j].inverted
    OBVIOUS
  <2>1. scopes[i] \in Scope /\ perms[j] \in Permission
    OBVIOUS
  <2> QED
    BY <1>3, <2>1, NarrowCovers
<1>5. \A i \in 1 .. k, j \in 1 .. m :
        Met(i, j) /\ Covers(R[<<i, j>>], a, b) <=> Reach(i) /\ Covers(perms[j], a, b)
  <2> SUFFICES ASSUME NEW i \in 1 .. k, NEW j \in 1 .. m
               PROVE  Met(i, j) /\ Covers(R[<<i, j>>], a, b) <=>
                        Reach(i) /\ Covers(perms[j], a, b)
    OBVIOUS
  <2>1. PICK s \in Scope, p \in Permission : s = scopes[i] /\ p = perms[j]
    OBVIOUS
  <2>2. Intersect(s, p) /\ Covers(Narrow(s, p), a, b) <=> Covers(s, a, b) /\ Covers(p, a, b)
    BY NarrowCovers
  <2>3. Met(i, j) <=> Usable(s) /\ Intersect(s, p)
    BY <2>1 DEF Met
  <2>4. Reach(i) <=> Usable(s) /\ Covers(s, a, b)
    BY <2>1 DEF Reach
  <2> QED
    BY <1>3, <2>1, <2>2, <2>3, <2>4
<1>6. ASSUME Can(R, a, b)
      PROVE  /\ \E j \in 1 .. m : /\ Covers(perms[j], a, b) /\ ~perms[j].inverted
                                  /\ \A l \in 1 .. m : j < l => ~Covers(perms[l], a, b)
             /\ \E i \in 1 .. k : Reach(i)
  <2>1. PICK x \in DOMAIN R : /\ Covers(R[x], a, b) /\ ~R[x].inverted
                              /\ \A y \in DOMAIN R : Before(x, y) => ~Covers(R[y], a, b)
    BY <1>6 DEF Can
  <2>2. PICK i \in 1 .. k, j \in 1 .. m : x = <<i, j>> /\ Met(i, j)
    BY <1>2
  <2>3. Reach(i) /\ Covers(perms[j], a, b) /\ ~perms[j].inverted
    BY <1>4, <1>5, <2>1, <2>2
  <2>4. ASSUME NEW l \in 1 .. m, j < l, Covers(perms[l], a, b) PROVE FALSE
    <3>1. Met(i, l) /\ Covers(R[<<i, l>>], a, b)
      BY <1>5, <2>3, <2>4
    <3>2. Before(<<i, j>>, <<i, l>>)
      BY <2>4 DEF Before
    <3> QED
      BY <1>3, <2>1, <2>2, <3>1, <3>2
  <2> QED
    BY <2>3, <2>4
<1>7. ASSUME NEW j \in 1 .. m, Covers(perms[j], a, b), ~perms[j].inverted,
             \A l \in 1 .. m : j < l => ~Covers(perms[l], a, b),
             \E i \in 1 .. k : Reach(i)
      PROVE  Can(R, a, b)
  <2> DEFINE T == {i \in 1 .. k : Reach(i)}
  <2>1. T \subseteq 0 .. k /\ T # {}
    BY <1>7
  <2>2. PICK i \in T : \A h \in T : h <= i
    BY <2>1, GreatestOf
  <2>3. i \in 1 .. k /\ Reach(i) /\ \A h \in 1 .. k : Reach(h) => h <= i
    BY <2>2
  <2>4. Met(i, j) /\ Covers(R[<<i, j>>], a, b)
    BY <1>5, <1>7, <2>3
  <2>5. <<i, j>> \in DOMAIN R /\ ~R[<<i, j>>].inverted
    BY <1>3, <1>4, <1>7, <2>3, <2>4
  <2>6. ASSUME NEW y \in DOMAIN R, Before(<<i, j>>, y), Covers(R[y], a, b) PROVE FALSE
    <3>1. PICK h \in 1 .. k, l \in 1 .. m : y = <<h, l>> /\ Met(h, l)
      BY <1>2
    <3>2. Reach(h) /\ Covers(perms[l], a, b)
      BY <1>5, <2>6, <3>1
    <3>3. i < h \/ (i = h /\ j < l)
      BY <2>6, <3>1 DEF Before
    <3>4. ~(i < h)
      BY <2>3, <3>2
    <3> QED
      BY <1>7, <3>2, <3>3, <3>4
  <2> QED
    BY <2>4, <2>5, <2>6 DEF Can
<1> QED
  BY <1>6, <1>7 DEF R, Reach, Allows, Reaches

\* The rules are permissions of the schema.
LEMMA EffectiveFits ==
  ASSUME AbilityTypeOK
  PROVE  \A x \in DOMAIN EffectiveRules : EffectiveRules[x] \in Permission
<1>1. PICK m \in Nat : DOMAIN Owned = 1 .. m /\ Owned \in [1 .. m -> Permission]
  BY OwnedFits
<1>2. CASE principal.type = "api_key"
  <2>1. PICK k \in Nat : DOMAIN principal.scopes = 1 .. k /\ principal.scopes \in [1 .. k -> Scope]
    BY <1>2, ScopesFit
  <2>2. PICK perms, scopes : perms = Owned /\ scopes = principal.scopes
    OBVIOUS
  <2>3. EffectiveRules = ApplyScopes(perms, scopes)
    BY <1>2, <2>2 DEF EffectiveRules
  <2>4. ASSUME NEW x \in DOMAIN ApplyScopes(perms, scopes)
        PROVE  ApplyScopes(perms, scopes)[x] \in Permission
    <3>1. x[1] \in 1 .. k /\ x[2] \in 1 .. m
          /\ ApplyScopes(perms, scopes)[x] = Narrow(scopes[x[1]], perms[x[2]])
      BY <1>1, <2>1, <2>2 DEF ApplyScopes
    <3>2. scopes[x[1]] \in Scope /\ perms[x[2]] \in Permission
      BY <1>1, <2>1, <2>2, <3>1
    <3>3. \A s \in Scope, p \in Permission : Narrow(s, p) \in Permission
      BY DEF Narrow, Scope, Permission
    <3> QED
      BY <3>1, <3>2, <3>3
  <2> QED
    BY <2>3, <2>4
<1>3. CASE principal.type # "api_key"
  <2>1. EffectiveRules = Unscoped(Owned)
    BY <1>3 DEF EffectiveRules
  <2> QED
    BY <1>1, <2>1 DEF Unscoped
<1> QED
  BY <1>2, <1>3

\* Every state of an ability: the schema, and the rules as they are built.
THEOREM AbilityInvariant == AbilitySpec => []AbilityInv
<1>1. ASSUME AbilityInit PROVE AbilityInv
  <2>1. principal \in Principal /\ granted \in SeqsUpTo(Permission, MaxPerms)
    <3>1. principal \in Principal
      BY <1>1 DEF AbilityInit, Principal
    <3>2. 0 \in 0 .. MaxPerms /\ granted \in [1 .. 0 -> Permission]
      BY <1>1, AbilityAssumption DEF AbilityInit
    <3> QED
      BY <3>1, <3>2 DEF SeqsUpTo
  <2> QED
    BY <1>1, <2>1 DEF AbilityInit, AbilityInv, AbilityTypeOK
<1>2. ASSUME AbilityInv, [AbilityNext]_abilityVars PROVE AbilityInv'
  <2>1. CASE Authenticated
    <3>1. /\ principal' \in Principal /\ granted' \in SeqsUpTo(Permission, MaxPerms)
          /\ ability' = [built |-> "no", rules |-> ability.rules]
      BY <1>2, <2>1 DEF Authenticated, AbilityInv
    <3> QED
      BY <1>2, <3>1 DEF AbilityInv, AbilityTypeOK
  <2>2. CASE CreateForUser
    <3>1. UNCHANGED <<principal, granted>> /\ EffectiveRules' = EffectiveRules
      BY <2>2 DEF CreateForUser, EffectiveRules, Owned
    <3>2. PICK rules : rules = EffectiveRules /\ \A x \in DOMAIN rules : rules[x] \in Permission
      BY <1>2, EffectiveFits DEF AbilityInv
    <3>3. CASE \E x \in DOMAIN rules : ~rules[x].resolved
      <4>1. ability' = [built |-> "error", rules |-> <<>>]
        BY <2>2, <3>2, <3>3 DEF CreateForUser
      <4> QED
        BY <1>2, <3>1, <4>1 DEF AbilityInv, AbilityTypeOK
    <3>4. CASE ~ \E x \in DOMAIN rules : ~rules[x].resolved
      <4>1. ability' = [built |-> "yes", rules |-> rules]
        BY <2>2, <3>2, <3>4 DEF CreateForUser
      <4> QED
        BY <1>2, <3>1, <3>2, <4>1 DEF AbilityInv, AbilityTypeOK
    <3> QED
      BY <3>3, <3>4
  <2>3. CASE UNCHANGED abilityVars
    BY <1>2, <2>3 DEF abilityVars, AbilityInv, AbilityTypeOK, EffectiveRules, Owned
  <2> QED
    BY <1>2, <2>1, <2>2, <2>3 DEF AbilityNext
<1> QED
  BY <1>1, <1>2, PTL DEF AbilitySpec

\* An API key may do exactly what its owner may and one of its scopes covers, for every list of
\* permissions and of scopes, in whatever order.
THEOREM KeyHolds == AbilitySpec => []KeyIsOwnerWithinScopes
<1>1. ASSUME AbilityInv PROVE KeyIsOwnerWithinScopes
  <2> SUFFICES ASSUME ability.built = "yes", NEW a \in AnyAction, NEW b \in AnySubject
               PROVE  Can(ability.rules, a, b) <=>
                        /\ Can(Unscoped(Owned), a, b)
                        /\ principal.type = "api_key" =>
                             \E i \in DOMAIN principal.scopes :
                               Usable(principal.scopes[i]) /\ Covers(principal.scopes[i], a, b)
    BY DEF KeyIsOwnerWithinScopes
  <2>t. AbilityTypeOK /\ ability.rules = EffectiveRules
    BY <1>1 DEF AbilityInv
  <2>1. CASE principal.type = "api_key"
    <3>1. PICK m \in Nat : DOMAIN Owned = 1 .. m /\ Owned \in [1 .. m -> Permission]
      BY <2>t, OwnedFits
    <3>2. PICK k \in Nat :
            DOMAIN principal.scopes = 1 .. k /\ principal.scopes \in [1 .. k -> Scope]
      BY <2>t, <2>1, ScopesFit
    <3>3. PICK perms \in [1 .. m -> Permission], scopes \in [1 .. k -> Scope] :
            perms = Owned /\ scopes = principal.scopes
      BY <3>1, <3>2
    <3>4. ability.rules = ApplyScopes(perms, scopes)
      BY <2>t, <2>1, <3>3 DEF EffectiveRules
    <3>5. Can(ApplyScopes(perms, scopes), a, b) <=>
            Allows(m, perms, a, b) /\ Reaches(k, scopes, a, b)
      BY ScopedDecides
    <3>6. Can(Unscoped(perms), a, b) <=> Allows(m, perms, a, b)
      <4>1. DOMAIN perms = 1 .. m
        OBVIOUS
      <4> QED
        BY <4>1, UnscopedDecides
    <3> QED
      BY <2>1, <3>2, <3>3, <3>4, <3>5, <3>6 DEF Reaches
  <2>2. CASE principal.type # "api_key"
    BY <2>t, <2>2 DEF EffectiveRules
  <2> QED
    BY <2>1, <2>2
<1> QED
  BY <1>1, AbilityInvariant, PTL

-----------------------------------------------------------------------------
(* AccessMC.                                                               *)

\* The components share no state: whichever of them moves, each behaves as it does alone.
LEMMA AccessCompose ==
  AccessSpec =>
    OrgSpec /\ AuthSpec /\ AbilitySpec /\ AcctSpec /\ OaSpec /\ SrSpec /\ NameSpec
<1> DEFINE vars == <<focus, orgVars, authVars, abilityVars, acctVars, oaVars, srVars, nrVars>>
<1>1. AccessInit =>
        OrgInit /\ AuthInit /\ AbilityInit /\ AcctInit /\ OaInit /\ SrInit /\ NameInit
  BY DEF AccessInit
<1>2. [AccessNext]_vars =>
        /\ [OrgNext]_orgVars /\ [AuthNext]_authVars /\ [AbilityNext]_abilityVars
        /\ [AcctNext]_acctVars /\ [OaNext]_oaVars /\ [SrNext]_srVars /\ [NameNext]_nrVars
  BY DEF AccessNext, OrganizationNext, MembershipNext
<1> QED
  BY <1>1, <1>2, PTL DEF AccessSpec, OrgSpec, AuthSpec, AbilitySpec, AcctSpec, OaSpec, SrSpec,
                         NameSpec

\* Whichever of them moves, every record keeps the shape its schema gives it.
THEOREM AccessTypesHold == AccessSpec => []AccessTypesOK
<1>1. OrgInv /\ AuthInv /\ AbilityInv /\ AcctInv /\ OaInv /\ SrInv /\ NrInv => AccessTypesOK
  BY DEF OrgInv, AuthInv, AbilityInv, AcctInv, OaInv, SrInv, NrInv, AccessTypesOK
<1> QED
  BY <1>1, AccessCompose, OrgInvariant, AuthInvariant, AbilityInvariant, AcctInvariant,
     OaInvariant, SrInvariant, NrInvariant, PTL

\* Whatever else moves, the organisation keeps its administrator, its invitations and its version.
THEOREM OrganizationStaysSound == AccessSpec => OrganizationIsSound
BY AccessCompose, OrganizationHolds, PTL

\* Whatever else moves, a race for a name, a row or an identity is settled by the database, each
\* client is told what happened, and a login is one of its flow and of the linked user.
THEOREM RacesSettle == AccessSpec => []RacesAreSettled
<1>1. RacesAreAnswered /\ OAuthIsSound => RacesAreSettled
  BY DEF RacesAreSettled
<1> QED
  BY <1>1, AccessCompose, RacesHold, OAuthHolds, PTL

=============================================================================
