---------------------------- MODULE Authorization ----------------------------
(***************************************************************************)
(* How a request of one user in one organisation gets its permissions: by  *)
(* a JWT or an API key, over the ACL-version cache and the permission      *)
(* cache in Redis, beside mutations that move the version and invalidate   *)
(* the first cache after their commit.                                     *)
(*                                                                         *)
(* Every mutation changes what the user may do and bumps the version in    *)
(* one transaction (Organization!AclCoversChange), so the permissions the  *)
(* database holds are named by its version.                                *)
(***************************************************************************)
EXTENDS Integers

CONSTANTS
  AuthRequests,  \* HTTP requests in flight
  NoAuthRequest, \* a lock nobody holds
  MaxMutations   \* bound: ACL mutations

ASSUME AuthAssumption == NoAuthRequest \notin AuthRequests /\ MaxMutations \in Nat

VARIABLES
  dbVersion,   \* organizations.aclVersion, and the permissions that go with it
  dbContent,   \* the mutation whose permissions the database holds
  isMember,    \* the org_members row
  keyRow,      \* the api_keys row: "none", "live", "revoked"
  verKey,      \* auth:org:aclv in Redis; 0 when absent
  permKey,     \* auth:perm of each version in Redis: the permissions stored; 0 when absent
  permLock,    \* auth:lock:perm
  dels,        \* mutations that have committed and not yet invalidated the version
  settled,     \* the last mutation that is known to have invalidated the version
  authReq,     \* what each request holds in memory
  touching     \* touchLastUsed is running in the background

authVars == <<dbVersion, dbContent, isMember, keyRow, verKey, permKey, permLock, dels, settled,
              authReq, touching>>

Versions == 1 .. MaxMutations + 1

AuthRecord == [pc : {"idle", "jwt", "apiKey", "cacheValue", "perms", "load", "store", "granted"},
               kind : {"jwt", "api_key"}, version : Versions \cup {0}, got : Versions \cup {0},
               from : Versions,     \* mutations settled when the request began
               revoked : BOOLEAN]   \* the key was revoked before the request began

AuthTypeOK ==
  /\ dbVersion \in Versions /\ dbContent \in Versions
  /\ isMember \in BOOLEAN
  /\ keyRow \in {"none", "live", "revoked"}
  /\ verKey \in Versions \cup {0}
  /\ permKey \in [Versions -> Versions \cup {0}]
  /\ permLock \in AuthRequests \cup {NoAuthRequest}
  /\ dels \subseteq Versions
  /\ settled \in Versions
  /\ authReq \in [AuthRequests -> AuthRecord]
  /\ touching \in BOOLEAN

AuthIdle == [pc |-> "idle", kind |-> "jwt", version |-> 0, got |-> 0, from |-> 1, revoked |-> FALSE]

AuthInit ==
  /\ dbVersion = 1 /\ dbContent = 1 /\ isMember = TRUE /\ keyRow = "none"
  /\ verKey = 0 /\ permKey = [v \in Versions |-> 0] /\ permLock = NoAuthRequest
  /\ dels = {} /\ settled = 1
  /\ authReq = [p \in AuthRequests |-> AuthIdle]
  /\ touching = FALSE

db == <<dbVersion, dbContent, isMember, keyRow>>
cache == <<verKey, permKey, permLock>>

-----------------------------------------------------------------------------
(* Mutations.                                                              *)

\* Slip: the version is bumped by a statement of its own, before the change.
BumpThenChange ==
  \/ /\ dbVersion = dbContent /\ dbVersion <= MaxMutations
     /\ dbVersion' = dbVersion + 1 /\ UNCHANGED <<dbContent, dels>>
  \/ /\ dbContent < dbVersion /\ dbContent' = dbVersion /\ dels' = dels \cup {dbVersion}
     /\ UNCHANGED dbVersion

\* Change and bump commit together; the version key is deleted afterwards.
CommitChange ==
  /\ dbVersion <= MaxMutations
  /\ dbVersion' = dbVersion + 1 /\ dbContent' = dbVersion + 1
  /\ dels' = dels \cup {dbVersion + 1}

\* The member is removed, or rejoins by an invitation; any other mutation leaves the seat.
MutateAcl ==
  /\ CommitChange
  /\ isMember' \in BOOLEAN
  /\ UNCHANGED <<keyRow, cache, settled, authReq, touching>>

\* invalidate: a failed DEL is logged and does not fail the request.
Invalidate ==
  /\ \E n \in dels :
       /\ dels' = dels \ {n}
       /\ \/ verKey' = 0 /\ settled' = IF n > settled THEN n ELSE settled
          \/ UNCHANGED <<verKey, settled>>
  /\ UNCHANGED <<db, permKey, permLock, authReq, touching>>

\* ApiKeysService.create: only a member may.
CreateKey ==
  /\ keyRow = "none" /\ isMember
  /\ keyRow' = "live"
  /\ UNCHANGED <<dbVersion, dbContent, isMember, cache, dels, settled, authReq, touching>>

\* revoke deletes the row.
RevokeKey ==
  /\ keyRow = "live" /\ keyRow' = "revoked"
  /\ UNCHANGED <<dbVersion, dbContent, isMember, cache, dels, settled, authReq, touching>>

\* Slip: the row is written whether or not it is still there.
UpsertLastUsed == keyRow' = IF keyRow = "revoked" THEN "live" ELSE keyRow

\* An update of a row that is gone is an error, which is swallowed.
UpdateLastUsed == UNCHANGED keyRow

TouchLastUsed ==
  /\ touching /\ touching' = FALSE
  /\ UpdateLastUsed
  /\ UNCHANGED <<dbVersion, dbContent, isMember, cache, dels, settled, authReq>>

-----------------------------------------------------------------------------
(* A request.                                                              *)

AuthAt(p, pc) == authReq[p].pc = pc
AuthSet(p, r) == authReq' = [authReq EXCEPT ![p] = r]
Unlock(p) == permLock' = IF permLock = p THEN NoAuthRequest ELSE permLock

\* canActivate: the credential says which guard takes the request.
Receive(p) ==
  /\ AuthAt(p, "idle")
  /\ \E k \in {"jwt", "api_key"} :
       AuthSet(p, [AuthIdle EXCEPT !.pc = IF k = "jwt" THEN "jwt" ELSE "apiKey", !.kind = k,
                                   !.from = settled, !.revoked = (keyRow = "revoked")])
  /\ UNCHANGED <<db, cache, dels, settled, touching>>

\* ApiKeyGuard reads the key, then its membership with the current version.  A key that is
\* not there, or whose owner is no member, is refused.
ApiKeyGuard(p) ==
  /\ AuthAt(p, "apiKey")
  /\ IF keyRow = "live" /\ isMember
     THEN /\ AuthSet(p, [authReq[p] EXCEPT !.pc = "perms", !.version = dbVersion])
          /\ touching' = TRUE
     ELSE AuthSet(p, AuthIdle) /\ UNCHANGED touching
  /\ UNCHANGED <<db, cache, dels, settled>>

\* getCurrent answers from Redis ...
GetCurrent(p) ==
  /\ AuthAt(p, "jwt") /\ verKey # 0
  /\ AuthSet(p, [authReq[p] EXCEPT !.pc = "perms", !.version = verKey])
  /\ UNCHANGED <<db, cache, dels, settled, touching>>

\* ... or from the database, when the key is absent, corrupt or Redis fails ...
GetCurrentFromDb(p) ==
  /\ AuthAt(p, "jwt")
  /\ AuthSet(p, [authReq[p] EXCEPT !.pc = "cacheValue", !.version = dbVersion])
  /\ UNCHANGED <<db, cache, dels, settled, touching>>

\* ... and stores what it has read, unless that write fails.
CacheValue(p) ==
  /\ AuthAt(p, "cacheValue")
  /\ verKey' \in {verKey, authReq[p].version}
  /\ AuthSet(p, [authReq[p] EXCEPT !.pc = "perms"])
  /\ UNCHANGED <<db, permKey, permLock, dels, settled, touching>>

ReadPermissionsCache(p) ==
  LET c == permKey[authReq[p].version] IN
  /\ AuthAt(p, "perms") /\ c # 0
  /\ AuthSet(p, [authReq[p] EXCEPT !.pc = "granted", !.got = c])
  /\ UNCHANGED <<db, cache, dels, settled, touching>>

\* A miss loads under the lock, or without it when it stays taken for five attempts.
GetPermissions(p) ==
  /\ AuthAt(p, "perms") /\ permKey[authReq[p].version] = 0
  /\ permLock' = IF permLock = NoAuthRequest THEN p ELSE permLock
  /\ AuthSet(p, [authReq[p] EXCEPT !.pc = "load"])
  /\ UNCHANGED <<db, verKey, permKey, dels, settled, touching>>

LoadPermissionsFromDb(p) ==
  /\ AuthAt(p, "load")
  /\ AuthSet(p, [authReq[p] EXCEPT !.pc = "store", !.got = dbContent])
  /\ UNCHANGED <<db, cache, dels, settled, touching>>

\* A failed SET fails the request.
FetchAndCachePermissions(p) ==
  /\ AuthAt(p, "store")
  /\ \/ /\ permKey' = [permKey EXCEPT ![authReq[p].version] = authReq[p].got]
        /\ AuthSet(p, [authReq[p] EXCEPT !.pc = "granted"])
     \/ AuthSet(p, AuthIdle) /\ UNCHANGED permKey
  /\ Unlock(p)
  /\ UNCHANGED <<db, verKey, dels, settled, touching>>

\* The policies are decided from got; then the handler runs.
Respond(p) ==
  /\ AuthAt(p, "granted") /\ AuthSet(p, AuthIdle)
  /\ UNCHANGED <<db, cache, dels, settled, touching>>

\* Keys expire or are evicted, and the five seconds of the lock pass.
CacheExpires ==
  /\ \/ verKey' = 0 /\ UNCHANGED <<permKey, permLock>>
     \/ \E v \in Versions : permKey' = [permKey EXCEPT ![v] = 0] /\ UNCHANGED <<verKey, permLock>>
     \/ permLock' = NoAuthRequest /\ UNCHANGED <<verKey, permKey>>
  /\ UNCHANGED <<db, dels, settled, authReq, touching>>

AuthNext ==
  \/ MutateAcl \/ Invalidate \/ CreateKey \/ RevokeKey \/ TouchLastUsed \/ CacheExpires
  \/ \E p \in AuthRequests :
       \/ Receive(p) \/ ApiKeyGuard(p) \/ GetCurrent(p) \/ GetCurrentFromDb(p) \/ CacheValue(p)
       \/ ReadPermissionsCache(p) \/ GetPermissions(p) \/ LoadPermissionsFromDb(p)
       \/ FetchAndCachePermissions(p) \/ Respond(p)

AuthSpec == AuthInit /\ [][AuthNext]_authVars

-----------------------------------------------------------------------------
(* Properties.                                                             *)

\* Whatever a slow fill stores and however it races with mutations, permissions cached for a
\* version are never older than the version, so nobody who knows the version is given less.
PermsNotOlderThanKey ==
  /\ \A v \in Versions : permKey[v] # 0 => permKey[v] >= v
  /\ \A p \in AuthRequests : AuthAt(p, "granted") => authReq[p].got >= authReq[p].version

\* A request by API key is decided by permissions at least as new as every mutation that was
\* over when it began, and a key revoked before it began opens nothing, although uses of the
\* key are still being recorded.
KeyRequestIsFresh ==
  \A p \in AuthRequests : AuthAt(p, "granted") /\ authReq[p].kind = "api_key" =>
    authReq[p].got >= authReq[p].from /\ ~authReq[p].revoked

\* Freshness, as far as the code promises it: both of the above.
AuthorizationIsSound == PermsNotOlderThanKey /\ KeyRequestIsFresh

-----------------------------------------------------------------------------
(* What a document says and the code does not do.                          *)

\* "Permission changes take effect on the next request", of a user with a JWT too.
NextRequestIsFresh ==
  \A p \in AuthRequests : AuthAt(p, "granted") => authReq[p].got >= authReq[p].from
=============================================================================
