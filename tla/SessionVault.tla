---------------------------- MODULE SessionVault ----------------------------
(***************************************************************************)
(* One browser session of the web BFF: a Redis entry that keeps the token  *)
(* pair away from the browser, minted by a login, refreshed in place by    *)
(* whichever request finds the access token stale, deleted by a logout.    *)
(*                                                                         *)
(* A lease of ten seconds lets one request refresh at a time; it is        *)
(* renewed while the backend is awaited and at no other step.  A Redis     *)
(* call may throw whether or not Redis has run it, and the backend may     *)
(* rotate the refresh token for a request that has stopped listening.      *)
(*                                                                         *)
(* Refresh tokens are numbered in the order the backend gives them out.    *)
(***************************************************************************)
EXTENDS Integers, FiniteSets

CONSTANTS
  BffRequests,  \* requests of the browser that carry its session cookie
  NoBff,        \* nobody
  MaxRefreshes, \* bound: refresh tokens given out
  MaxTroubles   \* bound: lost replies, failed Redis calls and expired leases

ASSUME BffAssumption ==
  NoBff \notin BffRequests /\ MaxRefreshes \in Nat \ {0} /\ MaxTroubles \in Nat

VARIABLES
  vault,    \* web:session:v1:{sessionId}
  lease,    \* web:session:v1:{sessionId}:lock
  bff,      \* what each request holds
  login,    \* the request that logs in
  logout,   \* the request that logs out
  tokens,   \* the backend's sessions of this login
  troubles  \* things that have gone wrong

bffVars == <<vault, lease, bff, login, logout, tokens, troubles>>

Token == 0 .. MaxRefreshes
Outcome == {"none", "served", "anonymous", "unavailable"}

VaultEntry == [version : Token, refreshToken : Token, fresh : BOOLEAN]

BffRecord ==
  [pc : {"new", "locking", "reading", "calling", "writing", "deleting", "latest", "releasing", "done"},
   seen : VaultEntry,                                     \* the entry it read last
   call : {"none", "sent", "ok", "refused", "lost"},      \* its call of the backend's refresh
   next : Token,                                          \* the token that call brought
   outcome : Outcome]

BffTypeOK ==
  /\ vault \in VaultEntry
  /\ lease \in BffRequests \cup {NoBff}
  /\ bff \in [BffRequests -> BffRecord]
  /\ login \in {"out", "granted", "in", "failed"}
  /\ logout \in [pc : {"new", "both", "done"}, token : Token,
                 backend : {"open", "over"}, entry : {"open", "deleted", "over"}]
  /\ tokens \in [issued : Token, live : Token, gone : SUBSET Token, reused : BOOLEAN]
  /\ troubles \in 0 .. MaxTroubles

\* Versions start at 1: version 0 is a session without an entry.
NoEntry == [version |-> 0, refreshToken |-> 0, fresh |-> FALSE]
VaultHeld == vault.version > 0

BffInit ==
  /\ vault = NoEntry
  /\ lease = NoBff
  /\ bff = [p \in BffRequests |->
              [pc |-> "new", seen |-> NoEntry, call |-> "none", next |-> 0, outcome |-> "none"]]
  /\ login = "out"
  /\ logout = [pc |-> "new", token |-> 0, backend |-> "open", entry |-> "open"]
  /\ tokens = [issued |-> 0, live |-> 0, gone |-> {}, reused |-> FALSE]
  /\ troubles = 0

BffAt(p, pc) == bff[p].pc = pc
BffGo(p, r) == bff' = [bff EXCEPT ![p] = r]
End(p, pc, outcome) == BffGo(p, [bff[p] EXCEPT !.pc = pc, !.outcome = outcome])
Trouble == troubles < MaxTroubles /\ troubles' = troubles + 1

\* Whose request it is decides only the form of the answer: a proxied call and the sessions
\* pages say 401 or 503; the pages' data layer renders an anonymous page or fails.
Serve(p, pc) == End(p, pc, "served")
Reject(p, pc) == End(p, pc, "anonymous")
GiveUp(p, pc) == End(p, pc, "unavailable")

-----------------------------------------------------------------------------
(* Login.                                                                  *)

\* handleCredentialAuth and handleOAuthExchange: the backend opens a session.
BrowserSignsIn ==
  /\ login = "out"
  /\ login' = "granted"
  /\ tokens' = [tokens EXCEPT !.issued = 1, !.live = 1]
  /\ UNCHANGED <<vault, lease, bff, logout, troubles>>

\* mintSession; when it throws, the session stays at the backend and nobody has its token.
MintSession ==
  /\ login = "granted"
  /\ \/ /\ vault' = [version |-> 1, refreshToken |-> 1, fresh |-> TRUE]
        /\ login' = "in"
        /\ UNCHANGED troubles
     \/ Trouble /\ login' = "failed" /\ UNCHANGED vault
  /\ UNCHANGED <<lease, bff, logout, tokens>>

-----------------------------------------------------------------------------
(* ensureFreshSession.                                                     *)

\* The first read, without the lock.
GetEntry(p) ==
  /\ BffAt(p, "new") /\ login = "in"
  /\ \/ ~VaultHeld /\ Reject(p, "done") /\ UNCHANGED troubles
     \/ VaultHeld /\ vault.fresh /\ Serve(p, "done") /\ UNCHANGED troubles
     \/ /\ VaultHeld /\ ~vault.fresh
        /\ BffGo(p, [bff[p] EXCEPT !.pc = "locking", !.seen = vault])
        /\ UNCHANGED troubles
     \/ Trouble /\ GiveUp(p, "done")
  /\ UNCHANGED <<vault, lease, login, logout, tokens>>

\* acquireBlocking: ten attempts, then 503.  A failed call may have taken the lease.
AcquireLease(p) ==
  /\ BffAt(p, "locking")
  /\ \/ /\ lease = NoBff
        /\ lease' = p
        /\ BffGo(p, [bff[p] EXCEPT !.pc = "reading"])
        /\ UNCHANGED troubles
     \/ lease # NoBff /\ GiveUp(p, "done") /\ UNCHANGED <<lease, troubles>>
     \/ Trouble /\ GiveUp(p, "done") /\ lease' \in {lease, IF lease = NoBff THEN p ELSE lease}
  /\ UNCHANGED <<vault, login, logout, tokens>>

\* Slip: the refresh trusts the entry it read before it had the lock.
FirstRead(p) == bff[p].seen

\* refreshUnderLock reads again: another request may have refreshed or deleted the entry.
SecondRead(p) == vault

ReadUnderLease(p) ==
  LET entry == SecondRead(p) IN
  /\ BffAt(p, "reading")
  /\ \/ entry = NoEntry /\ Reject(p, "releasing") /\ UNCHANGED troubles
     \/ entry.fresh /\ Serve(p, "releasing") /\ UNCHANGED troubles
     \/ /\ entry # NoEntry /\ ~entry.fresh
        /\ BffGo(p, [bff[p] EXCEPT !.pc = "calling", !.seen = entry, !.call = "sent"])
        /\ UNCHANGED troubles
     \/ Trouble /\ GiveUp(p, "releasing")
  /\ UNCHANGED <<vault, lease, login, logout, tokens>>

\* The backend's refresh: a live token is rotated, a rotated one revokes its family, unless the
\* revocation is rolled back with the transaction that found it; a deleted one is unknown.
RotateAtBackend(p) ==
  LET t == bff[p].seen.refreshToken
      answer(call, n) == BffGo(p, [bff[p] EXCEPT !.call = call, !.next = n])
      new == tokens.issued + 1
  IN /\ bff[p].call = "sent"
     /\ IF t = tokens.live
        THEN /\ new \in Token
             /\ answer("ok", new)
             /\ tokens' = [tokens EXCEPT !.issued = new, !.live = new]
        ELSE /\ answer("refused", 0)
             /\ IF t \in tokens.gone THEN UNCHANGED tokens
                ELSE \E l \in {0, tokens.live} :
                       tokens' = [tokens EXCEPT !.live = l, !.reused = TRUE]
     /\ UNCHANGED <<vault, lease, login, logout, troubles>>

\* The call fails with neither an answer nor a 401, before or after the backend rotated.
LoseReply(p) ==
  /\ BffAt(p, "calling") /\ bff[p].call \in {"sent", "ok"}
  /\ Trouble
  /\ BffGo(p, [bff[p] EXCEPT !.call = "lost"])
  /\ UNCHANGED <<vault, lease, login, logout, tokens>>

\* performRefresh takes up the answer; only an invalid token costs the session.
TakeAnswer(p) ==
  /\ BffAt(p, "calling")
  /\ \/ bff[p].call = "ok" /\ BffGo(p, [bff[p] EXCEPT !.pc = "writing"])
     \/ bff[p].call = "refused" /\ BffGo(p, [bff[p] EXCEPT !.pc = "deleting"])
     \/ bff[p].call = "lost" /\ GiveUp(p, "releasing")
  /\ UNCHANGED <<vault, lease, login, logout, tokens, troubles>>

\* startLockRenewal rejects: the lease is another's, or the ceiling of thirty seconds is reached.
RenewalFails(p) ==
  /\ BffAt(p, "calling")
  /\ BffGo(p, [bff[p] EXCEPT !.pc = "deleting"])
  /\ UNCHANGED <<vault, lease, login, logout, tokens, troubles>>

\* store.delete after a refusal or an unsafe refresh: whatever entry is there.
DropEntry(p) ==
  /\ BffAt(p, "deleting")
  /\ \/ vault' = NoEntry /\ Reject(p, "releasing") /\ UNCHANGED troubles
     \/ Trouble /\ GiveUp(p, "releasing") /\ vault' \in {vault, NoEntry}
  /\ UNCHANGED <<lease, login, logout, tokens>>

\* Slip: a plain SET, or one that takes a missing entry for an old one.
MatchesOrMissing(p) == vault.version \in {0, bff[p].seen.version}

\* CAS_SET_SCRIPT writes only over the version that was read.
VersionMatches(p) == VaultHeld /\ vault.version = bff[p].seen.version

SetIfVersionMatches(p) ==
  LET next == [version |-> bff[p].seen.version + 1, refreshToken |-> bff[p].next, fresh |-> TRUE]
      write == IF VersionMatches(p) THEN next ELSE vault
  IN /\ BffAt(p, "writing")
     /\ \/ /\ vault' = write
           /\ IF VersionMatches(p) THEN Serve(p, "releasing")
              ELSE BffGo(p, [bff[p] EXCEPT !.pc = "latest"])
           /\ UNCHANGED troubles
        \/ Trouble /\ GiveUp(p, "releasing") /\ vault' \in {vault, write}
     /\ UNCHANGED <<lease, login, logout, tokens>>

\* A lost CAS serves whatever entry is there now.
ReadLatest(p) ==
  /\ BffAt(p, "latest")
  /\ \/ ~VaultHeld /\ Reject(p, "releasing") /\ UNCHANGED troubles
     \/ VaultHeld /\ Serve(p, "releasing") /\ UNCHANGED troubles
     \/ Trouble /\ GiveUp(p, "releasing")
  /\ UNCHANGED <<vault, lease, login, logout, tokens>>

\* release in `finally`, by token; its failure replaces the answer.
ReleaseLease(p) ==
  LET freed == IF lease = p THEN NoBff ELSE lease IN
  /\ BffAt(p, "releasing")
  /\ \/ lease' = freed /\ End(p, "done", bff[p].outcome) /\ UNCHANGED troubles
     \/ Trouble /\ GiveUp(p, "done") /\ lease' \in {lease, freed}
  /\ UNCHANGED <<vault, login, logout, tokens>>

-----------------------------------------------------------------------------
(* Logout: reads the entry, then calls the backend and deletes the entry   *)
(* side by side.  Every failure is logged, and the answer is the same.     *)

ReadForLogout ==
  /\ logout.pc = "new" /\ login = "in"
  /\ \/ /\ VaultHeld
        /\ logout' = [logout EXCEPT !.pc = "both", !.token = vault.refreshToken]
        /\ UNCHANGED troubles
     \/ ~VaultHeld /\ logout' = [logout EXCEPT !.pc = "done"] /\ UNCHANGED troubles
     \/ Trouble /\ logout' = [logout EXCEPT !.pc = "done"]
  /\ UNCHANGED <<vault, lease, bff, login, tokens>>

\* The backend deletes the row of that token, live or not.
CallBackendLogout ==
  LET t == logout.token IN
  /\ logout.pc = "both" /\ logout.backend = "open"
  /\ logout' = [logout EXCEPT !.backend = "over"]
  /\ \/ /\ tokens' = [tokens EXCEPT !.gone = @ \cup {t}, !.live = IF @ = t THEN 0 ELSE @]
        /\ UNCHANGED troubles
     \/ Trouble /\ UNCHANGED tokens
  /\ UNCHANGED <<vault, lease, bff, login>>

DeleteVaultEntry ==
  /\ logout.pc = "both" /\ logout.entry = "open"
  /\ \/ vault' = NoEntry /\ logout' = [logout EXCEPT !.entry = "deleted"] /\ UNCHANGED troubles
     \/ Trouble /\ logout' = [logout EXCEPT !.entry = "over"] /\ vault' \in {vault, NoEntry}
  /\ UNCHANGED <<lease, bff, login, tokens>>

ClearCookie ==
  /\ logout.pc = "both" /\ logout.backend # "open" /\ logout.entry # "open"
  /\ logout' = [logout EXCEPT !.pc = "done"]
  /\ UNCHANGED <<vault, lease, bff, login, tokens, troubles>>

-----------------------------------------------------------------------------
(* Time and the rest of the world.                                         *)

\* The access token comes within the safety margin of its end.
AccessTokenAges ==
  /\ VaultHeld /\ vault.fresh
  /\ vault' = [vault EXCEPT !.fresh = FALSE]
  /\ UNCHANGED <<lease, bff, login, logout, tokens, troubles>>

\* The lease runs out: a trouble only for a holder that is still at work.
RefreshLockExpires ==
  /\ lease # NoBff
  /\ lease' = NoBff
  /\ IF BffAt(lease, "done") THEN UNCHANGED troubles ELSE Trouble
  /\ UNCHANGED <<vault, bff, login, logout, tokens>>

\* The session is revoked from another device.
RevokedElsewhere ==
  /\ tokens.live > 0 /\ login = "in"
  /\ tokens' = [tokens EXCEPT !.gone = @ \cup {tokens.live}, !.live = 0]
  /\ UNCHANGED <<vault, lease, bff, login, logout, troubles>>

BffNext ==
  \/ BrowserSignsIn \/ MintSession
  \/ ReadForLogout \/ CallBackendLogout \/ DeleteVaultEntry \/ ClearCookie
  \/ AccessTokenAges \/ RefreshLockExpires \/ RevokedElsewhere
  \/ \E p \in BffRequests :
       \/ GetEntry(p) \/ AcquireLease(p) \/ ReadUnderLease(p) \/ RotateAtBackend(p) \/ LoseReply(p)
       \/ TakeAnswer(p) \/ RenewalFails(p) \/ DropEntry(p) \/ SetIfVersionMatches(p)
       \/ ReadLatest(p) \/ ReleaseLease(p)

BffSpec == BffInit /\ [][BffNext]_bffVars

-----------------------------------------------------------------------------
\* A browser that was told 401, or whose logout deleted the entry, finds no session under its
\* cookie: no refresh that was under way puts the entry back (logout-handler.ts,
\* auth-failure-response.ts, CAS_SET_SCRIPT of session-vault-store.ts).
GoodbyeIsFinal ==
  \/ \E p \in BffRequests : bff[p].outcome = "anonymous"
  \/ logout.entry = "deleted"
  => ~VaultHeld

\* The backend sees a used refresh token only after a lease, a reply or a Redis call was lost:
\* requests that merely overlap never cost the user the session (single flight of
\* ensure-fresh-session.ts).
OverlapIsNotReuse == tokens.reused => troubles > 0

\* What the versioned entry and the refresh lock are for.
VaultIsSound == GoodbyeIsFinal /\ OverlapIsNotReuse

=============================================================================
