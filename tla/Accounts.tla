------------------------------ MODULE Accounts ------------------------------
(***************************************************************************)
(* The account of one e-mail address: registration, login, the tokens that *)
(* are mailed to reset a password or verify the address, and the cached    *)
(* copy of the user row in Redis.                                          *)
(*                                                                         *)
(* A request reads, hashes a password for a while, and writes; a password  *)
(* is named by the order in which it was set, so that a login shows which  *)
(* one it was checked against.                                             *)
(***************************************************************************)
EXTENDS Integers, FiniteSets

CONSTANTS
  AcctRequests, \* HTTP requests in flight
  MailTokens,   \* tokens that are ever mailed
  SessionIds,   \* sessions that are ever created
  MaxPasswords  \* bound: passwords ever set

ASSUME AcctAssumption == MaxPasswords \in Nat \ {0}

VARIABLES
  user,      \* the users row of the address; password 0 is none, exists FALSE is no row
  mailed,    \* password_reset_tokens and email_verification_tokens, by token
  sessionOf, \* sessions: the password each was opened with; 0 when there is no row
  userKey,   \* auth:user in Redis: "absent", "miss", or emailVerified of the copy
  resetsBy,  \* password changes each token has made
  acctReq    \* what each request holds in memory

acctVars == <<user, mailed, sessionOf, userKey, resetsBy, acctReq>>

Password == 1 .. MaxPasswords
TokenKind == {"reset", "verify"}

AcctPc == {"idle", "register", "session", "mail", "issue", "hashing", "signOut", "invalidate",
           "verify", "fill"}

AcctRecord == [pc : AcctPc, kind : TokenKind, token : MailTokens \cup {""},
               password : 0 .. MaxPasswords, copy : {"miss", "FALSE", "TRUE"},
               andVerify : BOOLEAN]  \* register goes on to mail a verification token

AcctTypeOK ==
  /\ user \in [exists : BOOLEAN, password : 0 .. MaxPasswords, emailVerified : BOOLEAN]
  /\ mailed \in [MailTokens -> [kind : TokenKind, state : {"none", "unused", "used"}]]
  /\ sessionOf \in [SessionIds -> 0 .. MaxPasswords]
  /\ userKey \in {"absent", "miss", "FALSE", "TRUE"}
  /\ resetsBy \in [MailTokens -> Nat]
  /\ acctReq \in [AcctRequests -> AcctRecord]

AcctIdle == [pc |-> "idle", kind |-> "verify", token |-> "", password |-> 0, copy |-> "miss",
             andVerify |-> FALSE]

AcctInit ==
  /\ user = [exists |-> FALSE, password |-> 0, emailVerified |-> FALSE]
  /\ mailed = [t \in MailTokens |-> [kind |-> "verify", state |-> "none"]]
  /\ sessionOf = [s \in SessionIds |-> 0]
  /\ userKey = "absent"
  /\ resetsBy = [t \in MailTokens |-> 0]
  /\ acctReq = [p \in AcctRequests |-> AcctIdle]

AcctAt(p, pc) == acctReq[p].pc = pc
AcctGo(p, r) == acctReq' = [acctReq EXCEPT ![p] = r]
AcctEnd(p) == AcctGo(p, AcctIdle)
Latest == user.password

-----------------------------------------------------------------------------
(* Registration and login.                                                 *)

\* register finds no user, and hashes the password ...
RegisterRead(p) ==
  /\ AcctAt(p, "idle") /\ ~user.exists
  /\ AcctGo(p, [AcctIdle EXCEPT !.pc = "register"])
  /\ UNCHANGED <<user, mailed, sessionOf, userKey, resetsBy>>

\* ... and inserts the row, which the unique address refuses to the second of two; then it
\* opens a session and mails a verification token.
Register(p) ==
  /\ AcctAt(p, "register")
  /\ IF user.exists
     THEN AcctEnd(p) /\ UNCHANGED user
     ELSE /\ user' = [exists |-> TRUE, password |-> 1, emailVerified |-> FALSE]
          /\ AcctGo(p, [acctReq[p] EXCEPT !.pc = "session", !.password = 1, !.andVerify = TRUE])
  /\ UNCHANGED <<mailed, sessionOf, userKey, resetsBy>>

\* login verifies the password it is given against the row it has read ...
LoginRead(p) ==
  /\ AcctAt(p, "idle") /\ user.exists /\ user.password # 0
  /\ AcctGo(p, [AcctIdle EXCEPT !.pc = "session", !.password = user.password])
  /\ UNCHANGED <<user, mailed, sessionOf, userKey, resetsBy>>

\* ... and opens the session later, whatever has become of the password.
CreateSession(p) ==
  /\ AcctAt(p, "session")
  /\ \E s \in SessionIds :
       /\ sessionOf[s] = 0
       /\ sessionOf' = [sessionOf EXCEPT ![s] = acctReq[p].password]
  /\ IF acctReq[p].andVerify THEN AcctGo(p, [AcctIdle EXCEPT !.pc = "mail"]) ELSE AcctEnd(p)
  /\ UNCHANGED <<user, mailed, userKey, resetsBy>>

-----------------------------------------------------------------------------
(* Mailed tokens.                                                          *)

\* forgotPassword and resendVerificationEmail; an address without a user is told nothing.
AskForToken(p, kind) ==
  /\ AcctAt(p, "idle") /\ user.exists
  /\ kind = "verify" => ~user.emailVerified
  /\ AcctGo(p, [AcctIdle EXCEPT !.pc = "mail", !.kind = kind])
  /\ UNCHANGED <<user, mailed, sessionOf, userKey, resetsBy>>

\* generate...Token: the unused tokens of the kind are marked used ...
InvalidateUserTokens(p) ==
  /\ AcctAt(p, "mail")
  /\ mailed' = [t \in MailTokens |->
                  IF mailed[t] = [kind |-> acctReq[p].kind, state |-> "unused"]
                  THEN [mailed[t] EXCEPT !.state = "used"] ELSE mailed[t]]
  /\ AcctGo(p, [acctReq[p] EXCEPT !.pc = "issue"])
  /\ UNCHANGED <<user, sessionOf, userKey, resetsBy>>

\* ... and a statement later a new one is inserted and mailed.
IssueToken(p) ==
  /\ AcctAt(p, "issue")
  /\ \E t \in MailTokens :
       /\ mailed[t].state = "none"
       /\ mailed' = [mailed EXCEPT ![t] = [kind |-> acctReq[p].kind, state |-> "unused"]]
  /\ AcctEnd(p)
  /\ UNCHANGED <<user, sessionOf, userKey, resetsBy>>

TokenExpires ==
  /\ \E t \in MailTokens : mailed[t].state = "unused" /\ mailed' = [mailed EXCEPT ![t].state = "used"]
  /\ UNCHANGED <<user, sessionOf, userKey, resetsBy, acctReq>>

\* resetPassword rejects a token that is plainly spent before it hashes the password ...
ResetPasswordRead(p) ==
  /\ AcctAt(p, "idle")
  /\ \E t \in MailTokens :
       /\ mailed[t] = [kind |-> "reset", state |-> "unused"]
       /\ AcctGo(p, [AcctIdle EXCEPT !.pc = "hashing", !.token = t])
  /\ UNCHANGED <<user, mailed, sessionOf, userKey, resetsBy>>

\* Slip: the token that was read is consumed without looking at it again.
ConsumeRead(t) == TRUE

\* The compare-and-set on used and expiresAt.
ConsumeResetToken(t) == mailed[t].state = "unused"

\* ... and consumes it, sets the password and promotes the address in one transaction.
ResetPassword(p) ==
  LET t == acctReq[p].token IN
  /\ AcctAt(p, "hashing")
  /\ IF ConsumeResetToken(t)
     THEN /\ user.password < MaxPasswords
          /\ mailed' = [mailed EXCEPT ![t].state = "used"]
          /\ user' = [user EXCEPT !.password = @ + 1, !.emailVerified = TRUE]
          /\ resetsBy' = [resetsBy EXCEPT ![t] = @ + 1]
          /\ AcctGo(p, [acctReq[p] EXCEPT !.pc = "signOut"])
     ELSE AcctEnd(p) /\ UNCHANGED <<user, mailed, resetsBy>>
  /\ UNCHANGED <<sessionOf, userKey>>

\* deleteAllByUserId, after the commit.
SignOut(p) ==
  /\ AcctAt(p, "signOut")
  /\ sessionOf' = [s \in SessionIds |-> 0]
  /\ AcctGo(p, [acctReq[p] EXCEPT !.pc = "invalidate"])
  /\ UNCHANGED <<user, mailed, userKey, resetsBy>>

VerifyEmailRead(p) ==
  /\ AcctAt(p, "idle")
  /\ \E t \in MailTokens :
       /\ mailed[t] = [kind |-> "verify", state |-> "unused"]
       /\ AcctGo(p, [AcctIdle EXCEPT !.pc = "verify", !.token = t])
  /\ UNCHANGED <<user, mailed, sessionOf, userKey, resetsBy>>

\* verifyEmail marks its token used whatever has become of it: verifying twice is harmless.
VerifyEmail(p) ==
  /\ AcctAt(p, "verify")
  /\ mailed' = [mailed EXCEPT ![acctReq[p].token].state = "used"]
  /\ user' = [user EXCEPT !.emailVerified = TRUE]
  /\ AcctGo(p, [acctReq[p] EXCEPT !.pc = "invalidate"])
  /\ UNCHANGED <<sessionOf, userKey, resetsBy>>

-----------------------------------------------------------------------------
(* The cached user.                                                        *)

\* invalidateUser deletes the copy, after the commit it is about.
InvalidateUser(p) ==
  /\ AcctAt(p, "invalidate")
  /\ userKey' = "absent"
  /\ AcctEnd(p)
  /\ UNCHANGED <<user, mailed, sessionOf, resetsBy>>

Copy == IF ~user.exists THEN "miss" ELSE IF user.emailVerified THEN "TRUE" ELSE "FALSE"

\* getUser misses, takes the lock or gives up on it, and reads the row ...
FetchUser(p) ==
  /\ AcctAt(p, "idle") /\ userKey = "absent"
  /\ AcctGo(p, [AcctIdle EXCEPT !.pc = "fill", !.copy = Copy])
  /\ UNCHANGED <<user, mailed, sessionOf, userKey, resetsBy>>

\* ... and stores its copy, of a row that is not there as well.
CacheUser(p) ==
  /\ AcctAt(p, "fill")
  /\ userKey' = acctReq[p].copy
  /\ AcctEnd(p)
  /\ UNCHANGED <<user, mailed, sessionOf, resetsBy>>

UserKeyExpires ==
  /\ userKey # "absent" /\ userKey' = "absent"
  /\ UNCHANGED <<user, mailed, sessionOf, resetsBy, acctReq>>

\* A request dies between two of its statements.
AcctCrash(p) ==
  /\ ~AcctAt(p, "idle") /\ AcctEnd(p)
  /\ UNCHANGED <<user, mailed, sessionOf, userKey, resetsBy>>

AcctNext ==
  \/ TokenExpires \/ UserKeyExpires
  \/ \E p \in AcctRequests :
       \/ RegisterRead(p) \/ Register(p) \/ LoginRead(p) \/ CreateSession(p)
       \/ \E kind \in TokenKind : AskForToken(p, kind)
       \/ InvalidateUserTokens(p) \/ IssueToken(p)
       \/ ResetPasswordRead(p) \/ ResetPassword(p) \/ SignOut(p)
       \/ VerifyEmailRead(p) \/ VerifyEmail(p) \/ InvalidateUser(p)
       \/ FetchUser(p) \/ CacheUser(p) \/ AcctCrash(p)

AcctSpec == AcctInit /\ [][AcctNext]_acctVars

-----------------------------------------------------------------------------
(* Properties.                                                             *)

\* A mailed reset token sets a password at most once, however many requests have verified it
\* and are hashing, and two of them never report the same change.
ResetTokenOnce ==
  /\ \A t \in MailTokens : resetsBy[t] <= 1 /\ (resetsBy[t] = 1 => mailed[t].state = "used")
  /\ Cardinality({t \in MailTokens : resetsBy[t] = 1}) <= user.password

-----------------------------------------------------------------------------
(* What a document or a comment says and the code does not do.             *)

\* "When a password is reset, all sessions are destroyed": when no request is under way, no
\* session is left that was opened with an older password.
OldSessionsAreGone ==
  (\A p \in AcctRequests : AcctAt(p, "idle")) =>
    \A s \in SessionIds : sessionOf[s] \in {0, user.password}

\* "verifyEmail properly invalidates so the freshness contract holds": the copy of a verified
\* user does not say unverified once the invalidation is over.
VerifiedCopyIsFresh ==
  (\A p \in AcctRequests : AcctAt(p, "idle")) /\ user.emailVerified => userKey # "FALSE"
=============================================================================
