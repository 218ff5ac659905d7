--------------------------- MODULE AttemptLimiter ---------------------------
(***************************************************************************)
(* The four limiters that count attempts in the shared cache: failed       *)
(* logins, API keys and invite acceptances, and every invitation.  Each    *)
(* keeps a narrow counter per identity and a wide one per source, and each *)
(* counts with a get and a set, between which others get and set.          *)
(*                                                                         *)
(*            narrow               wide            a success resets        *)
(*   login    address and IP       IP              both, and the lockout   *)
(*   apiKey   fingerprint          IP              the narrow counter      *)
(*   accept   token fingerprint    IP              the narrow counter      *)
(*   invite   organisation, email  inviter         nothing: it counts all  *)
(***************************************************************************)
EXTENDS Integers, FiniteSets

CONSTANTS
  Attempters,  \* requests, all from one source
  Targets,     \* identities they are about
  NarrowMax,   \* USER_IP_MAX, FINGERPRINT_MAX, PAIR_MAX
  WideMax,     \* IP_MAX, INVITER_MAX
  MaxCounted   \* bound: attempts that are counted

ASSUME LimiterAssumption ==
  /\ IsFiniteSet(Attempters) /\ Targets # {}
  /\ NarrowMax \in Nat \ {0} /\ WideMax \in Nat \ {0} /\ MaxCounted \in Nat

VARIABLES
  limiter, \* the limiter the behaviour follows
  wide,    \* its counters in the cache; an absent one reads as 0
  narrow,
  lockout, \* identities with a rate:login_blocked key
  attempt, \* what each request holds
  counted, \* per identity: attempts that were to be counted
  total    \* and all of them

limiterVars == <<limiter, wide, narrow, lockout, attempt, counted, total>>

LimiterKind == {"login", "apiKey", "accept", "invite"}
AttemptPc == {"idle", "check", "attempt", "wideGet", "wideSet", "narrowGet", "narrowSet", "block",
              "resetWide", "resetNarrow", "resetBlock"}

LimiterTypeOK ==
  /\ limiter \in LimiterKind \cup {"none"}
  /\ wide \in 0 .. MaxCounted /\ narrow \in [Targets -> 0 .. MaxCounted]
  /\ lockout \subseteq Targets
  /\ attempt \in [Attempters -> [pc : AttemptPc, target : Targets, count : 0 .. MaxCounted]]
  /\ counted \in [Targets -> 0 .. MaxCounted] /\ total \in 0 .. MaxCounted

LimiterInit ==
  /\ limiter = "none"
  /\ wide = 0 /\ narrow = [i \in Targets |-> 0] /\ lockout = {}
  /\ attempt = [p \in Attempters |->
                  [pc |-> "idle", target |-> CHOOSE i \in Targets : TRUE, count |-> 0]]
  /\ counted = [i \in Targets |-> 0] /\ total = 0

AttemptAt(p, pc) == attempt[p].pc = pc
AttemptGo(p, pc) == attempt' = [attempt EXCEPT ![p].pc = pc]
AttemptRead(p, pc, n) == attempt' = [attempt EXCEPT ![p].pc = pc, ![p].count = n + 1]

ChooseLimiter(k) ==
  /\ limiter = "none" /\ limiter' = k
  /\ UNCHANGED <<wide, narrow, lockout, attempt, counted, total>>

-----------------------------------------------------------------------------
(* check: two reads, then the attempt itself.                              *)

\* The lockout of a login; for the others, the wide counter.
CheckFirst(p) ==
  /\ limiter # "none" /\ AttemptAt(p, "idle")
  /\ \E i \in Targets :
       /\ IF limiter = "login" THEN i \notin lockout ELSE wide < WideMax
       /\ attempt' = [attempt EXCEPT ![p].pc = "check", ![p].target = i]
  /\ UNCHANGED <<limiter, wide, narrow, lockout, counted, total>>

\* The wide counter of a login; for the others, the narrow one.  A request at its limit is
\* refused, and counts for nothing.
CheckSecond(p) ==
  /\ AttemptAt(p, "check")
  /\ IF limiter = "login" THEN wide < WideMax ELSE narrow[attempt[p].target] < NarrowMax
  /\ AttemptGo(p, "attempt")
  /\ UNCHANGED <<limiter, wide, narrow, lockout, counted, total>>

Refused(p) ==
  /\ AttemptAt(p, "check")
  /\ IF limiter = "login" THEN wide >= WideMax ELSE narrow[attempt[p].target] >= NarrowMax
  /\ AttemptGo(p, "idle")
  /\ UNCHANGED <<limiter, wide, narrow, lockout, counted, total>>

\* The attempt fails and is counted, or succeeds and resets; every invitation is counted.
Attempted(p) ==
  /\ AttemptAt(p, "attempt")
  /\ \/ /\ total < MaxCounted /\ total' = total + 1
        /\ AttemptGo(p, "wideGet")
        /\ counted' = [counted EXCEPT ![attempt[p].target] = @ + 1]
     \/ /\ limiter # "invite"
        /\ AttemptGo(p, IF limiter = "login" THEN "resetWide" ELSE "resetNarrow")
        /\ UNCHANGED <<counted, total>>
  /\ UNCHANGED <<limiter, wide, narrow, lockout>>

-----------------------------------------------------------------------------
(* consume: get, set, get, set.                                            *)

WideGet(p) ==
  /\ AttemptAt(p, "wideGet") /\ AttemptRead(p, "wideSet", wide)
  /\ UNCHANGED <<limiter, wide, narrow, lockout, counted, total>>

WideSet(p) ==
  /\ AttemptAt(p, "wideSet") /\ wide' = attempt[p].count /\ AttemptGo(p, "narrowGet")
  /\ UNCHANGED <<limiter, narrow, lockout, counted, total>>

\* Slip: the second counter goes on from the first.
ReadWide(p) == wide

\* Each counter is read under its own key.
ReadNarrow(p) == narrow[attempt[p].target]

NarrowGet(p) ==
  /\ AttemptAt(p, "narrowGet") /\ ReadNarrow(p) < MaxCounted
  /\ AttemptRead(p, "narrowSet", ReadNarrow(p))
  /\ UNCHANGED <<limiter, wide, narrow, lockout, counted, total>>

NarrowSet(p) ==
  /\ AttemptAt(p, "narrowSet")
  /\ narrow' = [narrow EXCEPT ![attempt[p].target] = attempt[p].count]
  /\ AttemptGo(p, IF limiter = "login" /\ attempt[p].count >= NarrowMax THEN "block" ELSE "idle")
  /\ UNCHANGED <<limiter, wide, lockout, counted, total>>

SetBlock(p) ==
  /\ AttemptAt(p, "block")
  /\ lockout' = lockout \cup {attempt[p].target} /\ AttemptGo(p, "idle")
  /\ UNCHANGED <<limiter, wide, narrow, counted, total>>

-----------------------------------------------------------------------------
(* reset, and the end of a key.                                            *)

ResetWide(p) ==
  /\ AttemptAt(p, "resetWide") /\ wide' = 0 /\ AttemptGo(p, "resetNarrow")
  /\ UNCHANGED <<limiter, narrow, lockout, counted, total>>

ResetNarrow(p) ==
  /\ AttemptAt(p, "resetNarrow") /\ narrow' = [narrow EXCEPT ![attempt[p].target] = 0]
  /\ AttemptGo(p, IF limiter = "login" THEN "resetBlock" ELSE "idle")
  /\ UNCHANGED <<limiter, wide, lockout, counted, total>>

ResetBlock(p) ==
  /\ AttemptAt(p, "resetBlock") /\ lockout' = lockout \ {attempt[p].target} /\ AttemptGo(p, "idle")
  /\ UNCHANGED <<limiter, wide, narrow, counted, total>>

\* A key expires, or is evicted.
LimiterKeyGone ==
  /\ \/ wide # 0 /\ wide' = 0 /\ UNCHANGED <<narrow, lockout>>
     \/ /\ \E i \in Targets : narrow[i] # 0 /\ narrow' = [narrow EXCEPT ![i] = 0]
        /\ UNCHANGED <<wide, lockout>>
     \/ \E i \in lockout : lockout' = lockout \ {i} /\ UNCHANGED <<wide, narrow>>
  /\ UNCHANGED <<limiter, attempt, counted, total>>

\* The request dies, or the cache does not answer it.
AttemptEnds(p) ==
  /\ ~AttemptAt(p, "idle") /\ AttemptGo(p, "idle")
  /\ UNCHANGED <<limiter, wide, narrow, lockout, counted, total>>

LimiterNext ==
  \/ LimiterKeyGone
  \/ \E k \in LimiterKind : ChooseLimiter(k)
  \/ \E p \in Attempters :
       \/ CheckFirst(p) \/ CheckSecond(p) \/ Refused(p) \/ Attempted(p)
       \/ WideGet(p) \/ WideSet(p) \/ NarrowGet(p) \/ NarrowSet(p) \/ SetBlock(p)
       \/ ResetWide(p) \/ ResetNarrow(p) \/ ResetBlock(p) \/ AttemptEnds(p)

LimiterSpec == LimiterInit /\ [][LimiterNext]_limiterVars

-----------------------------------------------------------------------------
(* Properties.                                                             *)

\* Lost updates only let more through: no identity's counter exceeds the attempts about it, and
\* none is locked out before NarrowMax of its own have failed, whoever else counts or resets.
LockoutIsEarned ==
  /\ wide <= total
  /\ \A i \in Targets :
       /\ narrow[i] <= counted[i]
       /\ i \in lockout => counted[i] >= NarrowMax
=============================================================================
