----------------------------- MODULE Throttling -----------------------------
(***************************************************************************)
(* The throttler of one route and client: a counter and a block in Redis,  *)
(* moved by one script, which every replica calls.                         *)
(*                                                                         *)
(* Time is the clock of Redis; keys expire by themselves.                  *)
(***************************************************************************)
EXTENDS Integers

CONSTANTS
  Ttl,       \* the window of the counter
  Limit,     \* requests in a window
  BlockFor,  \* blockDuration
  LastTick   \* bound: the clock

ASSUME ThrottleAssumption ==
  {Ttl, BlockFor} \subseteq Nat \ {0} /\ {Limit, LastTick} \subseteq Nat

VARIABLES
  now,     \* Redis's clock
  hits,    \* throttle:v1:{name}:{key}: the count, 0 when there is no key,
  hitsEnd, \* and when it expires
  blockEnd,\* throttle:v1:{name}:{key}:block: when it expires, 0 when there is no key
  passed   \* requests Redis has let pass since the counter began

throttleVars == <<now, hits, hitsEnd, blockEnd, passed>>

MaxEnd == LastTick + Ttl + BlockFor

ThrottleTypeOK ==
  /\ now \in 0 .. LastTick
  /\ hits \in 0 .. Limit + 1
  /\ hitsEnd \in 0 .. MaxEnd /\ blockEnd \in 0 .. MaxEnd
  /\ passed \in 0 .. Limit + 1

ThrottleInit ==
  /\ now = 0 /\ hits = 0 /\ hitsEnd = 0 /\ blockEnd = 0 /\ passed = 0

\* A key whose time has come is gone.
ThrottleTick ==
  /\ now < LastTick /\ now' = now + 1
  /\ IF hits > 0 /\ hitsEnd <= now'
     THEN hits' = 0 /\ hitsEnd' = 0 /\ passed' = 0
     ELSE UNCHANGED <<hits, hitsEnd, passed>>
  /\ blockEnd' = IF blockEnd <= now' THEN 0 ELSE blockEnd

\* Slip: the counter runs to the end of its window, whatever the block.
KeepEnd(end) == end

\* A block that is shorter than what is left of the window takes the counter with it.
CapEnd(end) == IF now + BlockFor < end THEN now + BlockFor ELSE end

\* INCREMENT_SCRIPT: a blocked request is not counted; the first one starts the window, and the
\* one beyond the limit starts the block.  When its answer comes too late, the replica decides
\* by a counter of its own, which is not modelled; the hit is counted all the same.
Increment ==
  LET end == IF hits = 0 THEN now + Ttl ELSE hitsEnd IN
  /\ blockEnd = 0
  /\ hits' = hits + 1
  /\ IF hits + 1 > Limit
     THEN blockEnd' = now + BlockFor /\ hitsEnd' = CapEnd(end) /\ UNCHANGED passed
     ELSE hitsEnd' = end /\ passed' = passed + 1 /\ UNCHANGED blockEnd
  /\ UNCHANGED now

ThrottleNext == ThrottleTick \/ Increment

ThrottleSpec == ThrottleInit /\ [][ThrottleNext]_throttleVars

-----------------------------------------------------------------------------
(* Properties.                                                             *)

\* No more than Limit requests pass while one counter lives, and a client whose block has ended
\* has a request left: it is never blocked again by the hits that blocked it, for any relation
\* of window and block.
ThrottleIsFair ==
  /\ passed <= Limit
  /\ blockEnd = 0 => hits <= Limit
=============================================================================
