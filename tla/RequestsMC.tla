----------------------------- MODULE RequestsMC -----------------------------
(***************************************************************************)
(* Small instances of what a request from outside passes, or is stopped    *)
(* by, around its handler. They share no state, so a behaviour moves one   *)
(* of them, the focus it begins with, and the others stay where they       *)
(* start: the states of the run are those of the components one by one.    *)
(***************************************************************************)
EXTENDS Routes, Idempotency, InboundWebhooks, TelegramLink, AttemptLimiter, Throttling,
        SessionVault, TLC

VARIABLE focus

RequestsInit ==
  /\ focus \in {"routes", "idempotency", "webhooks", "linking", "limiter", "throttling",
                "vault"}
  /\ RoutesInit /\ IdemInit /\ HookInit /\ LinkInit /\ LimiterInit /\ ThrottleInit /\ BffInit
  /\ focus # "routes" => dbRole = "USER"

RequestsNext ==
  /\ UNCHANGED focus
  /\ \/ /\ focus = "routes" /\ RoutesNext
        /\ UNCHANGED <<idemVars, hookVars, linkVars, limiterVars, throttleVars, bffVars>>
     \/ /\ focus = "idempotency" /\ IdemNext
        /\ UNCHANGED <<routeVars, hookVars, linkVars, limiterVars, throttleVars, bffVars>>
     \/ /\ focus = "webhooks" /\ HookNext
        /\ UNCHANGED <<routeVars, idemVars, linkVars, limiterVars, throttleVars, bffVars>>
     \/ /\ focus = "linking" /\ LinkNext
        /\ UNCHANGED <<routeVars, idemVars, hookVars, limiterVars, throttleVars, bffVars>>
     \/ /\ focus = "limiter" /\ LimiterNext
        /\ UNCHANGED <<routeVars, idemVars, hookVars, linkVars, throttleVars, bffVars>>
     \/ /\ focus = "throttling" /\ ThrottleNext
        /\ UNCHANGED <<routeVars, idemVars, hookVars, linkVars, limiterVars, bffVars>>
     \/ /\ focus = "vault" /\ BffNext
        /\ UNCHANGED <<routeVars, idemVars, hookVars, linkVars, limiterVars, throttleVars>>

RequestsSpec == RequestsInit /\ [][RequestsNext]_<<focus, routeVars, idemVars, hookVars,
                                                  linkVars, limiterVars, throttleVars, bffVars>>

\* The records of every component keep the shape their schemas give them.
RequestsTypesOK ==
  /\ focus = "routes" => RoutesTypeOK
  /\ focus = "idempotency" => IdemTypeOK
  /\ focus = "webhooks" => HookTypeOK
  /\ focus = "linking" => LinkTypeOK
  /\ focus = "limiter" => LimiterTypeOK
  /\ focus = "throttling" => ThrottleTypeOK
  /\ focus = "vault" => BffTypeOK

\* The others stand still, so a state is told by the component that moves.
MovingState ==
  CASE focus = "routes" -> <<focus, routeVars>>
    [] focus = "idempotency" -> <<focus, idemVars>>
    [] focus = "webhooks" -> <<focus, hookVars>>
    [] focus = "linking" -> <<focus, linkVars>>
    [] focus = "limiter" -> <<focus, limiterVars>>
    [] focus = "throttling" -> <<focus, throttleVars>>
    [] focus = "vault" -> <<focus, bffVars>>

\* An event that is checked is not handled again while its mark lasts, and a link token binds one
\* chat, whatever is redelivered.
InboundIsOnce == DuplicateIsCaught /\ LinksAreExact

\* Nobody is locked out of a sign-in by less than the limit of failures, and a throttled client
\* gets its limit of requests, no more and no less.
LimitsAreFair == LockoutIsEarned /\ ThrottleIsFair
=============================================================================
