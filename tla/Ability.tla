------------------------------ MODULE Ability ------------------------------
(***************************************************************************)
(* How the permissions of a principal become CASL rules: the permissions   *)
(* its organisation gives it, cut down to the scopes of its API key, in    *)
(* the order in which the last matching rule decides.                      *)
(***************************************************************************)
EXTENDS Integers, Sequences

CONSTANTS
  Actions,    \* actions besides manage
  Subjects,   \* subjects besides all
  MaxPerms,   \* bound: permissions of the principal
  MaxScopes   \* bound: scopes of an API key

ASSUME AbilityAssumption ==
  /\ {"read", "update"} \subseteq Actions /\ "manage" \notin Actions
  /\ "User" \in Subjects /\ "all" \notin Subjects
  /\ {MaxPerms, MaxScopes} \subseteq Nat

AnyAction == Actions \cup {"manage"}
AnySubject == Subjects \cup {"all"}

\* resolved: the placeholders of its conditions have a value for this principal.
Permission == [action : AnyAction, subject : AnySubject, inverted : BOOLEAN, resolved : BOOLEAN]

\* A scope that is not of the form action:subject is skipped.
Scope == [action : AnyAction, subject : AnySubject, formed : BOOLEAN]

SeqsUpTo(S, n) == UNION {[1 .. m -> S] : m \in 0 .. n}

VARIABLES
  principal,  \* RequestPrincipal, of either credential
  granted,    \* what the permission cache answers
  ability     \* the rules, once built; built is "idle", "no", "yes" or "error"

abilityVars == <<principal, granted, ability>>

\* A JWT has no scopes; an API key has some, and always an organisation.
Principal == [type : {"jwt"}, inOrg : BOOLEAN, super : BOOLEAN, scopes : {<<>>}]
             \cup [type : {"api_key"}, inOrg : {TRUE}, super : BOOLEAN,
                   scopes : SeqsUpTo(Scope, MaxScopes)]

Manage == [action |-> "manage", subject |-> "all", inverted |-> FALSE, resolved |-> TRUE]

\* buildPersonalAbility, of a user in no organisation: rules of the user's own record.
Personal == <<[action |-> "read", subject |-> "User", inverted |-> FALSE, resolved |-> TRUE],
              [action |-> "update", subject |-> "User", inverted |-> FALSE, resolved |-> TRUE]>>

AbilityTypeOK ==
  /\ principal \in Principal
  /\ granted \in SeqsUpTo(Permission, MaxPerms)
  /\ ability.built \in {"idle", "no", "yes", "error"}
  /\ \A x \in DOMAIN ability.rules : ability.rules[x] \in Permission

AbilityInit ==
  /\ principal = [type |-> "jwt", inOrg |-> FALSE, super |-> FALSE, scopes |-> <<>>]
  /\ granted = <<>>
  /\ ability = [built |-> "idle", rules |-> <<>>]

\* A request is authenticated, and the permission cache has answered.
Authenticated ==
  /\ ability.built = "idle"
  /\ principal' \in Principal
  /\ granted' \in SeqsUpTo(Permission, MaxPerms)
  /\ ability' = [ability EXCEPT !.built = "no"]

-----------------------------------------------------------------------------
\* Slip: a permission wider than the scope is not cut down but dropped.
IntersectExact(s, p) ==
  /\ s.action = p.action \/ s.action = "manage"
  /\ s.subject = p.subject \/ s.subject = "all"

\* Scope and permission meet when one covers the other, in the action and in the subject.
Intersect(s, p) ==
  /\ s.action = p.action \/ "manage" \in {s.action, p.action}
  /\ s.subject = p.subject \/ "all" \in {s.subject, p.subject}

\* What both cover.
Narrow(s, p) ==
  [p EXCEPT !.action = IF s.action # "manage" THEN s.action ELSE @,
            !.subject = IF s.subject # "all" THEN s.subject ELSE @]

\* manage:all is no scope a key can have.
Usable(s) == s.formed /\ ~(s.action = "manage" /\ s.subject = "all")

\* One loop over the scopes, another over the permissions: a rule stands at the pair of its
\* scope and its permission, and the array has them in the order of Before.
Before(x, y) == x[1] < y[1] \/ (x[1] = y[1] /\ x[2] < y[2])

\* Every permission is cut down to every scope it meets.
ApplyScopes(perms, scopes) ==
  LET Met == {x \in (DOMAIN scopes) \X (DOMAIN perms) :
                Usable(scopes[x[1]]) /\ Intersect(scopes[x[1]], perms[x[2]])}
  IN  [x \in Met |-> Narrow(scopes[x[1]], perms[x[2]])]

\* Without scopes the permissions stay as they are.
Unscoped(perms) == [x \in {1} \X (DOMAIN perms) |-> perms[x[2]]]

\* The owner's permissions, before scopes.
Owned == IF principal.super THEN <<Manage>>
         ELSE IF principal.inOrg THEN granted ELSE Personal

EffectiveRules ==
  IF principal.type = "api_key" THEN ApplyScopes(Owned, principal.scopes) ELSE Unscoped(Owned)

\* interpolateConditions throws on a placeholder without a value, and no ability is built.
CreateForUser ==
  /\ ability.built = "no"
  /\ ability' = IF \E x \in DOMAIN EffectiveRules : ~EffectiveRules[x].resolved
                THEN [built |-> "error", rules |-> <<>>]
                ELSE [built |-> "yes", rules |-> EffectiveRules]
  /\ UNCHANGED <<principal, granted>>

AbilityNext == Authenticated \/ CreateForUser

AbilitySpec == AbilityInit /\ [][AbilityNext]_abilityVars

-----------------------------------------------------------------------------
(* Properties.                                                             *)

Covers(r, a, s) == r.action \in {a, "manage"} /\ r.subject \in {s, "all"}

\* CASL: the last rule that matches decides, and no rule is a refusal.
Can(rules, a, s) ==
  \E x \in DOMAIN rules :
    /\ Covers(rules[x], a, s) /\ ~rules[x].inverted
    /\ \A y \in DOMAIN rules : Before(x, y) => ~Covers(rules[y], a, s)

\* An API key may do exactly what its owner may and one of its scopes covers: no order of
\* scopes or permissions loses a denial, and none lets a key do what its owner may not.
KeyIsOwnerWithinScopes ==
  ability.built = "yes" => \A a \in AnyAction, s \in AnySubject :
    Can(ability.rules, a, s) <=>
      /\ Can(Unscoped(Owned), a, s)
      /\ principal.type = "api_key" =>
           \E i \in DOMAIN principal.scopes :
             Usable(principal.scopes[i]) /\ Covers(principal.scopes[i], a, s)
=============================================================================
