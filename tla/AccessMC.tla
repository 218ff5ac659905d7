----------------------------- MODULE AccessMC ------------------------------
(***************************************************************************)
(* Small instances of the components that decide who may do what.  They    *)
(* share no state, so a behaviour moves one of them, the focus it begins   *)
(* with, and the others stay where they start: the states of the run are   *)
(* those of the components one by one.                                     *)
(***************************************************************************)
EXTENDS Organization, Authorization, Ability, Accounts, OAuthLogin, SystemRoles,
        NameRaces, TLC

VARIABLE focus

\* The organisation twice: all of it, or without custom roles for longer histories of members
\* and invitations.
OrganizationNext == OrgNext /\ aclVersion' + issued' < MaxWrites
MembershipNext ==
  /\ OrgNext /\ role' = {}
  /\ \A p \in OrgRequests : orgReq'[p].role \notin CustomRoles

AccessInit ==
  /\ focus \in {"organization", "membership", "authorization", "ability", "accounts", "oauth",
                "roles", "names"}
  /\ OrgInit /\ AuthInit /\ AbilityInit /\ AcctInit /\ OaInit /\ SrInit /\ NameInit

AccessNext ==
  /\ UNCHANGED focus
  /\ \/ /\ focus = "organization" /\ OrganizationNext
        /\ UNCHANGED <<authVars, abilityVars, acctVars, oaVars, srVars, nrVars>>
     \/ /\ focus = "membership" /\ MembershipNext
        /\ UNCHANGED <<authVars, abilityVars, acctVars, oaVars, srVars, nrVars>>
     \/ /\ focus = "authorization" /\ AuthNext
        /\ UNCHANGED <<orgVars, abilityVars, acctVars, oaVars, srVars, nrVars>>
     \/ /\ focus = "ability" /\ AbilityNext
        /\ UNCHANGED <<orgVars, authVars, acctVars, oaVars, srVars, nrVars>>
     \/ /\ focus = "accounts" /\ AcctNext
        /\ UNCHANGED <<orgVars, authVars, abilityVars, oaVars, srVars, nrVars>>
     \/ /\ focus = "oauth" /\ OaNext
        /\ UNCHANGED <<orgVars, authVars, abilityVars, acctVars, srVars, nrVars>>
     \/ /\ focus = "roles" /\ SrNext
        /\ UNCHANGED <<orgVars, authVars, abilityVars, acctVars, oaVars, nrVars>>
     \/ /\ focus = "names" /\ NameNext
        /\ UNCHANGED <<orgVars, authVars, abilityVars, acctVars, oaVars, srVars>>

AccessSpec == AccessInit /\ [][AccessNext]_<<focus, orgVars, authVars, abilityVars, acctVars, oaVars,
                                             srVars, nrVars>>

\* The records of every component keep the shape their schemas give them.
AccessTypesOK ==
  /\ focus \in {"organization", "membership"} => OrgTypeOK
  /\ focus = "authorization" => AuthTypeOK
  /\ focus = "ability" => AbilityTypeOK
  /\ focus = "accounts" => AcctTypeOK
  /\ focus = "oauth" => OaTypeOK
  /\ focus = "roles" => SrTypeOK
  /\ focus = "names" => NameTypeOK

\* The others stand still, so a state is told by the component that moves.
MovingState ==
  CASE focus \in {"organization", "membership"} -> <<focus, orgVars>>
    [] focus = "authorization" -> <<focus, authVars>>
    [] focus = "ability" -> <<focus, abilityVars>>
    [] focus = "accounts" -> <<focus, acctVars>>
    [] focus = "oauth" -> <<focus, oaVars>>
    [] focus = "roles" -> <<focus, srVars>>
    [] focus = "names" -> <<focus, nrVars>>

\* Requests that race for a name, a row or an identity are settled by the database and answered
\* for what happened, and a login through a provider is one of its flow's and of the linked user's.
RacesAreSettled == RacesAreAnswered /\ OAuthIsSound

\* Requests are interchangeable in every component.
RequestSymmetry == Permutations(OrgRequests)
=============================================================================
