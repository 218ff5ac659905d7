--------------------------- MODULE RequestsProofs ---------------------------
(***************************************************************************)
(* What the run of RequestsMC shows of small instances, proved for every   *)
(* value of the constants: an inductive invariant of each component, the   *)
(* property it implies, and at the end their composition.                  *)
(***************************************************************************)
EXTENDS RequestsMC, FiniteSetTheorems, TLAPS

-----------------------------------------------------------------------------
(* Routes.                                                                 *)

\* What the table of routes has to say for the guards to do their part.
RouteIsMarked(r) ==
  /\ r.auth \in {None, Bearer, BearerOrKey}
  /\ "ApiKey" \in r.auth => r.sig \in ApiKeyAllowlist
  /\ "super_admin" \in r.checks => r.auth # None
  /\ "cookie" \in r.checks /\ "board" \notin r.checks => "origin" \in r.checks

\* What a request has shown at each of its steps.
RequestFits(x) ==
  /\ x.pc # "idle" => x.route \in Routes
  /\ x.pc \in {"role", "guards", "handler"} /\ x.route.auth # None /\ x.cred = "api_key" =>
       "ApiKey" \in x.route.auth
  /\ x.pc \in {"guards", "handler"} /\ "super_admin" \in x.route.checks => "admin" \in known
  /\ x.pc = "handler" =>
       /\ "board" \in x.route.checks => "admin" \in known
       /\ "fresh" \in x.route.checks => "fresh" \in known
       /\ "origin" \in x.route.checks => x.origin # "foreign"
       /\ "context" \in x.route.checks => x.ownOrg
       /\ "key_context" \in x.route.checks /\ x.cred = "api_key" => x.ownOrg

RoutesInv == RoutesTypeOK /\ RequestFits(httpReq)

\* The decorators of every controller.
LEMMA RoutesAreMarked == \A r \in Routes : RouteIsMarked(r)
<1>1. \A s : /\ RouteIsMarked(Route(s, None, {})) /\ RouteIsMarked(Route(s, Bearer, {}))
             /\ RouteIsMarked(Route(s, None, {"secret"}))
  BY DEF RouteIsMarked, Route, None, Bearer, BearerOrKey
<1>2. \A s : /\ RouteIsMarked(Route(s, Bearer, {"super_admin"}))
             /\ RouteIsMarked(Route(s, Bearer, {"super_admin", "fresh"}))
             /\ RouteIsMarked(Route(s, Bearer, {"policies", "context"}))
  BY DEF RouteIsMarked, Route, None, Bearer, BearerOrKey
<1>3. \A s : /\ RouteIsMarked(Route(s, None, {"origin", "cookie"}))
             /\ RouteIsMarked(Route(s, None, {"origin", "refresh", "cookie"}))
             /\ RouteIsMarked(Route(s, None, {"board", "cookie"}))
  BY DEF RouteIsMarked, Route, None, Bearer, BearerOrKey
<1>4. \A s \in ApiKeyAllowlist :
        /\ RouteIsMarked(Route(s, BearerOrKey, {}))
        /\ RouteIsMarked(Route(s, BearerOrKey, {"key_context"}))
        /\ RouteIsMarked(Route(s, BearerOrKey, {"policies", "context"}))
  BY DEF RouteIsMarked, Route, None, Bearer, BearerOrKey
<1>5. \A r \in Auth \cup AuthAccount \cup AuthMail \cup OAuth : RouteIsMarked(r)
  BY <1>1, <1>3, <1>4 DEF Auth, AuthAccount, AuthMail, OAuth, Routed, ApiKeyAllowlist
<1>6. \A r \in Organizations \cup Members : RouteIsMarked(r)
  BY <1>1, <1>4 DEF Organizations, Members, Routed, ApiKeyAllowlist
<1>7. \A r \in RoleRoutes : RouteIsMarked(r)
  BY <1>4 DEF RoleRoutes, Routed, ApiKeyAllowlist
<1>8. \A r \in InviteRoutes \cup AuthInvites \cup ApiKeys \cup AdminPanel \cup AiAssistantAdmin :
        RouteIsMarked(r)
  BY <1>1, <1>2 DEF InviteRoutes, AuthInvites, ApiKeys, AdminPanel, AiAssistantAdmin, Routed
<1>9. \A r \in AiRuns \cup AiRunStream \cup AiApprovals \cup AiArtifacts \cup AiConversations
               \cup AiConversationControl : RouteIsMarked(r)
  BY <1>1 DEF AiRuns, AiRunStream, AiApprovals, AiArtifacts, AiConversations,
              AiConversationControl, Routed
<1>10. \A r \in Notifications \cup NotificationStream \cup NotificationPreferences \cup Telegram
                \cup TelegramWebhook \cup Health \cup Metrics \cup QueueBoard : RouteIsMarked(r)
  BY <1>1, <1>3 DEF Notifications, NotificationStream, NotificationPreferences, Telegram,
                    TelegramWebhook, Health, Metrics, QueueBoard, Routed
<1> QED
  BY <1>5, <1>6, <1>7, <1>8, <1>9, <1>10 DEF Routes

AccountTyped ==
  /\ dbRole \in SystemRoleNames /\ logins \in Sids /\ session \in Sids
  /\ authAt \in 0 .. LastMoment /\ bearer \in AccessToken /\ keyLive \in BOOLEAN

LEMMA MintIsTyped ==
  ASSUME NEW role \in SystemRoleNames, NEW sid \in Sids, NEW org \in BOOLEAN,
         bearer \in AccessToken, Mint(role, sid, org)
  PROVE  bearer' \in AccessToken
BY DEF Mint, AccessToken

\* What any handler leaves of the account.
LEMMA HandleIsTyped ==
  ASSUME RoutesTypeOK, NEW sig, NEW token \in AccessToken, NEW cookie \in Sids,
         Handle(sig, token, cookie)
  PROVE  AccountTyped'
<1>1. AccountTyped /\ moment \in 0 .. LastMoment /\ 0 \in Sids
  BY RoutesAssumption DEF RoutesTypeOK, AccountTyped, Sids
<1>2. \A n \in Sids : n < MaxLogins => n + 1 \in Sids
  BY RoutesAssumption DEF Sids
<1>3. ASSUME NEW mints \in BOOLEAN, SignIn(mints) PROVE AccountTyped'
  <2>1. PICK n \in Sids : n = logins + 1
    BY <1>1, <1>2, <1>3 DEF SignIn, AccountTyped
  <2>2. bearer' \in AccessToken
    <3>1. CASE mints
      <4>1. PICK role \in SystemRoleNames : role = dbRole
        BY <1>1 DEF AccountTyped
      <4>2. Mint(role, n, FALSE)
        BY <1>3, <2>1, <3>1, <4>1 DEF SignIn
      <4> QED
        BY <1>1, <4>2, MintIsTyped DEF AccountTyped
    <3>2. CASE ~mints
      BY <1>1, <1>3, <3>2 DEF SignIn, AccountTyped
    <3> QED
      BY <3>1, <3>2
  <2> QED
    BY <1>1, <1>3, <2>1, <2>2 DEF SignIn, AccountTyped
<1>4. ASSUME Rotate(cookie) PROVE AccountTyped'
  <2>1. PICK n \in Sids, role \in SystemRoleNames : n = logins + 1 /\ role = dbRole
    BY <1>1, <1>2, <1>4 DEF Rotate, AccountTyped
  <2>2. Mint(role, n, FALSE)
    BY <1>4, <2>1 DEF Rotate
  <2>3. bearer' \in AccessToken
    BY <1>1, <2>2, MintIsTyped DEF AccountTyped
  <2> QED
    BY <1>1, <1>4, <2>1, <2>3 DEF Rotate, AccountTyped
<1>5. ASSUME Exchange(cookie) PROVE AccountTyped'
  <2>1. PICK role \in SystemRoleNames, sid \in Sids : Mint(role, sid, FALSE)
    BY <1>1, <1>5 DEF Exchange, AccountTyped
  <2>2. bearer' \in AccessToken
    BY <1>1, <2>1, MintIsTyped DEF AccountTyped
  <2> QED
    BY <1>1, <1>5, <2>2 DEF Exchange, AccountTyped
<1>6. ASSUME StepUp(token) PROVE AccountTyped'
  <2>1. PICK role \in SystemRoleNames, sid \in Sids : Mint(role, sid, FALSE)
    BY <1>1, <1>6 DEF StepUp, AccountTyped
  <2>2. bearer' \in AccessToken
    BY <1>1, <2>1, MintIsTyped DEF AccountTyped
  <2> QED
    BY <1>1, <1>6, <2>2 DEF StepUp, AccountTyped
<1>7. ASSUME Switch(token) PROVE AccountTyped'
  <2>1. PICK role \in SystemRoleNames, sid \in Sids : Mint(role, sid, TRUE)
    BY <1>7 DEF Switch, AccessToken
  <2>2. bearer' \in AccessToken
    BY <1>1, <2>1, MintIsTyped DEF AccountTyped
  <2> QED
    BY <1>1, <1>7, <2>2 DEF Switch, AccountTyped
<1>8. ASSUME NEW ended \in BOOLEAN, EndSession(ended) PROVE AccountTyped'
  BY <1>1, <1>8 DEF EndSession, AccountTyped
<1>9. ASSUME NEW live \in BOOLEAN, SetKey(live) PROVE AccountTyped'
  BY <1>1, <1>9 DEF SetKey, AccountTyped
<1>10. ASSUME UNCHANGED account PROVE AccountTyped'
  BY <1>1, <1>10 DEF account, AccountTyped
<1>11. \/ \E mints \in BOOLEAN : SignIn(mints)
       \/ Rotate(cookie) \/ Exchange(cookie) \/ StepUp(token) \/ Switch(token)
       \/ \E ended \in BOOLEAN : EndSession(ended)
       \/ \E live \in BOOLEAN : SetKey(live)
       \/ UNCHANGED account
  <2>1. (cookie = session) \in BOOLEAN /\ (cookie # 0 /\ cookie # session) \in BOOLEAN
    OBVIOUS
  <2> QED
    BY <2>1 DEF Handle
<1> QED
  BY <1>3, <1>4, <1>5, <1>6, <1>7, <1>8, <1>9, <1>10, <1>11

LEMMA RoutesInitInv == RoutesInit => RoutesInv
<1> SUFFICES ASSUME RoutesInit PROVE RoutesInv
  OBVIOUS
<1>1. 0 \in Sids /\ 0 \in 0 .. LastMoment
  BY RoutesAssumption DEF Sids
<1>2. NoToken \in AccessToken
  BY <1>1 DEF NoToken, AccessToken, SystemRoleNames
<1>3. NoHttpRequest \in HttpRequest /\ NoHttpRequest.pc = "idle"
  BY <1>1, <1>2 DEF NoHttpRequest, HttpRequest
<1> QED
  BY <1>1, <1>2, <1>3 DEF RoutesInit, RoutesInv, RoutesTypeOK, RequestFits

LEMMA RoutesMove ==
  ASSUME RoutesInv, Remember, AccountTyped', moment' \in 0 .. LastMoment,
         NEW x \in HttpRequest, httpReq' = x, RequestFits(x)'
  PROVE  RoutesInv'
<1>1. known' \subseteq {"admin", "fresh"}
  BY DEF RoutesInv, RoutesTypeOK, Remember, Facts
<1> QED
  BY <1>1 DEF RoutesInv, RoutesTypeOK, AccountTyped

\* The world around the request.
LEMMA WorldKeepsRoutes ==
  ASSUME RoutesInv, Remember, AccountTyped', moment' \in 0 .. LastMoment, httpReq' = httpReq
  PROVE  RoutesInv'
<1>1. PICK x \in HttpRequest : x = httpReq /\ RequestFits(x)
  BY DEF RoutesInv, RoutesTypeOK
<1>2. x.pc # "idle" => known \subseteq known'
  BY <1>1 DEF Remember
<1>3. RequestFits(x)'
  BY <1>1, <1>2 DEF RequestFits
<1> QED
  BY <1>1, <1>3, RoutesMove

LEMMA RequestEndsRoutes ==
  ASSUME RoutesInv, Remember, AccountTyped', moment' = moment, httpReq' = NoHttpRequest
  PROVE  RoutesInv'
<1>1. NoHttpRequest \in HttpRequest /\ NoHttpRequest.pc = "idle"
  <2>1. 0 \in Sids
    BY RoutesAssumption DEF Sids
  <2>2. NoToken \in AccessToken
    BY <2>1 DEF NoToken, AccessToken, SystemRoleNames
  <2> QED
    BY <2>1, <2>2 DEF NoHttpRequest, HttpRequest
<1>2. PICK x \in HttpRequest : x = NoHttpRequest /\ x.pc = "idle"
  BY <1>1
<1>3. RequestFits(x)'
  BY <1>2 DEF RequestFits
<1>4. moment' \in 0 .. LastMoment
  BY DEF RoutesInv, RoutesTypeOK
<1> QED
  BY <1>2, <1>3, <1>4, RoutesMove

\* The guards, one after the other.
LEMMA GuardKeepsRoutes ==
  ASSUME RoutesInv, Remember, Arrive \/ Authenticate \/ AuthorizeRequest \/ RouteGuards
  PROVE  RoutesInv'
<1>t. /\ httpReq \in HttpRequest /\ RequestFits(httpReq) /\ bearer \in AccessToken
      /\ known \subseteq {"admin", "fresh"} /\ session \in Sids
      /\ UNCHANGED <<account, moment>> /\ moment \in 0 .. LastMoment
  BY DEF RoutesInv, RoutesTypeOK, Arrive, Authenticate, AuthorizeRequest, RouteGuards
<1>a. AccountTyped' /\ moment' \in 0 .. LastMoment
  BY <1>t DEF RoutesInv, RoutesTypeOK, AccountTyped, account
<1>1. CASE Arrive
  <2>1. PICK r \in Routes, c \in {"none", "jwt", "api_key"}, o \in {"absent", "ours", "foreign"},
             k \in {0, session, IF session > 1 THEN session - 1 ELSE 0}, own \in BOOLEAN :
          /\ Eventful(r)
          /\ o # "absent" => "origin" \in r.checks
          /\ k # 0 => "cookie" \in r.checks \/ r.sig = "DELETE auth/sessions"
          /\ ~own => {"context", "key_context"} \cap r.checks # {}
          /\ c # "none" => r.auth # None \/ "board" \in r.checks
          /\ c = "jwt" => bearer # NoToken
          /\ httpReq' = [pc |-> "authenticate", route |-> r, cred |-> c,
                         token |-> IF c = "jwt" THEN bearer ELSE NoToken,
                         cookie |-> k, origin |-> o, ownOrg |-> own]
    BY <1>1 DEF Arrive
  <2>2. k \in Sids /\ 0 \in Sids
    BY <1>t, RoutesAssumption DEF Sids
  <2>3. NoToken \in AccessToken
    BY <2>2 DEF NoToken, AccessToken, SystemRoleNames
  <2>4. PICK t \in AccessToken : t = IF c = "jwt" THEN bearer ELSE NoToken
    BY <1>t, <2>3
  <2>5. PICK x \in HttpRequest : httpReq' = x /\ x.pc = "authenticate" /\ x.route = r
    <3> DEFINE x == [pc |-> "authenticate", route |-> r, cred |-> c, token |-> t,
                     cookie |-> k, origin |-> o, ownOrg |-> own]
    <3>1. x \in HttpRequest /\ x.pc = "authenticate" /\ x.route = r
      <4>1. r \in Routes \cup {Route("none", None, {})}
        OBVIOUS
      <4> QED
        BY <2>2, <4>1 DEF HttpRequest
    <3>2. httpReq' = x
      BY <2>1, <2>4, Zenon
    <3> HIDE DEF x
    <3> QED
      BY <3>1, <3>2
  <2>6. RequestFits(x)'
    BY <2>5 DEF RequestFits
  <2> QED
    BY <1>a, <2>5, <2>6, RoutesMove
\* The same request at its next place.
<1>2. ASSUME NEW pc \in {"role", "guards", "handler"}, Goto(pc)
      PROVE  \E x \in HttpRequest : /\ httpReq' = x /\ x.pc = pc /\ x.route = httpReq.route
                                    /\ x.cred = httpReq.cred /\ x.token = httpReq.token
                                    /\ x.origin = httpReq.origin /\ x.ownOrg = httpReq.ownOrg
  <2> DEFINE x == [httpReq EXCEPT !.pc = pc]
  <2>1. /\ x \in HttpRequest /\ x.pc = pc /\ x.route = httpReq.route /\ x.cred = httpReq.cred
        /\ x.token = httpReq.token /\ x.origin = httpReq.origin /\ x.ownOrg = httpReq.ownOrg
    BY <1>t DEF HttpRequest
  <2>2. httpReq' = x
    BY <1>2 DEF Goto
  <2> HIDE DEF x
  <2> QED
    BY <2>1, <2>2
<1>3. ASSUME NEW x \in HttpRequest, httpReq' = x, x.pc # "idle", x.token = httpReq.token
      PROVE  /\ known \subseteq known'
             /\ dbRole = "SUPER_ADMIN" => "admin" \in known'
             /\ SessionFresh => "fresh" \in known'
  <2>1. /\ dbRole' = dbRole /\ session' = session /\ authAt' = authAt /\ moment' = moment
        /\ known' = known \cup Facts(dbRole, session, authAt, moment, httpReq.token)
    BY <1>3, <1>t DEF Remember, account
  <2> QED
    BY <2>1 DEF Facts, SessionFresh
<1>4. CASE Authenticate
  <2>1. CASE httpReq.route.auth = None /\ Goto("guards")
    <3>1. PICK x \in HttpRequest : /\ httpReq' = x /\ x.pc = "guards" /\ x.route = httpReq.route
                                   /\ x.cred = httpReq.cred /\ x.token = httpReq.token
      BY <1>2, <2>1
    <3>2. RouteIsMarked(httpReq.route) /\ x.route \in Routes
      BY <1>4, <1>t, <3>1, RoutesAreMarked DEF Authenticate, At, RequestFits
    <3>3. RequestFits(x)'
      BY <2>1, <3>1, <3>2 DEF RequestFits, RouteIsMarked
    <3> QED
      BY <1>a, <3>1, <3>3, RoutesMove
  <2>2. CASE Credential /\ Goto("role")
    <3>1. PICK x \in HttpRequest : /\ httpReq' = x /\ x.pc = "role" /\ x.route = httpReq.route
                                   /\ x.cred = httpReq.cred /\ x.token = httpReq.token
      BY <1>2, <2>2
    <3>2. RequestFits(x)'
      BY <1>4, <1>t, <2>2, <3>1 DEF RequestFits, Credential, Authenticate, At
    <3> QED
      BY <1>a, <3>1, <3>2, RoutesMove
  <2> QED
    BY <1>4, <2>1, <2>2 DEF Authenticate
<1>5. CASE AuthorizeRequest
  <2>1. PICK x \in HttpRequest : /\ httpReq' = x /\ x.pc = "guards" /\ x.route = httpReq.route
                                 /\ x.cred = httpReq.cred /\ x.token = httpReq.token
    BY <1>2, <1>5 DEF AuthorizeRequest
  <2>2. dbRole = "SUPER_ADMIN" => "admin" \in known'
    BY <1>3, <2>1
  <2>3. "super_admin" \in x.route.checks => "admin" \in known'
    BY <1>5, <2>1, <2>2 DEF AuthorizeRequest, CurrentRole, Asks
  <2>4. RequestFits(x)'
    BY <1>5, <1>t, <2>1, <2>3 DEF RequestFits, AuthorizeRequest, At
  <2> QED
    BY <1>a, <2>1, <2>4, RoutesMove
<1>6. CASE RouteGuards
  <2>1. PICK x \in HttpRequest : /\ httpReq' = x /\ x.pc = "handler" /\ x.route = httpReq.route
                                 /\ x.cred = httpReq.cred /\ x.token = httpReq.token
                                 /\ x.origin = httpReq.origin /\ x.ownOrg = httpReq.ownOrg
    BY <1>2, <1>6 DEF RouteGuards
  <2>2. /\ known \subseteq known' /\ (dbRole = "SUPER_ADMIN" => "admin" \in known')
        /\ SessionFresh => "fresh" \in known'
    BY <1>3, <2>1
  <2>3. /\ "board" \in x.route.checks => "admin" \in known'
        /\ "fresh" \in x.route.checks => "fresh" \in known'
        /\ "origin" \in x.route.checks => x.origin # "foreign"
    BY <1>6, <2>1, <2>2 DEF RouteGuards, Asks, BoardAccess, BoardSession, OriginAllowed
  <2>4. /\ "context" \in x.route.checks => x.ownOrg
        /\ "key_context" \in x.route.checks /\ x.cred = "api_key" => x.ownOrg
    BY <1>6, <2>1 DEF RouteGuards, InContext, Asks
  <2>5. /\ x.route \in Routes /\ ("super_admin" \in x.route.checks => "admin" \in known)
        /\ x.route.auth # None /\ x.cred = "api_key" => "ApiKey" \in x.route.auth
    BY <1>6, <1>t, <2>1 DEF RouteGuards, At, RequestFits
  <2>6. RequestFits(x)'
    BY <2>1, <2>2, <2>3, <2>4, <2>5 DEF RequestFits
  <2> QED
    BY <1>a, <2>1, <2>6, RoutesMove
<1> QED
  BY <1>1, <1>4, <1>5, <1>6

\* What a request's user has shown is remembered while the account changes around it.
THEOREM RoutesInvariant == RoutesSpec => []RoutesInv
<1>1. RoutesInv /\ [RoutesNext]_routeVars => RoutesInv'
  <2> SUFFICES ASSUME RoutesInv, [RoutesNext]_routeVars PROVE RoutesInv'
    OBVIOUS
  <2>t. /\ RoutesTypeOK /\ httpReq \in HttpRequest /\ moment \in 0 .. LastMoment /\ AccountTyped
        /\ httpReq.token \in AccessToken /\ httpReq.cookie \in Sids
    BY DEF RoutesInv, RoutesTypeOK, AccountTyped, HttpRequest
  <2>1. CASE UNCHANGED routeVars
    BY <2>1 DEF routeVars, RoutesInv, RoutesTypeOK, RequestFits
  <2>2. CASE RoutesNext
    <3>1. Remember
      BY <2>2 DEF RoutesNext
    <3>2. CASE Tick
      <4>1. moment' \in 0 .. LastMoment /\ UNCHANGED <<account, httpReq>>
        BY <2>t, <3>2, RoutesAssumption DEF Tick
      <4> QED
        BY <2>t, <3>1, <4>1, WorldKeepsRoutes DEF account, AccountTyped
    <3>3. CASE AccessTokenExpires \/ ChangeRole
      <4>1. NoToken \in AccessToken /\ 0 \in Sids
        BY RoutesAssumption DEF NoToken, AccessToken, SystemRoleNames, Sids
      <4>2. AccountTyped' /\ moment' = moment /\ httpReq' = httpReq
        BY <2>t, <3>3, <4>1 DEF AccessTokenExpires, ChangeRole, AccountTyped
      <4> QED
        BY <2>t, <3>1, <4>2, WorldKeepsRoutes
    <3>4. CASE OtherRequest
      <4>1. PICK sig \in Stateful : Handle(sig, bearer, session)
        BY <3>4 DEF OtherRequest
      <4>2. AccountTyped'
        BY <2>t, <4>1, HandleIsTyped DEF AccountTyped
      <4> QED
        BY <2>t, <3>1, <3>4, <4>2, WorldKeepsRoutes DEF OtherRequest
    <3>5. CASE SendResponse
      BY <2>t, <3>1, <3>5, RequestEndsRoutes DEF SendResponse, account, AccountTyped
    <3>6. CASE Commit
      <4>1. AccountTyped'
        BY <2>t, <3>6, HandleIsTyped DEF Commit
      <4> QED
        BY <3>1, <3>6, <4>1, RequestEndsRoutes DEF Commit
    <3>7. CASE Arrive \/ Authenticate \/ AuthorizeRequest \/ RouteGuards
      BY <3>1, <3>7, GuardKeepsRoutes
    <3> QED
      BY <2>2, <3>2, <3>3, <3>4, <3>5, <3>6, <3>7 DEF RoutesNext, RoutesStep
  <2> QED
    BY <2>1, <2>2
<1> QED
  BY <1>1, RoutesInitInv, PTL DEF RoutesSpec

\* No handler runs for anybody its decorators and guards do not let in, whatever happens to roles,
\* sessions, tokens and keys while the request passes them.
THEOREM RoutesHold == RoutesSpec => []RoutesAreGuarded
<1>1. RoutesInv => RoutesAreGuarded
  <2> SUFFICES ASSUME RoutesInv, httpReq.pc = "handler" PROVE RoutesAreGuarded
    BY DEF RoutesAreGuarded, At
  <2>1. RequestFits(httpReq) /\ RouteIsMarked(httpReq.route)
    BY RoutesAreMarked DEF RoutesInv, RequestFits
  <2> QED
    BY <2>1 DEF RequestFits, RouteIsMarked, RoutesAreGuarded, At, Asks
<1> QED
  BY <1>1, RoutesInvariant, PTL

-----------------------------------------------------------------------------
(* Idempotency.                                                            *)

\* An answer is by a handler that was started, for the fingerprint.
Fits(a, f) == a.of # NoOne => a.of \in ran /\ idem[a.of].fingerprint = f

\* Who has been told to start, and has not yet.
Tickets == {p \in IdemRequests : idem[p].pc = "reserving" /\ idem[p].reply = "started"}

Records == IF record.state = "absent" THEN 0 ELSE 1

\* Each record and each lapse paid for one start.
StartsArePaid ==
  /\ IsFiniteSet(ran \cup Tickets)
  /\ Cardinality(ran \cup Tickets) <= lapses + Records

IdemKnows(r, p) ==
  /\ r.pc = "new" => /\ p \notin ran /\ r.reply # "started"
                      /\ r.own = NoAnswer /\ r.answered = NoAnswer
  /\ r.pc \in {"running", "completing"} => p \in ran
  /\ Fits(r.own, r.fingerprint) /\ Fits(r.answered, r.fingerprint)

RecordFits == record.state = "completed" => Fits(record.answer, record.fingerprint)

IdemInv ==
  /\ IdemTypeOK /\ StartsArePaid /\ ReservationIsKept /\ RecordFits
  /\ \A p \in IdemRequests : IdemKnows(idem[p], p)

LEMMA RecordFields ==
  ASSUME record \in KeyRecord
  PROVE  /\ record.state \in {"absent", "in_flight", "completed"}
         /\ record.fingerprint \in Fingerprints /\ record.answer \in Answer
<1>1. NoAnswer \in Answer
  BY DEF NoAnswer, Answer
<1>2. CASE record \in {[state |-> "absent", owner |-> NoOne, fingerprint |-> f,
                        answer |-> NoAnswer] : f \in Fingerprints}
  BY <1>1, <1>2
<1>3. CASE record \in [state : {"in_flight"}, owner : IdemRequests, fingerprint : Fingerprints,
                       answer : {NoAnswer}]
  BY <1>1, <1>3
<1>4. CASE record \in [state : {"completed"}, owner : {NoOne}, fingerprint : Fingerprints,
                       answer : Answer]
  BY <1>4
<1> QED
  BY <1>2, <1>3, <1>4 DEF KeyRecord

LEMMA AbsentFits == Absent \in KeyRecord /\ Absent.state = "absent"
<1>1. (CHOOSE f \in Fingerprints : TRUE) \in Fingerprints
  BY IdemAssumption
<1> QED
  BY <1>1 DEF Absent, KeyRecord

\* One request moves to r; its handler may have been started with the step.
IdemMoves(p, r) ==
  /\ r \in IdemRecord /\ idem' = [idem EXCEPT ![p] = r]
  /\ ran' \in {ran, ran \cup {p}}
  /\ p \in ran => r.fingerprint = idem[p].fingerprint

LEMMA FitsStays ==
  ASSUME IdemTypeOK, NEW p \in IdemRequests, NEW r, IdemMoves(p, r),
         NEW a \in Answer, NEW f, Fits(a, f)
  PROVE  Fits(a, f)'
<1>1. a.of \in IdemRequests \cup {NoOne}
  BY DEF Answer
<1> QED
  BY <1>1 DEF Fits, IdemMoves, IdemTypeOK

\* A step of one request keeps what the others know.
LEMMA IdemRequestMoves ==
  ASSUME IdemInv, NEW p \in IdemRequests, NEW r, IdemMoves(p, r), IdemKnows(r, p)',
         record' \in KeyRecord, lapses' \in 0 .. MaxLapses, StartsArePaid', ReservationIsKept',
         RecordFits'
  PROVE  IdemInv'
<1>1. IdemTypeOK'
  BY DEF IdemInv, IdemTypeOK, IdemMoves
<1>2. ASSUME NEW q \in IdemRequests PROVE IdemKnows(idem[q], q)'
  <2>1. CASE q = p
    <3>1. idem'[q] = r
      BY <2>1 DEF IdemInv, IdemTypeOK, IdemMoves
    <3> QED
      BY <2>1, <3>1 DEF IdemKnows, Fits
  <2>2. CASE q # p
    <3> DEFINE o == idem[q]
    <3>1. idem'[q] = o /\ o \in IdemRecord /\ IdemKnows(o, q)
      BY <2>2 DEF IdemInv, IdemTypeOK, IdemMoves
    <3>2. o.own \in Answer /\ o.answered \in Answer
      BY <3>1 DEF IdemRecord
    <3>3. Fits(o.own, o.fingerprint)' /\ Fits(o.answered, o.fingerprint)'
      <4> HIDE DEF o
      <4>1. PICK oo \in IdemRecord : oo = o
        BY <3>1
      <4>2. Fits(oo.own, oo.fingerprint)' /\ Fits(oo.answered, oo.fingerprint)'
        BY <3>1, <3>2, <4>1, FitsStays DEF IdemInv, IdemKnows
      <4> QED
        BY <3>1, <4>1, <4>2 DEF Fits, o
    <3> QED
      BY <2>2, <3>1, <3>3 DEF IdemKnows, IdemMoves
  <2> QED
    BY <2>1, <2>2
<1> QED
  BY <1>1, <1>2 DEF IdemInv

\* Counting: a step that starts nobody new costs nothing, one that starts p costs one.
LEMMA PaidSubset ==
  ASSUME StartsArePaid, IdemTypeOK, ran' \cup Tickets' \subseteq ran \cup Tickets,
         lapses' \in Nat, lapses + Records <= lapses' + Records'
  PROVE  StartsArePaid'
<1>0. Records \in Nat /\ Records' \in Nat /\ lapses \in Nat
  BY IdemAssumption DEF IdemTypeOK, Records
<1>1. /\ IsFiniteSet(ran' \cup Tickets')
      /\ Cardinality(ran' \cup Tickets') <= Cardinality(ran \cup Tickets)
  BY FS_Subset DEF StartsArePaid
<1>2. PICK s \in Nat, t \in Nat : s = Cardinality(ran \cup Tickets)
                                  /\ t = Cardinality(ran' \cup Tickets')
  BY <1>1, FS_CardinalityType DEF StartsArePaid
<1>3. s <= lapses + Records /\ t <= s
  BY <1>1, <1>2 DEF StartsArePaid
<1>4. t <= lapses' + Records'
  <2>1. PICK a \in Nat, b \in Nat, c \in Nat, d \in Nat :
          a = lapses /\ b = Records /\ c = lapses' /\ d = Records'
    BY <1>0
  <2>2. t <= s /\ s <= a + b /\ a + b <= c + d
    BY <1>3, <2>1
  <2>3. t <= c + d
    BY <2>2
  <2> QED
    BY <2>1, <2>3
<1> QED
  BY <1>1, <1>2, <1>4 DEF StartsArePaid

LEMMA PaidOne ==
  ASSUME StartsArePaid, IdemTypeOK, NEW p, ran' \cup Tickets' \subseteq ran \cup Tickets \cup {p},
         lapses' \in Nat, lapses + Records + 1 <= lapses' + Records'
  PROVE  StartsArePaid'
<1>0. Records \in Nat /\ Records' \in Nat /\ lapses \in Nat
  BY IdemAssumption DEF IdemTypeOK, Records
<1>1. PICK S : S = ran \cup Tickets
  OBVIOUS
<1>2. IsFiniteSet(S) /\ Cardinality(S) \in Nat /\ Cardinality(S) <= lapses + Records
  BY <1>1, FS_CardinalityType DEF StartsArePaid
<1>3. /\ IsFiniteSet(S \cup {p})
      /\ Cardinality(S \cup {p}) = IF p \in S THEN Cardinality(S) ELSE Cardinality(S) + 1
  BY <1>2, FS_AddElement
<1>4. ran' \cup Tickets' \subseteq S \cup {p}
  BY <1>1
<1>5. /\ IsFiniteSet(ran' \cup Tickets')
      /\ Cardinality(ran' \cup Tickets') <= Cardinality(S \cup {p})
  BY <1>3, <1>4, FS_Subset
<1>6. PICK s \in Nat, t \in Nat, u \in Nat :
        s = Cardinality(S) /\ t = Cardinality(ran' \cup Tickets') /\ u = Cardinality(S \cup {p})
  BY <1>2, <1>3, <1>5, FS_CardinalityType
<1>7. s <= lapses + Records /\ t <= u /\ u <= s + 1
  BY <1>2, <1>3, <1>5, <1>6
<1>8. t <= lapses' + Records'
  <2>1. PICK a \in Nat, b \in Nat, c \in Nat, d \in Nat :
          a = lapses /\ b = Records /\ c = lapses' /\ d = Records'
    BY <1>0
  <2>2. s <= a + b /\ t <= u /\ u <= s + 1 /\ a + b + 1 <= c + d
    BY <1>7, <2>1
  <2>3. t <= c + d
    BY <2>2
  <2> QED
    BY <2>1, <2>3
<1> QED
  BY <1>5, <1>6, <1>8 DEF StartsArePaid

\* The steps after which the record is what it was, or was completed by its owner.
LEMMA QuietIdemStep ==
  ASSUME IdemInv, NEW p \in IdemRequests, NEW r, IdemMoves(p, r), IdemKnows(r, p)',
         UNCHANGED <<record, lapses>>, r.holds => idem[p].holds,
         r.pc = "reserving" /\ r.reply = "started" => p \in ran \cup Tickets,
         p \in ran' => p \in ran \cup Tickets
  PROVE  IdemInv'
<1>t. /\ IdemTypeOK /\ idem \in [IdemRequests -> IdemRecord] /\ lapses \in Nat
      /\ record \in KeyRecord /\ lapses \in 0 .. MaxLapses
  BY IdemAssumption DEF IdemInv, IdemTypeOK
<1>1. \A q \in IdemRequests : idem'[q] = IF q = p THEN r ELSE idem[q]
  BY <1>t DEF IdemMoves
<1>2. Tickets' \subseteq ran \cup Tickets
  BY <1>1 DEF Tickets
<1>3. StartsArePaid'
  <2>1. ran' \cup Tickets' \subseteq ran \cup Tickets
    BY <1>2 DEF IdemMoves
  <2> QED
    BY <1>t, <2>1, PaidSubset DEF IdemInv, Records
<1>4. ReservationIsKept'
  BY <1>1 DEF IdemInv, ReservationIsKept
<1>5. RecordFits'
  <2>1. CASE record.state = "completed"
    <3>1. record.answer \in Answer
      BY <1>t, RecordFields
    <3>2. PICK a \in Answer : a = record.answer
      BY <3>1
    <3>3. Fits(a, record.fingerprint)
      BY <2>1, <3>2 DEF IdemInv, RecordFits
    <3>4. PICK f : f = record.fingerprint
      OBVIOUS
    <3>5. Fits(a, f)'
      BY <1>t, <3>3, <3>4, FitsStays
    <3> QED
      BY <3>2, <3>4, <3>5 DEF RecordFits, Fits
  <2>2. CASE record.state # "completed"
    BY <2>2 DEF RecordFits
  <2> QED
    BY <2>1, <2>2
<1> QED
  BY <1>t, <1>3, <1>4, <1>5, IdemRequestMoves

\* What a request knows after its step follows from what it had before.
LEMMA KnowsAfter ==
  ASSUME IdemInv, NEW p \in IdemRequests, NEW r, IdemMoves(p, r),
         r.pc = "new" => /\ p \notin ran' /\ r.reply # "started"
                         /\ r.own = NoAnswer /\ r.answered = NoAnswer,
         r.pc \in {"running", "completing"} => p \in ran',
         Fits(r.own, r.fingerprint), Fits(r.answered, r.fingerprint)
  PROVE  IdemKnows(r, p)'
<1>1. r.own \in Answer /\ r.answered \in Answer
  BY DEF IdemMoves, IdemRecord
<1>2. Fits(r.own, r.fingerprint)' /\ Fits(r.answered, r.fingerprint)'
  BY <1>1, FitsStays DEF IdemInv
<1> QED
  BY <1>2 DEF IdemKnows

LEMMA RequestKeepsIdem ==
  ASSUME IdemInv, NEW p \in IdemRequests,
         \/ Intercept(p) \/ Proceed(p) \/ Refuse(p) \/ Replay(p) \/ HandlerReturns(p)
         \/ SendAnswer(p) \/ ScriptLost(p) \/ IdemCrash(p)
  PROVE  IdemInv'
<1> DEFINE old == idem[p]
<1>t. /\ old \in IdemRecord /\ IdemKnows(old, p) /\ IdemTypeOK
      /\ NoAnswer \in Answer /\ ran \subseteq IdemRequests
      /\ NoOne \notin IdemRequests
  BY IdemAssumption DEF IdemInv, IdemTypeOK, NoAnswer, Answer
<1>f. /\ old.fingerprint \in Fingerprints /\ old.own \in Answer /\ old.answered \in Answer
      /\ old.sent \in BOOLEAN /\ old.owns \in BOOLEAN /\ old.holds \in BOOLEAN
  BY <1>t DEF IdemRecord
<1>k. /\ Fits(old.own, old.fingerprint) /\ Fits(old.answered, old.fingerprint)
      /\ \A f \in Fingerprints : Fits(NoAnswer, f)
  BY <1>t DEF IdemKnows, Fits, NoAnswer
<1>1. CASE Intercept(p)
  <2>1. PICK f \in Fingerprints :
          IdemGo(p, [idem[p] EXCEPT !.pc = "reserving", !.fingerprint = f, !.sent = TRUE])
    BY <1>1 DEF Intercept
  <2>2. PICK r \in IdemRecord :
          /\ r = [idem[p] EXCEPT !.pc = "reserving", !.fingerprint = f, !.sent = TRUE]
          /\ r.pc = "reserving" /\ r.fingerprint = f /\ r.own = old.own
          /\ r.answered = old.answered /\ r.holds = old.holds /\ r.reply = old.reply
    <3> DEFINE e == [idem[p] EXCEPT !.pc = "reserving", !.fingerprint = f, !.sent = TRUE]
    <3>1. /\ e \in IdemRecord /\ e.pc = "reserving" /\ e.fingerprint = f /\ e.own = old.own
          /\ e.answered = old.answered /\ e.holds = old.holds /\ e.reply = old.reply
      BY <1>t DEF IdemRecord
    <3> HIDE DEF e
    <3> QED
      BY <3>1 DEF e
  <2>3. IdemMoves(p, r)
    BY <1>1, <1>t, <2>1, <2>2 DEF IdemMoves, IdemGo, Intercept, IdemAt, IdemKnows
  <2>4. Fits(r.own, r.fingerprint) /\ Fits(r.answered, r.fingerprint)
    BY <1>1, <1>t, <1>k, <2>2 DEF Intercept, IdemAt, IdemKnows
  <2>5. IdemKnows(r, p)'
    BY <2>2, <2>3, <2>4, KnowsAfter
  <2>6. r.reply # "started" /\ UNCHANGED <<record, lapses, ran>>
    BY <1>1, <1>t, <2>2 DEF Intercept, IdemAt, IdemKnows
  <2> QED
    BY <2>2, <2>3, <2>5, <2>6, QuietIdemStep
<1>2. CASE Proceed(p)
  <2>1. idem' = [idem EXCEPT ![p] = [idem[p] EXCEPT !.pc = "running", !.owns = TRUE]]
    BY <1>2 DEF Proceed, IdemGo
  <2>2. PICK r \in IdemRecord :
          /\ r = [idem[p] EXCEPT !.pc = "running", !.owns = TRUE]
          /\ r.pc = "running" /\ r.fingerprint = old.fingerprint
          /\ r.holds = old.holds /\ r.reply = old.reply /\ r.own = old.own
          /\ r.answered = old.answered
    <3> DEFINE e == [idem[p] EXCEPT !.pc = "running", !.owns = TRUE]
    <3>1. /\ e \in IdemRecord
          /\ e.pc = "running" /\ e.fingerprint = old.fingerprint
          /\ e.holds = old.holds /\ e.reply = old.reply /\ e.own = old.own
          /\ e.answered = old.answered
      BY <1>t, <1>f DEF IdemRecord
    <3> HIDE DEF e
    <3> QED
      BY <3>1 DEF e
  <2>3. IdemMoves(p, r)
    BY <1>2, <1>t, <2>1, <2>2 DEF IdemMoves, Proceed
  <2>4. Fits(r.own, r.fingerprint) /\ Fits(r.answered, r.fingerprint)
    BY <1>2, <1>t, <1>k, <2>2 DEF Proceed, IdemAt
  <2>5. IdemKnows(r, p)'
    <3>1. r.pc = "new" => /\ p \notin ran' /\ r.reply # "started"
                          /\ r.own = NoAnswer /\ r.answered = NoAnswer
      BY <1>2, <1>t, <2>2 DEF Proceed, IdemAt, IdemKnows
    <3>2. r.pc \in {"running", "completing"} => p \in ran'
      BY <1>2, <1>t, <2>2 DEF Proceed, IdemAt, IdemKnows
    <3> QED
      BY <2>3, <2>4, <3>1, <3>2, KnowsAfter
  <2>6. /\ UNCHANGED <<record, lapses>>
        /\ r.pc = "reserving" /\ r.reply = "started" => p \in ran \cup Tickets
        /\ p \in ran' => p \in ran \cup Tickets
    BY <1>2, <1>t, <2>2 DEF Proceed, IdemAt, Tickets
  <2> QED
    BY <2>2, <2>3, <2>5, <2>6, QuietIdemStep
<1>3. CASE Refuse(p)
  <2>1. idem' = [idem EXCEPT ![p] = [idem[p] EXCEPT !.pc = "done"]]
    BY <1>3 DEF Refuse, IdemGo
  <2>2. PICK r \in IdemRecord :
          /\ r = [idem[p] EXCEPT !.pc = "done"]
          /\ r.pc = "done" /\ r.fingerprint = old.fingerprint
          /\ r.holds = old.holds /\ r.reply = old.reply /\ r.own = old.own
          /\ r.answered = old.answered
    <3> DEFINE e == [idem[p] EXCEPT !.pc = "done"]
    <3>1. /\ e \in IdemRecord
          /\ e.pc = "done" /\ e.fingerprint = old.fingerprint
          /\ e.holds = old.holds /\ e.reply = old.reply /\ e.own = old.own
          /\ e.answered = old.answered
      BY <1>t, <1>f DEF IdemRecord
    <3> HIDE DEF e
    <3> QED
      BY <3>1 DEF e
  <2>3. IdemMoves(p, r)
    BY <1>3, <1>t, <2>1, <2>2 DEF IdemMoves, Refuse
  <2>4. Fits(r.own, r.fingerprint) /\ Fits(r.answered, r.fingerprint)
    BY <1>3, <1>t, <1>k, <2>2 DEF Refuse, IdemAt
  <2>5. IdemKnows(r, p)'
    <3>1. r.pc = "new" => /\ p \notin ran' /\ r.reply # "started"
                          /\ r.own = NoAnswer /\ r.answered = NoAnswer
      BY <1>3, <1>t, <2>2 DEF Refuse, IdemAt, IdemKnows
    <3>2. r.pc \in {"running", "completing"} => p \in ran'
      BY <1>3, <1>t, <2>2 DEF Refuse, IdemAt, IdemKnows
    <3> QED
      BY <2>3, <2>4, <3>1, <3>2, KnowsAfter
  <2>6. /\ UNCHANGED <<record, lapses>>
        /\ r.pc = "reserving" /\ r.reply = "started" => p \in ran \cup Tickets
        /\ p \in ran' => p \in ran \cup Tickets
    BY <1>3, <1>t, <2>2 DEF Refuse, IdemAt, Tickets
  <2> QED
    BY <2>2, <2>3, <2>5, <2>6, QuietIdemStep
<1>4. CASE Replay(p)
  <2>1. idem' = [idem EXCEPT ![p] = [idem[p] EXCEPT !.pc = "done", !.answered = idem[p].own]]
    BY <1>4 DEF Replay, IdemGo
  <2>2. PICK r \in IdemRecord :
          /\ r = [idem[p] EXCEPT !.pc = "done", !.answered = idem[p].own]
          /\ r.pc = "done" /\ r.fingerprint = old.fingerprint
          /\ r.holds = old.holds /\ r.reply = old.reply /\ r.own = old.own
          /\ r.answered = old.own
    <3> DEFINE e == [idem[p] EXCEPT !.pc = "done", !.answered = idem[p].own]
    <3>1. /\ e \in IdemRecord
          /\ e.pc = "done" /\ e.fingerprint = old.fingerprint
          /\ e.holds = old.holds /\ e.reply = old.reply /\ e.own = old.own
          /\ e.answered = old.own
      BY <1>t, <1>f DEF IdemRecord
    <3> HIDE DEF e
    <3> QED
      BY <3>1 DEF e
  <2>3. IdemMoves(p, r)
    BY <1>4, <1>t, <2>1, <2>2 DEF IdemMoves, Replay
  <2>4. Fits(r.own, r.fingerprint) /\ Fits(r.answered, r.fingerprint)
    BY <1>4, <1>t, <1>k, <2>2 DEF Replay, IdemAt
  <2>5. IdemKnows(r, p)'
    <3>1. r.pc = "new" => /\ p \notin ran' /\ r.reply # "started"
                          /\ r.own = NoAnswer /\ r.answered = NoAnswer
      BY <1>4, <1>t, <2>2 DEF Replay, IdemAt, IdemKnows
    <3>2. r.pc \in {"running", "completing"} => p \in ran'
      BY <1>4, <1>t, <2>2 DEF Replay, IdemAt, IdemKnows
    <3> QED
      BY <2>3, <2>4, <3>1, <3>2, KnowsAfter
  <2>6. /\ UNCHANGED <<record, lapses>>
        /\ r.pc = "reserving" /\ r.reply = "started" => p \in ran \cup Tickets
        /\ p \in ran' => p \in ran \cup Tickets
    BY <1>4, <1>t, <2>2 DEF Replay, IdemAt, Tickets
  <2> QED
    BY <2>2, <2>3, <2>5, <2>6, QuietIdemStep
<1>5. CASE HandlerReturns(p)
  <2>0. p \in ran /\ UNCHANGED <<record, lapses, ran>> /\ old.pc = "running"
    BY <1>5, <1>t DEF HandlerReturns, IdemAt, IdemKnows
  <2>1. PICK b \in BOOLEAN :
          IdemGo(p, IF old.owns
                    THEN [old EXCEPT !.pc = "completing", !.sent = TRUE,
                                     !.own = [of |-> p, empty |-> b]]
                    ELSE [old EXCEPT !.pc = "done", !.own = [of |-> p, empty |-> b],
                                     !.answered = [of |-> p, empty |-> b]])
    BY <1>5 DEF HandlerReturns
  <2>a. PICK a \in Answer : a = [of |-> p, empty |-> b] /\ a.of = p
    <3> DEFINE e == [of |-> p, empty |-> b]
    <3>1. e \in Answer /\ e.of = p
      BY DEF Answer
    <3> QED
      BY <3>1
  <2>2. PICK r \in IdemRecord :
          /\ idem' = [idem EXCEPT ![p] = r]
          /\ r.pc \in {"completing", "done"} /\ r.fingerprint = old.fingerprint
          /\ r.holds = old.holds /\ r.own = a /\ r.answered \in {a, old.answered}
    <3>1. CASE old.owns
      <4> DEFINE e == [old EXCEPT !.pc = "completing", !.sent = TRUE, !.own = a]
      <4>1. /\ e \in IdemRecord /\ e.pc = "completing" /\ e.fingerprint = old.fingerprint
            /\ e.holds = old.holds /\ e.own = a /\ e.answered = old.answered
        BY <1>t DEF IdemRecord
      <4>2. idem' = [idem EXCEPT ![p] = e]
        BY <2>1, <2>a, <3>1 DEF IdemGo
      <4> HIDE DEF e
      <4> QED
        BY <4>1, <4>2
    <3>2. CASE ~old.owns
      <4> DEFINE e == [old EXCEPT !.pc = "done", !.own = a, !.answered = a]
      <4>1. /\ e \in IdemRecord /\ e.pc = "done" /\ e.fingerprint = old.fingerprint
            /\ e.holds = old.holds /\ e.own = a /\ e.answered = a
        BY <1>t DEF IdemRecord
      <4>2. idem' = [idem EXCEPT ![p] = e]
        BY <2>1, <2>a, <3>2 DEF IdemGo
      <4> HIDE DEF e
      <4> QED
        BY <4>1, <4>2
    <3> QED
      BY <3>1, <3>2
  <2>3. IdemMoves(p, r)
    BY <2>0, <2>2 DEF IdemMoves
  <2>4. Fits(r.own, r.fingerprint) /\ Fits(r.answered, r.fingerprint)
    BY <1>k, <2>0, <2>2, <2>a DEF Fits
  <2>5. IdemKnows(r, p)'
    BY <2>0, <2>2, <2>3, <2>4, KnowsAfter
  <2> QED
    BY <2>0, <2>2, <2>3, <2>5, QuietIdemStep
<1>6. CASE SendAnswer(p)
  <2>1. idem' = [idem EXCEPT ![p] = [idem[p] EXCEPT !.pc = "done", !.answered = idem[p].own]]
    BY <1>6 DEF SendAnswer, IdemGo
  <2>2. PICK r \in IdemRecord :
          /\ r = [idem[p] EXCEPT !.pc = "done", !.answered = idem[p].own]
          /\ r.pc = "done" /\ r.fingerprint = old.fingerprint
          /\ r.holds = old.holds /\ r.reply = old.reply /\ r.own = old.own
          /\ r.answered = old.own
    <3> DEFINE e == [idem[p] EXCEPT !.pc = "done", !.answered = idem[p].own]
    <3>1. /\ e \in IdemRecord
          /\ e.pc = "done" /\ e.fingerprint = old.fingerprint
          /\ e.holds = old.holds /\ e.reply = old.reply /\ e.own = old.own
          /\ e.answered = old.own
      BY <1>t, <1>f DEF IdemRecord
    <3> HIDE DEF e
    <3> QED
      BY <3>1 DEF e
  <2>3. IdemMoves(p, r)
    BY <1>6, <1>t, <2>1, <2>2 DEF IdemMoves, SendAnswer
  <2>4. Fits(r.own, r.fingerprint) /\ Fits(r.answered, r.fingerprint)
    BY <1>6, <1>t, <1>k, <2>2 DEF SendAnswer, IdemAt
  <2>5. IdemKnows(r, p)'
    <3>1. r.pc = "new" => /\ p \notin ran' /\ r.reply # "started"
                          /\ r.own = NoAnswer /\ r.answered = NoAnswer
      BY <1>6, <1>t, <2>2 DEF SendAnswer, IdemAt, IdemKnows
    <3>2. r.pc \in {"running", "completing"} => p \in ran'
      BY <1>6, <1>t, <2>2 DEF SendAnswer, IdemAt, IdemKnows
    <3> QED
      BY <2>3, <2>4, <3>1, <3>2, KnowsAfter
  <2>6. /\ UNCHANGED <<record, lapses>>
        /\ r.pc = "reserving" /\ r.reply = "started" => p \in ran \cup Tickets
        /\ p \in ran' => p \in ran \cup Tickets
    BY <1>6, <1>t, <2>2 DEF SendAnswer, IdemAt, Tickets
  <2> QED
    BY <2>2, <2>3, <2>5, <2>6, QuietIdemStep
<1>7. CASE ScriptLost(p)
  <2>1. idem' = [idem EXCEPT ![p] = [idem[p] EXCEPT !.sent = FALSE]]
    BY <1>7 DEF ScriptLost, IdemGo
  <2>2. PICK r \in IdemRecord :
          /\ r = [idem[p] EXCEPT !.sent = FALSE]
          /\ r.pc = old.pc /\ r.fingerprint = old.fingerprint
          /\ r.holds = old.holds /\ r.reply = old.reply /\ r.own = old.own
          /\ r.answered = old.answered
    <3> DEFINE e == [idem[p] EXCEPT !.sent = FALSE]
    <3>1. /\ e \in IdemRecord
          /\ e.pc = old.pc /\ e.fingerprint = old.fingerprint
          /\ e.holds = old.holds /\ e.reply = old.reply /\ e.own = old.own
          /\ e.answered = old.answered
      BY <1>t, <1>f DEF IdemRecord
    <3> HIDE DEF e
    <3> QED
      BY <3>1 DEF e
  <2>3. IdemMoves(p, r)
    BY <1>7, <1>t, <2>1, <2>2 DEF IdemMoves, ScriptLost
  <2>4. Fits(r.own, r.fingerprint) /\ Fits(r.answered, r.fingerprint)
    BY <1>7, <1>t, <1>k, <2>2 DEF ScriptLost, IdemAt
  <2>5. IdemKnows(r, p)'
    <3>1. r.pc = "new" => /\ p \notin ran' /\ r.reply # "started"
                          /\ r.own = NoAnswer /\ r.answered = NoAnswer
      BY <1>7, <1>t, <2>2 DEF ScriptLost, IdemAt, IdemKnows
    <3>2. r.pc \in {"running", "completing"} => p \in ran'
      BY <1>7, <1>t, <2>2 DEF ScriptLost, IdemAt, IdemKnows
    <3> QED
      BY <2>3, <2>4, <3>1, <3>2, KnowsAfter
  <2>6. /\ UNCHANGED <<record, lapses>>
        /\ r.pc = "reserving" /\ r.reply = "started" => p \in ran \cup Tickets
        /\ p \in ran' => p \in ran \cup Tickets
    BY <1>7, <1>t, <2>2 DEF ScriptLost, IdemAt, Tickets
  <2> QED
    BY <2>2, <2>3, <2>5, <2>6, QuietIdemStep
<1>8. CASE IdemCrash(p)
  <2>1. idem' = [idem EXCEPT ![p] = [idem[p] EXCEPT !.pc = "done"]]
    BY <1>8 DEF IdemCrash, IdemGo
  <2>2. PICK r \in IdemRecord :
          /\ r = [idem[p] EXCEPT !.pc = "done"]
          /\ r.pc = "done" /\ r.fingerprint = old.fingerprint
          /\ r.holds = old.holds /\ r.reply = old.reply /\ r.own = old.own
          /\ r.answered = old.answered
    <3> DEFINE e == [idem[p] EXCEPT !.pc = "done"]
    <3>1. /\ e \in IdemRecord
          /\ e.pc = "done" /\ e.fingerprint = old.fingerprint
          /\ e.holds = old.holds /\ e.reply = old.reply /\ e.own = old.own
          /\ e.answered = old.answered
      BY <1>t, <1>f DEF IdemRecord
    <3> HIDE DEF e
    <3> QED
      BY <3>1 DEF e
  <2>3. IdemMoves(p, r)
    BY <1>8, <1>t, <2>1, <2>2 DEF IdemMoves, IdemCrash
  <2>4. Fits(r.own, r.fingerprint) /\ Fits(r.answered, r.fingerprint)
    BY <1>8, <1>t, <1>k, <2>2 DEF IdemCrash, IdemAt
  <2>5. IdemKnows(r, p)'
    <3>1. r.pc = "new" => /\ p \notin ran' /\ r.reply # "started"
                          /\ r.own = NoAnswer /\ r.answered = NoAnswer
      BY <1>8, <1>t, <2>2 DEF IdemCrash, IdemAt, IdemKnows
    <3>2. r.pc \in {"running", "completing"} => p \in ran'
      BY <1>8, <1>t, <2>2 DEF IdemCrash, IdemAt, IdemKnows
    <3> QED
      BY <2>3, <2>4, <3>1, <3>2, KnowsAfter
  <2>6. /\ UNCHANGED <<record, lapses>>
        /\ r.pc = "reserving" /\ r.reply = "started" => p \in ran \cup Tickets
        /\ p \in ran' => p \in ran \cup Tickets
    BY <1>8, <1>t, <2>2 DEF IdemCrash, IdemAt, Tickets
  <2> QED
    BY <2>2, <2>3, <2>5, <2>6, QuietIdemStep
<1> QED
  BY <1>1, <1>2, <1>3, <1>4, <1>5, <1>6, <1>7, <1>8

\* Redis runs the script that reserves.
LEMMA ReserveScriptKeepsIdem ==
  ASSUME IdemInv, NEW p \in IdemRequests, ReserveScript(p)
  PROVE  IdemInv'
<1> DEFINE old == idem[p]
<1>t. /\ old \in IdemRecord /\ IdemKnows(old, p) /\ IdemTypeOK /\ record \in KeyRecord
      /\ NoAnswer \in Answer /\ NoOne \notin IdemRequests /\ UNCHANGED <<lapses, ran>>
      /\ idem \in [IdemRequests -> IdemRecord] /\ lapses \in Nat /\ lapses \in 0 .. MaxLapses
  BY IdemAssumption DEF IdemInv, IdemTypeOK, NoAnswer, Answer, ReserveScript
<1>f. /\ old.fingerprint \in Fingerprints /\ old.own \in Answer /\ old.answered \in Answer
      /\ old.sent \in BOOLEAN /\ old.owns \in BOOLEAN /\ old.holds \in BOOLEAN
  BY <1>t DEF IdemRecord
<1>k. /\ Fits(old.own, old.fingerprint) /\ Fits(old.answered, old.fingerprint)
      /\ \A f \in Fingerprints : Fits(NoAnswer, f)
  BY <1>t DEF IdemKnows, Fits, NoAnswer
<1>r. /\ record.state \in {"absent", "in_flight", "completed"}
      /\ record.fingerprint \in Fingerprints /\ record.answer \in Answer
  BY <1>t, RecordFields
<1> DEFINE seen == [old EXCEPT !.sent = FALSE]
<1>s. /\ seen \in IdemRecord /\ seen.pc = old.pc /\ seen.fingerprint = old.fingerprint
      /\ seen.holds = old.holds /\ seen.reply = old.reply
      /\ seen.own = old.own /\ seen.answered = old.answered
  BY <1>t DEF IdemRecord
<1>1. CASE Vacant(p)
  <2>1. PICK r \in IdemRecord :
          /\ idem' = [idem EXCEPT ![p] = r]
          /\ r.pc = old.pc /\ r.fingerprint = old.fingerprint
          /\ r.own = old.own /\ r.answered = old.answered
          /\ old.pc # "reserving" => r.reply = old.reply
    <3>1. CASE old.pc = "reserving"
      <4> DEFINE e == [seen EXCEPT !.reply = "started", !.holds = TRUE]
      <4>1. /\ e \in IdemRecord /\ e.pc = seen.pc /\ e.fingerprint = seen.fingerprint
            /\ e.own = seen.own /\ e.answered = seen.answered
        <5> HIDE DEF seen
        <5> QED
          BY <1>s DEF IdemRecord
      <4>2. idem' = [idem EXCEPT ![p] = e]
        BY <1>1, <3>1 DEF ReserveScript, IdemGo, IdemAt
      <4> HIDE DEF e, seen
      <4> QED
        BY <1>s, <3>1, <4>1, <4>2
    <3>2. CASE old.pc # "reserving"
      <4>1. idem' = [idem EXCEPT ![p] = seen]
        BY <1>1, <3>2 DEF ReserveScript, IdemGo, IdemAt
      <4> HIDE DEF seen
      <4> QED
        BY <1>s, <3>2, <4>1
    <3> QED
      BY <3>1, <3>2
  <2>2. PICK k \in KeyRecord : /\ record' = k /\ k.state = "in_flight" /\ k.owner = p
    <3> DEFINE k == [state |-> "in_flight", owner |-> p, fingerprint |-> old.fingerprint,
                     answer |-> NoAnswer]
    <3>1. k \in KeyRecord /\ k.state = "in_flight" /\ k.owner = p
      BY <1>f DEF KeyRecord
    <3>2. record' = k
      BY <1>1 DEF ReserveScript
    <3> HIDE DEF k
    <3> QED
      BY <3>1, <3>2
  <2>3. IdemMoves(p, r)
    BY <1>t, <2>1 DEF IdemMoves
  <2>4. IdemKnows(r, p)'
    <3>1. Fits(r.own, r.fingerprint) /\ Fits(r.answered, r.fingerprint)
      BY <1>k, <2>1
    <3>2. r.pc = "new" => /\ p \notin ran' /\ r.reply # "started"
                          /\ r.own = NoAnswer /\ r.answered = NoAnswer
      BY <1>t, <2>1 DEF IdemKnows
    <3>3. r.pc \in {"running", "completing"} => p \in ran'
      BY <1>t, <2>1 DEF IdemKnows
    <3> QED
      BY <2>3, <3>1, <3>2, <3>3, KnowsAfter
  <2>5. StartsArePaid'
    <3>1. Tickets' \subseteq Tickets \cup {p}
      BY <1>t, <2>1 DEF Tickets
    <3>2. ran' \cup Tickets' \subseteq ran \cup Tickets \cup {p}
      BY <1>t, <3>1
    <3>3. Records = 0 /\ Records' = 1
      BY <1>1, <2>2 DEF Vacant, Records
    <3>4. lapses + Records + 1 <= lapses' + Records'
      BY <1>t, <3>3
    <3> QED
      BY <1>t, <3>2, <3>4, PaidOne DEF IdemInv
  <2>6. ReservationIsKept'
    <3>1. \A q \in IdemRequests \ {p} : idem'[q] = idem[q] /\ ~idem[q].holds
      BY <1>1, <1>t, <2>1 DEF Vacant, IdemInv, ReservationIsKept
    <3> QED
      BY <2>2, <3>1 DEF ReservationIsKept
  <2>7. RecordFits'
    BY <2>2 DEF RecordFits
  <2> QED
    BY <1>t, <2>2, <2>3, <2>4, <2>5, <2>6, <2>7, IdemRequestMoves
<1>2. CASE ~Vacant(p)
  <2>0. UNCHANGED record
    BY <1>2 DEF ReserveScript
  <2>1. PICK r \in IdemRecord :
          /\ idem' = [idem EXCEPT ![p] = r]
          /\ r.pc = old.pc /\ r.fingerprint = old.fingerprint /\ r.holds = old.holds
          /\ r.answered = old.answered /\ Fits(r.own, r.fingerprint)
          /\ \/ r.reply = old.reply /\ r.own = old.own
             \/ r.reply # "started" /\ old.pc = "reserving"
    <3>1. CASE old.pc = "reserving"
      <4>1. PICK y \in {"conflict", "mismatch", "replay"}, a \in Answer :
              /\ idem' = [idem EXCEPT ![p] = [seen EXCEPT !.reply = y, !.own = a]]
              /\ \/ a = NoAnswer
                 \/ a = record.answer /\ record.state = "completed"
                    /\ record.fingerprint = old.fingerprint
        BY <1>2, <1>t, <1>r, <3>1 DEF ReserveScript, IdemGo, IdemAt, Vacant
      <4> DEFINE e == [seen EXCEPT !.reply = y, !.own = a]
      <4>2. /\ e \in IdemRecord /\ e.pc = seen.pc /\ e.fingerprint = seen.fingerprint
            /\ e.own = a /\ e.answered = seen.answered /\ e.holds = seen.holds /\ e.reply = y
        <5> HIDE DEF seen
        <5> QED
          BY <1>s DEF IdemRecord
      <4>3. Fits(a, old.fingerprint)
        BY <1>k, <1>f, <4>1 DEF IdemInv, RecordFits
      <4> HIDE DEF e, seen
      <4> QED
        BY <1>s, <3>1, <4>1, <4>2, <4>3 DEF e
    <3>2. CASE old.pc # "reserving"
      <4>1. idem' = [idem EXCEPT ![p] = seen]
        BY <1>2, <3>2 DEF ReserveScript, IdemGo, IdemAt
      <4> HIDE DEF seen
      <4> QED
        BY <1>s, <1>k, <3>2, <4>1
    <3> QED
      BY <3>1, <3>2
  <2>3. IdemMoves(p, r)
    BY <1>t, <2>1 DEF IdemMoves
  <2>4. IdemKnows(r, p)'
    <3>1. Fits(r.own, r.fingerprint) /\ Fits(r.answered, r.fingerprint)
      BY <1>k, <2>1
    <3>2. r.pc = "new" => /\ p \notin ran' /\ r.reply # "started"
                          /\ r.own = NoAnswer /\ r.answered = NoAnswer
      BY <1>t, <2>1 DEF IdemKnows
    <3>3. r.pc \in {"running", "completing"} => p \in ran'
      BY <1>t, <2>1 DEF IdemKnows
    <3> QED
      BY <2>3, <3>1, <3>2, <3>3, KnowsAfter
  <2>5. /\ r.pc = "reserving" /\ r.reply = "started" => p \in ran \cup Tickets
        /\ p \in ran' => p \in ran \cup Tickets
    BY <1>t, <2>1 DEF Tickets
  <2> QED
    BY <1>t, <2>0, <2>1, <2>3, <2>4, <2>5, QuietIdemStep
<1> QED
  BY <1>1, <1>2

\* A reservation that fails: the handler runs without a record, or not at all.
LEMMA ReserveFailsKeepsIdem ==
  ASSUME IdemInv, NEW p \in IdemRequests, ReserveFails(p)
  PROVE  IdemInv'
<1> DEFINE old == idem[p]
<1>t. /\ old \in IdemRecord /\ IdemKnows(old, p) /\ IdemTypeOK /\ record \in KeyRecord
      /\ idem \in [IdemRequests -> IdemRecord] /\ UNCHANGED record
      /\ lapses \in Nat /\ MaxLapses \in Nat /\ lapses \in 0 .. MaxLapses
  BY IdemAssumption DEF IdemInv, IdemTypeOK, ReserveFails
<1>1. CASE idem' = [idem EXCEPT ![p] = [old EXCEPT !.pc = "running", !.holds = FALSE]]
           /\ Lapse /\ ran' = ran \cup {p}
  <2>1. PICK r \in IdemRecord :
          /\ idem' = [idem EXCEPT ![p] = r] /\ r.pc = "running" /\ r.holds = FALSE
          /\ r.fingerprint = old.fingerprint /\ r.own = old.own /\ r.answered = old.answered
    <3> DEFINE e == [old EXCEPT !.pc = "running", !.holds = FALSE]
    <3>1. /\ e \in IdemRecord /\ e.pc = "running" /\ e.holds = FALSE
          /\ e.fingerprint = old.fingerprint /\ e.own = old.own /\ e.answered = old.answered
      BY <1>t DEF IdemRecord
    <3>2. idem' = [idem EXCEPT ![p] = e]
      BY <1>1
    <3> HIDE DEF e
    <3> QED
      BY <3>1, <3>2
  <2>2. IdemMoves(p, r)
    BY <1>1, <2>1 DEF IdemMoves
  <2>3. IdemKnows(r, p)'
    <3>1. Fits(r.own, r.fingerprint) /\ Fits(r.answered, r.fingerprint)
      BY <1>t, <2>1 DEF IdemKnows
    <3> QED
      BY <1>1, <2>1, <2>2, <3>1, KnowsAfter
  <2>4. lapses' = lapses + 1 /\ lapses' \in 0 .. MaxLapses /\ lapses' \in Nat
    BY <1>1, <1>t DEF Lapse
  <2>5. StartsArePaid'
    <3>1. Tickets' \subseteq Tickets
      BY <1>t, <2>1 DEF Tickets
    <3>2. ran' \cup Tickets' \subseteq ran \cup Tickets \cup {p}
      BY <1>1, <3>1
    <3>3. PICK n \in Nat : n = Records /\ n = Records'
      BY <1>t DEF Records
    <3>4. lapses + Records + 1 <= lapses' + Records'
      <4>1. lapses + n + 1 <= lapses' + n
        BY <1>t, <2>4
      <4> QED
        BY <3>3, <4>1
    <3> QED
      BY <1>t, <2>4, <3>2, <3>4, PaidOne DEF IdemInv
  <2>6. ReservationIsKept'
    <3>1. \A q \in IdemRequests : idem'[q] = IF q = p THEN r ELSE idem[q]
      BY <1>t, <2>1
    <3> QED
      BY <1>t, <2>1, <3>1 DEF IdemInv, ReservationIsKept
  <2>7. RecordFits'
    <3>1. PICK a \in Answer, f \in Fingerprints : a = record.answer /\ f = record.fingerprint
      BY <1>t, RecordFields
    <3>2. Fits(a, f) => Fits(a, f)'
      BY <1>t, <2>2, FitsStays
    <3> QED
      BY <1>t, <3>1, <3>2 DEF IdemInv, RecordFits, Fits
  <2> QED
    BY <1>t, <2>2, <2>3, <2>4, <2>5, <2>6, <2>7, IdemRequestMoves
<1>2. CASE idem' = [idem EXCEPT ![p] = [old EXCEPT !.pc = "done", !.holds = FALSE]]
           /\ UNCHANGED <<lapses, ran>>
  <2>1. PICK r \in IdemRecord :
          /\ idem' = [idem EXCEPT ![p] = r] /\ r.pc = "done" /\ r.holds = FALSE
          /\ r.fingerprint = old.fingerprint /\ r.own = old.own /\ r.answered = old.answered
    <3> DEFINE e == [old EXCEPT !.pc = "done", !.holds = FALSE]
    <3>1. /\ e \in IdemRecord /\ e.pc = "done" /\ e.holds = FALSE
          /\ e.fingerprint = old.fingerprint /\ e.own = old.own /\ e.answered = old.answered
      BY <1>t DEF IdemRecord
    <3>2. idem' = [idem EXCEPT ![p] = e]
      BY <1>2
    <3> HIDE DEF e
    <3> QED
      BY <3>1, <3>2
  <2>2. IdemMoves(p, r)
    BY <1>2, <2>1 DEF IdemMoves
  <2>3. IdemKnows(r, p)'
    <3>1. Fits(r.own, r.fingerprint) /\ Fits(r.answered, r.fingerprint)
      BY <1>t, <2>1 DEF IdemKnows
    <3> QED
      BY <1>2, <2>1, <2>2, <3>1, KnowsAfter
  <2> QED
    BY <1>2, <1>t, <2>1, <2>2, <2>3, QuietIdemStep
<1> QED
  BY <1>1, <1>2 DEF ReserveFails, IdemGo

\* Redis runs the script that keeps the answer.
LEMMA CompleteScriptKeepsIdem ==
  ASSUME IdemInv, NEW p \in IdemRequests, CompleteScript(p)
  PROVE  IdemInv'
<1> DEFINE old == idem[p]
<1>t. /\ old \in IdemRecord /\ IdemKnows(old, p) /\ IdemTypeOK /\ record \in KeyRecord
      /\ idem \in [IdemRequests -> IdemRecord] /\ UNCHANGED <<lapses, ran>>
      /\ lapses \in Nat /\ lapses \in 0 .. MaxLapses
  BY IdemAssumption DEF IdemInv, IdemTypeOK, CompleteScript
<1>f. old.fingerprint \in Fingerprints /\ old.own \in Answer
  BY <1>t DEF IdemRecord
<1>1. PICK r \in IdemRecord :
        /\ idem' = [idem EXCEPT ![p] = r] /\ r.pc = old.pc /\ r.holds = FALSE
        /\ r.fingerprint = old.fingerprint /\ r.own = old.own /\ r.answered = old.answered
        /\ r.reply = old.reply
  <2> DEFINE e == [old EXCEPT !.sent = FALSE, !.holds = FALSE]
  <2>1. /\ e \in IdemRecord /\ e.pc = old.pc /\ e.holds = FALSE /\ e.reply = old.reply
        /\ e.fingerprint = old.fingerprint /\ e.own = old.own /\ e.answered = old.answered
    BY <1>t DEF IdemRecord
  <2>2. idem' = [idem EXCEPT ![p] = e]
    BY DEF CompleteScript, IdemGo
  <2> HIDE DEF e
  <2> QED
    BY <2>1, <2>2
<1>2. IdemMoves(p, r)
  BY <1>1, <1>t DEF IdemMoves
<1>3. IdemKnows(r, p)'
  <2>1. Fits(r.own, r.fingerprint) /\ Fits(r.answered, r.fingerprint)
    BY <1>t, <1>1 DEF IdemKnows
  <2>2. r.pc = "new" => /\ p \notin ran' /\ r.reply # "started"
                        /\ r.own = NoAnswer /\ r.answered = NoAnswer
    BY <1>t, <1>1 DEF IdemKnows
  <2>3. r.pc \in {"running", "completing"} => p \in ran'
    BY <1>t, <1>1 DEF IdemKnows
  <2> QED
    BY <1>2, <2>1, <2>2, <2>3, KnowsAfter
<1>4. /\ r.pc = "reserving" /\ r.reply = "started" => p \in ran \cup Tickets
      /\ p \in ran' => p \in ran \cup Tickets
  BY <1>t, <1>1 DEF Tickets
<1>5. CASE ~OwnReservation(p)
  <2>1. UNCHANGED record
    BY <1>5 DEF CompleteScript
  <2> QED
    BY <1>t, <1>1, <1>2, <1>3, <1>4, <2>1, QuietIdemStep
<1>6. CASE OwnReservation(p)
  <2>1. PICK k \in KeyRecord : /\ record' = k /\ k.state = "completed"
                               /\ k.fingerprint = old.fingerprint /\ k.answer = old.own
    <3> DEFINE k == [state |-> "completed", owner |-> NoOne,
                     fingerprint |-> old.fingerprint, answer |-> old.own]
    <3>1. /\ k \in KeyRecord /\ k.state = "completed"
          /\ k.fingerprint = old.fingerprint /\ k.answer = old.own
      BY <1>f DEF KeyRecord
    <3>2. record' = k
      BY <1>6 DEF CompleteScript
    <3> HIDE DEF k
    <3> QED
      BY <3>1, <3>2
  <2>2. \A q \in IdemRequests : idem'[q] = IF q = p THEN r ELSE idem[q]
    BY <1>t, <1>1
  <2>3. StartsArePaid'
    <3>1. Tickets' \subseteq Tickets
      BY <1>1, <2>2 DEF Tickets
    <3>2. Records = 1 /\ Records' = 1
      BY <1>6, <2>1 DEF OwnReservation, Records
    <3>3. lapses + Records <= lapses' + Records' /\ lapses' \in Nat
      BY <1>t, <3>2
    <3>4. ran' \cup Tickets' \subseteq ran \cup Tickets
      BY <1>t, <3>1
    <3> QED
      BY <1>t, <3>3, <3>4, PaidSubset DEF IdemInv
  <2>4. ReservationIsKept'
    BY <1>1, <1>6, <2>2 DEF OwnReservation, IdemInv, ReservationIsKept
  <2>5. RecordFits'
    <3>1. PICK a \in Answer, f \in Fingerprints : a = old.own /\ f = old.fingerprint
      BY <1>f
    <3>2. Fits(a, f)'
      BY <1>t, <1>2, <3>1, FitsStays DEF IdemKnows
    <3> QED
      BY <2>1, <3>1, <3>2 DEF RecordFits, Fits
  <2> QED
    BY <1>t, <1>2, <1>3, <2>1, <2>3, <2>4, <2>5, IdemRequestMoves
<1> QED
  BY <1>5, <1>6

LEMMA RecordExpiresKeepsIdem ==
  ASSUME IdemInv, RecordExpires
  PROVE  IdemInv'
<1>t. /\ IdemTypeOK /\ idem \in [IdemRequests -> IdemRecord] /\ ran' = ran
      /\ record' = Absent /\ record.state # "absent"
      /\ lapses \in Nat /\ MaxLapses \in Nat
  BY IdemAssumption DEF IdemInv, IdemTypeOK, RecordExpires
<1>1. lapses' = lapses + 1 /\ lapses' \in 0 .. MaxLapses /\ lapses' \in Nat
  BY <1>t DEF RecordExpires, Lapse
<1>2. ASSUME NEW q \in IdemRequests
      PROVE  /\ idem'[q] \in IdemRecord /\ ~idem'[q].holds
             /\ idem'[q].pc = idem[q].pc /\ idem'[q].reply = idem[q].reply
             /\ idem'[q].fingerprint = idem[q].fingerprint
             /\ idem'[q].own = idem[q].own /\ idem'[q].answered = idem[q].answered
  <2> DEFINE e == [idem[q] EXCEPT !.holds = FALSE]
  <2>1. /\ e \in IdemRecord /\ ~e.holds /\ e.pc = idem[q].pc /\ e.reply = idem[q].reply
        /\ e.fingerprint = idem[q].fingerprint
        /\ e.own = idem[q].own /\ e.answered = idem[q].answered
    BY <1>t DEF IdemRecord
  <2>2. idem'[q] = e
    BY DEF RecordExpires
  <2> HIDE DEF e
  <2> QED
    BY <2>1, <2>2
<1>3. IdemTypeOK'
  <2>1. idem' \in [IdemRequests -> IdemRecord]
    <3>1. idem' = [q \in IdemRequests |-> idem'[q]]
      BY DEF RecordExpires
    <3> QED
      BY <1>2, <3>1
  <2> QED
    BY <1>t, <1>1, <2>1, AbsentFits DEF IdemTypeOK
<1>4. StartsArePaid'
  <2>1. Tickets' \subseteq Tickets
    BY <1>2 DEF Tickets
  <2>2. Records = 1 /\ Records' = 0
    BY <1>t, AbsentFits DEF Records
  <2>3. lapses + Records <= lapses' + Records'
    BY <1>t, <1>1, <2>2
  <2>4. ran' \cup Tickets' \subseteq ran \cup Tickets
    BY <1>t, <2>1
  <2> QED
    BY <1>t, <1>1, <2>3, <2>4, PaidSubset DEF IdemInv
<1>5. ReservationIsKept' /\ RecordFits'
  BY <1>t, <1>2, AbsentFits DEF ReservationIsKept, RecordFits
<1>6. ASSUME NEW q \in IdemRequests PROVE IdemKnows(idem[q], q)'
  <2>1. IdemKnows(idem[q], q) /\ idem[q] \in IdemRecord
    BY <1>t DEF IdemInv
  <2>2. idem[q].own.of \in IdemRequests \cup {NoOne}
        /\ idem[q].answered.of \in IdemRequests \cup {NoOne}
    BY <2>1 DEF IdemRecord, Answer
  <2> QED
    BY <1>t, <1>2, <2>1, <2>2 DEF IdemKnows, Fits
<1> QED
  BY <1>3, <1>4, <1>5, <1>6 DEF IdemInv

LEMMA IdemInitInv == IdemInit => IdemInv
<1> SUFFICES ASSUME IdemInit PROVE IdemInv
  OBVIOUS
<1>1. IdemTypeOK
  <2>1. NoAnswer \in Answer /\ Absent.fingerprint \in Fingerprints
    BY IdemAssumption DEF NoAnswer, Answer, Absent
  <2> DEFINE e == [pc |-> "new", fingerprint |-> Absent.fingerprint, sent |-> FALSE,
                   reply |-> "none", owns |-> FALSE, holds |-> FALSE, own |-> NoAnswer,
                   answered |-> NoAnswer]
  <2>2. e \in IdemRecord
    BY <2>1 DEF IdemRecord
  <2>3. idem = [p \in IdemRequests |-> e]
    BY DEF IdemInit
  <2>4. record \in KeyRecord /\ lapses \in 0 .. MaxLapses /\ ran \subseteq IdemRequests
    BY AbsentFits, IdemAssumption DEF IdemInit
  <2> HIDE DEF e
  <2>5. idem \in [IdemRequests -> IdemRecord]
    BY <2>2, <2>3
  <2> QED
    BY <2>4, <2>5 DEF IdemTypeOK
<1>2. StartsArePaid
  <2>1. ran \cup Tickets = {}
    BY DEF IdemInit, Tickets
  <2>2. Records = 0 /\ lapses = 0
    BY AbsentFits DEF IdemInit, Records
  <2> QED
    BY <2>1, <2>2, FS_EmptySet DEF StartsArePaid
<1>3. ReservationIsKept /\ RecordFits
  BY AbsentFits DEF IdemInit, ReservationIsKept, RecordFits
<1>4. ASSUME NEW q \in IdemRequests PROVE IdemKnows(idem[q], q)
  BY DEF IdemInit, IdemKnows, Fits, NoAnswer
<1> QED
  BY <1>1, <1>2, <1>3, <1>4 DEF IdemInv

\* The strengthened invariant of a key: every start is paid by a record or a lapse, a live
\* reservation is its owner's, and every answer that is kept or held fits its fingerprint.
THEOREM IdemInvariant == IdemSpec => []IdemInv
<1>1. IdemInv /\ [IdemNext]_idemVars => IdemInv'
  <2> SUFFICES ASSUME IdemInv, [IdemNext]_idemVars PROVE IdemInv'
    OBVIOUS
  <2>1. CASE RecordExpires
    BY <2>1, RecordExpiresKeepsIdem
  <2>2. ASSUME NEW p \in IdemRequests,
               \/ Intercept(p) \/ ReserveScript(p) \/ Proceed(p) \/ Refuse(p) \/ Replay(p)
               \/ ReserveFails(p) \/ HandlerReturns(p) \/ CompleteScript(p) \/ SendAnswer(p)
               \/ ScriptLost(p) \/ IdemCrash(p)
        PROVE  IdemInv'
    BY <2>2, RequestKeepsIdem, ReserveScriptKeepsIdem, ReserveFailsKeepsIdem,
       CompleteScriptKeepsIdem
  <2>3. CASE UNCHANGED idemVars
    BY <2>3 DEF idemVars, IdemInv, IdemTypeOK, StartsArePaid, Tickets, Records,
                ReservationIsKept, RecordFits, Fits, IdemKnows
  <2> QED
    BY <2>1, <2>2, <2>3 DEF IdemNext
<1> QED
  BY <1>1, IdemInitInv, PTL DEF IdemSpec

\* A key starts its handler once, and once more for each lapse; a reservation that has not
\* expired stays with its request; and every answer is of a handler that ran for the same
\* fingerprint.
THEOREM KeyRunsOnceHolds == IdemSpec => []KeyRunsOnce
<1>1. IdemInv => KeyRunsOnce
  <2> SUFFICES ASSUME IdemInv PROVE KeyRunsOnce
    OBVIOUS
  <2>1. RunsAreCounted
    <3>1. ran \subseteq ran \cup Tickets
      OBVIOUS
    <3>2. /\ IsFiniteSet(ran) /\ Cardinality(ran) <= Cardinality(ran \cup Tickets)
      BY <3>1, FS_Subset DEF IdemInv, StartsArePaid
    <3>3. PICK s \in Nat, t \in Nat : s = Cardinality(ran) /\ t = Cardinality(ran \cup Tickets)
      BY <3>2, FS_CardinalityType DEF IdemInv, StartsArePaid
    <3>4. PICK n \in {0, 1} : n = Records
      BY DEF Records
    <3>5. lapses \in Nat
      BY IdemAssumption DEF IdemInv, IdemTypeOK
    <3>6. s <= t /\ t <= lapses + n
      BY <3>2, <3>3, <3>4 DEF IdemInv, StartsArePaid
    <3>7. s <= 1 + lapses
      BY <3>4, <3>5, <3>6
    <3> QED
      BY <3>3, <3>7 DEF RunsAreCounted
  <2>2. AnswerFits
    <3> SUFFICES ASSUME NEW p \in IdemRequests, idem[p].answered.of # NoOne
                 PROVE  /\ idem[p].answered.of \in ran
                        /\ idem[idem[p].answered.of].fingerprint = idem[p].fingerprint
      BY DEF AnswerFits
    <3>1. IdemKnows(idem[p], p)
      BY DEF IdemInv
    <3> QED
      BY <3>1 DEF IdemKnows, Fits
  <2> QED
    BY <2>1, <2>2 DEF KeyRunsOnce, IdemInv
<1> QED
  BY <1>1, IdemInvariant, PTL

-----------------------------------------------------------------------------
(* InboundWebhooks.                                                        *)

\* A guard waits within the tolerance of its request and no longer than Lag; a delivery for which
\* a mark was set is covered by that mark, set within the tolerance and the wait.
DeliveryFits(x) ==
  /\ x.at \in {"guard", "replied"} =>
       /\ x.verified - x.stamp \in (0 - Tolerance) .. Tolerance
       /\ x.verified <= clock /\ clock - x.verified <= Lag
  /\ x.won => /\ x.at \in {"replied", "handed"}
              /\ x.marked <= clock /\ x.marked + MarkTtl <= mark[x.event]
              /\ 0 - Tolerance <= x.marked - x.stamp /\ x.marked - x.stamp <= Tolerance + Lag
  /\ x.at = "handed" => x.won

\* Two marks of one event were not set within the lifetime of one.
MarksApart(x, y) ==
  x.won /\ y.won /\ x.event = y.event =>
    x.marked - y.marked > MarkTtl \/ y.marked - x.marked > MarkTtl

HookInv ==
  /\ HookTypeOK
  /\ \A d \in HookDeliveries : DeliveryFits(delivery[d])
  /\ \A c, d \in HookDeliveries : c # d => MarksApart(delivery[c], delivery[d])

\* One delivery moves, and no mark gets shorter.
LEMMA DeliveryMoves ==
  ASSUME HookInv, NEW d \in HookDeliveries, NEW x \in Delivery,
         delivery' = [delivery EXCEPT ![d] = x], clock' = clock,
         mark' \in [Events -> -1 .. MaxTime + MarkTtl],
         \A e \in Events : mark[e] <= mark'[e],
         DeliveryFits(x)',
         \A c \in HookDeliveries \ {d} : MarksApart(delivery[c], x)
  PROVE  HookInv'
<1>t. /\ delivery \in [HookDeliveries -> Delivery] /\ clock \in Time
      /\ mark \in [Events -> -1 .. MaxTime + MarkTtl]
      /\ {MaxTime, Tolerance, MarkTtl, Lag} \subseteq Nat
  BY WebhookAssumption DEF HookInv, HookTypeOK
<1>d. delivery'[d] = x /\ \A c \in HookDeliveries \ {d} : delivery'[c] = delivery[c]
  BY <1>t
<1>1. HookTypeOK'
  BY <1>t DEF HookTypeOK
<1>2. ASSUME NEW c \in HookDeliveries PROVE DeliveryFits(delivery[c])'
  <2>1. CASE c = d
    BY <1>d, <2>1 DEF DeliveryFits
  <2>2. CASE c # d
    <3> DEFINE y == delivery[c]
    <3>1. y \in Delivery /\ DeliveryFits(y) /\ delivery'[c] = y
      BY <1>t, <1>d, <2>2 DEF HookInv
    <3>2. y.event \in Events /\ y.marked \in Int /\ mark[y.event] \in Int /\ mark'[y.event] \in Int
          /\ mark[y.event] <= mark'[y.event]
      BY <1>t, <3>1 DEF Delivery, Time
    <3> HIDE DEF y
    <3>3. y.won => y.marked + MarkTtl <= mark'[y.event]
      BY <1>t, <3>1, <3>2 DEF DeliveryFits
    <3> QED
      BY <3>1, <3>3 DEF DeliveryFits
  <2> QED
    BY <2>1, <2>2
<1>3. ASSUME NEW b \in HookDeliveries, NEW c \in HookDeliveries, b # c
      PROVE  MarksApart(delivery[b], delivery[c])'
  <2>1. MarksApart(delivery'[b], delivery'[c])
    <3>1. CASE b = d
      BY <1>3, <1>d, <3>1 DEF MarksApart
    <3>2. CASE c = d
      BY <1>3, <1>d, <3>2 DEF MarksApart
    <3>3. CASE b # d /\ c # d
      BY <1>3, <1>d, <3>3 DEF HookInv
    <3> QED
      BY <3>1, <3>2, <3>3
  <2> QED
    BY <2>1 DEF MarksApart
<1> QED
  BY <1>1, <1>2, <1>3 DEF HookInv

\* A SET leaves every mark at least as long as it was.
LEMMA MarkedGrows ==
  ASSUME HookTypeOK, NEW e \in Events, mark' = Marked(e)
  PROVE  /\ mark' \in [Events -> -1 .. MaxTime + MarkTtl]
         /\ \A f \in Events : mark[f] <= mark'[f]
         /\ mark[e] < clock => mark'[e] = clock + MarkTtl
<1>1. /\ mark \in [Events -> -1 .. MaxTime + MarkTtl] /\ clock \in 0 .. MaxTime
      /\ MaxTime \in Nat /\ MarkTtl \in Nat
  BY WebhookAssumption DEF HookTypeOK, Time
<1> DEFINE m == IF mark[e] < clock THEN clock + MarkTtl ELSE mark[e]
<1>2. mark' = [mark EXCEPT ![e] = m]
  BY <1>1 DEF Marked
<1>3. m \in -1 .. MaxTime + MarkTtl /\ mark[e] <= m /\ (mark[e] < clock => m = clock + MarkTtl)
  BY <1>1
<1> HIDE DEF m
<1>4. mark' \in [Events -> -1 .. MaxTime + MarkTtl] /\ mark'[e] = m
  BY <1>1, <1>2, <1>3
<1>5. ASSUME NEW f \in Events PROVE mark[f] <= mark'[f]
  <2>1. CASE f = e
    BY <1>3, <1>4, <2>1
  <2>2. CASE f # e
    <3>1. mark'[f] = mark[f] /\ mark[f] \in Int
      BY <1>1, <1>2, <2>2
    <3> QED
      BY <3>1
  <2> QED
    BY <2>1, <2>2
<1> QED
  BY <1>3, <1>4, <1>5

\* A free slot fits whatever the marks.
LEMMA FreeFits == Free \in Delivery /\ Free.at = "free" /\ ~Free.won
<1>1. AnyEvent \in Events
  BY WebhookAssumption DEF AnyEvent
<1>2. 0 \in Time /\ 0 \in Stamp
  BY WebhookAssumption DEF Time, Stamp
<1> QED
  BY <1>1, <1>2 DEF Free, Delivery

\* A delivery, at each of its steps.
LEMMA DeliveryKeepsHook ==
  ASSUME HookInv, NEW d \in HookDeliveries,
         Verify(d) \/ MarkFirst(d) \/ Reply(d) \/ LetThrough(d) \/ LateMark(d)
  PROVE  HookInv'
<1> DEFINE old == delivery[d]
<1>t. /\ delivery \in [HookDeliveries -> Delivery] /\ clock \in 0 .. MaxTime /\ HookTypeOK
      /\ mark \in [Events -> -1 .. MaxTime + MarkTtl] /\ old \in Delivery
      /\ {MaxTime, Tolerance, MarkTtl, Lag} \subseteq Nat /\ DeliveryFits(old)
  BY WebhookAssumption DEF HookInv, HookTypeOK, Time
<1>o. /\ old.event \in Events /\ old.stamp \in Int /\ old.verified \in Int /\ old.marked \in Int
      /\ mark[old.event] \in Int /\ old.won \in BOOLEAN
  BY <1>t DEF Delivery, Time, Stamp
\* The marks stay as they are, and the record wins none.
<1>u. ASSUME NEW x \in Delivery, delivery' = [delivery EXCEPT ![d] = x],
             UNCHANGED <<clock, mark>>, DeliveryFits(x),
             x.won => old.won /\ x.event = old.event /\ x.marked = old.marked
      PROVE  HookInv'
  <2>1. DeliveryFits(x)'
    BY <1>u DEF DeliveryFits
  <2>2. \A c \in HookDeliveries \ {d} : MarksApart(delivery[c], x)
    <3> SUFFICES ASSUME NEW c \in HookDeliveries \ {d} PROVE MarksApart(delivery[c], x)
      OBVIOUS
    <3>1. MarksApart(delivery[c], old)
      BY DEF HookInv
    <3> QED
      BY <1>u, <3>1 DEF MarksApart
  <2>3. \A e \in Events : mark[e] <= mark'[e]
    <3> SUFFICES ASSUME NEW e \in Events PROVE mark[e] <= mark'[e]
      OBVIOUS
    <3>1. mark[e] \in Int
      BY <1>t
    <3> QED
      BY <1>u, <3>1
  <2> QED
    BY <1>u, <1>t, <2>1, <2>2, <2>3, DeliveryMoves
<1>f. ASSUME delivery' = [delivery EXCEPT ![d] = Free], UNCHANGED <<clock, mark>>
      PROVE  HookInv'
  <2>1. DeliveryFits(Free)
    BY FreeFits DEF DeliveryFits
  <2> QED
    BY <1>f, <1>u, <2>1, FreeFits
<1>1. CASE Verify(d)
  <2>1. PICK e \in Events, s \in Stamp :
          /\ TimestampAllowed(s)
          /\ delivery' = [delivery EXCEPT ![d] = [Free EXCEPT !.event = e, !.stamp = s,
                                                              !.at = "guard", !.verified = clock]]
    BY <1>1 DEF Verify
  <2> DEFINE x == [Free EXCEPT !.event = e, !.stamp = s, !.at = "guard", !.verified = clock]
  <2>2. x \in Delivery /\ x.at = "guard" /\ x.verified = clock /\ x.stamp = s /\ ~x.won
    BY <1>t, FreeFits DEF Delivery, Time
  <2>3. delivery' = [delivery EXCEPT ![d] = x]
    BY <2>1
  <2> HIDE DEF x
  <2>4. DeliveryFits(x)
    BY <1>t, <2>1, <2>2 DEF DeliveryFits, TimestampAllowed
  <2> QED
    BY <1>1, <1>u, <2>2, <2>3, <2>4 DEF Verify
<1>2. CASE MarkFirst(d)
  <2> DEFINE e == old.event
  <2>w. PICK w \in BOOLEAN : w <=> mark[e] < clock
    OBVIOUS
  <2>0. w = (mark[e] < clock)
    BY <1>t, <1>o, <2>w
  <2>1. /\ old.at = "guard" /\ mark' = Marked(e) /\ clock' = clock
        /\ delivery' = [delivery EXCEPT ![d].at = "replied", ![d].won = w,
                                        ![d].marked = IF w THEN clock ELSE 0]
    BY <1>2, <1>t, <2>0 DEF MarkFirst
  <2>2. /\ mark' \in [Events -> -1 .. MaxTime + MarkTtl]
        /\ \A f \in Events : mark[f] <= mark'[f]
        /\ mark[e] < clock => mark'[e] = clock + MarkTtl
    BY <1>t, <1>o, <2>1, MarkedGrows
  <2>3. PICK m \in Time : m = IF w THEN clock ELSE 0
    BY <1>t DEF Time
  <2>4. PICK x \in Delivery : /\ delivery' = [delivery EXCEPT ![d] = x]
                              /\ x.at = "replied" /\ x.won = w /\ x.marked = m /\ x.event = e
                              /\ x.stamp = old.stamp /\ x.verified = old.verified
    <3> DEFINE x == [old EXCEPT !.at = "replied", !.won = w, !.marked = m]
    <3>1. /\ x \in Delivery /\ x.at = "replied" /\ x.won = w /\ x.marked = m /\ x.event = e
          /\ x.stamp = old.stamp /\ x.verified = old.verified
      BY <1>t DEF Delivery
    <3>2. delivery' = [delivery EXCEPT ![d] = x]
      BY <1>t, <2>1, <2>3
    <3> HIDE DEF x
    <3> QED
      BY <3>1, <3>2
  <2>5. DeliveryFits(x)'
    <3>1. /\ old.verified - old.stamp \in (0 - Tolerance) .. Tolerance
          /\ old.verified <= clock /\ clock - old.verified <= Lag
      BY <1>t, <2>1 DEF DeliveryFits
    <3>2. w => /\ clock - old.stamp <= Tolerance + Lag /\ 0 - Tolerance <= clock - old.stamp
               /\ m = clock /\ m + MarkTtl <= mark'[e]
      <4> SUFFICES ASSUME w
                   PROVE  /\ clock - old.stamp <= Tolerance + Lag
                          /\ 0 - Tolerance <= clock - old.stamp
                          /\ m = clock /\ m + MarkTtl <= mark'[e]
        OBVIOUS
      <4>1. m = clock /\ mark'[e] = clock + MarkTtl
        BY <2>0, <2>2, <2>3
      <4> QED
        BY <1>t, <1>o, <3>1, <4>1
    <3> QED
      BY <1>t, <2>1, <2>4, <3>1, <3>2 DEF DeliveryFits
  <2>6. \A c \in HookDeliveries \ {d} : MarksApart(delivery[c], x)
    <3> SUFFICES ASSUME NEW c \in HookDeliveries \ {d}, delivery[c].won, x.won,
                        delivery[c].event = x.event
                 PROVE  x.marked - delivery[c].marked > MarkTtl
      BY DEF MarksApart
    <3>1. DeliveryFits(delivery[c]) /\ delivery[c] \in Delivery
      BY <1>t DEF HookInv
    <3>2. delivery[c].marked + MarkTtl <= mark[e] /\ delivery[c].marked \in Int
      BY <2>4, <3>1 DEF DeliveryFits, Delivery, Time
    <3>3. mark[e] < clock /\ x.marked = clock
      BY <2>0, <2>3, <2>4
    <3> QED
      BY <1>t, <1>o, <3>2, <3>3
  <2> QED
    BY <2>1, <2>2, <2>4, <2>5, <2>6, DeliveryMoves
<1>3. CASE Reply(d)
  <2>1. CASE old.won
    <3> DEFINE x == [old EXCEPT !.at = "handed", !.verified = 0]
    <3>1. delivery' = [delivery EXCEPT ![d] = x]
      BY <1>3, <2>1 DEF Reply
    <3>0. 0 \in Time
      BY <1>t DEF Time
    <3>2. /\ x \in Delivery /\ x.at = "handed" /\ x.won /\ x.marked = old.marked
          /\ x.event = old.event /\ x.stamp = old.stamp
      BY <1>t, <2>1, <3>0 DEF Delivery
    <3> HIDE DEF x
    <3>3. DeliveryFits(x)
      BY <1>t, <2>1, <3>2 DEF DeliveryFits
    <3> QED
      BY <1>3, <1>u, <2>1, <3>1, <3>2, <3>3 DEF Reply
  <2>2. CASE ~old.won
    BY <1>3, <1>f, <2>2 DEF Reply
  <2> QED
    BY <2>1, <2>2
<1>4. CASE LetThrough(d)
  <2>1. CASE delivery' = [delivery EXCEPT ![d] = Free]
    BY <1>4, <1>f, <2>1 DEF LetThrough
  <2>2. CASE /\ old.at = "guard"
             /\ delivery' = [delivery EXCEPT ![d] = [old EXCEPT !.at = "late", !.verified = 0]]
    <3> DEFINE x == [old EXCEPT !.at = "late", !.verified = 0]
    <3>0. 0 \in Time
      BY <1>t DEF Time
    <3>1. /\ x \in Delivery /\ x.at = "late" /\ x.won = old.won
      BY <1>t, <3>0 DEF Delivery
    <3>2. ~old.won
      BY <1>t, <2>2 DEF DeliveryFits
    <3>3. delivery' = [delivery EXCEPT ![d] = x]
      BY <2>2
    <3> HIDE DEF x
    <3>4. DeliveryFits(x)
      BY <3>1, <3>2 DEF DeliveryFits
    <3> QED
      BY <1>4, <1>u, <3>1, <3>2, <3>3, <3>4 DEF LetThrough
  <2>3. PICK at \in {"free"} \cup
              (IF old.at = "guard" /\ old.event \notin Nameless THEN {"late"} ELSE {}) :
          delivery' = [delivery EXCEPT ![d] = IF at = "free" THEN Free
                                              ELSE [old EXCEPT !.at = at, !.verified = 0]]
    BY <1>4 DEF LetThrough
  <2>4. CASE at = "free"
    BY <2>1, <2>3, <2>4
  <2>5. CASE at # "free"
    BY <2>2, <2>3, <2>5
  <2> QED
    BY <2>4, <2>5
<1>5. CASE LateMark(d)
  <2>1. /\ mark' = Marked(old.event) /\ clock' = clock
        /\ delivery' = [delivery EXCEPT ![d] = Free]
    BY <1>5 DEF LateMark
  <2>2. /\ mark' \in [Events -> -1 .. MaxTime + MarkTtl]
        /\ \A f \in Events : mark[f] <= mark'[f]
    BY <1>t, <1>o, <2>1, MarkedGrows
  <2>3. DeliveryFits(Free)' /\ \A c \in HookDeliveries \ {d} : MarksApart(delivery[c], Free)
    <3>1. DeliveryFits(Free)'
      BY FreeFits DEF DeliveryFits
    <3> QED
      BY <3>1, FreeFits DEF MarksApart
  <2> QED
    BY <2>1, <2>2, <2>3, FreeFits, DeliveryMoves
<1> QED
  BY <1>1, <1>2, <1>3, <1>4, <1>5

\* A delivery that was handed over on a mark is covered by it, and marks of one event are apart.
THEOREM HookInvariant == HookSpec => []HookInv
<1>1. HookInit => HookInv
  <2> SUFFICES ASSUME HookInit PROVE HookInv
    OBVIOUS
  <2>1. delivery \in [HookDeliveries -> Delivery] /\ \A d \in HookDeliveries : delivery[d] = Free
    BY FreeFits DEF HookInit
  <2>2. HookTypeOK
    <3>1. -1 \in -1 .. MaxTime + MarkTtl /\ 0 \in Time
      BY WebhookAssumption DEF Time
    <3> QED
      BY <2>1, <3>1 DEF HookInit, HookTypeOK
  <2> QED
    BY <2>1, <2>2, FreeFits DEF HookInv, DeliveryFits, MarksApart
<1>2. HookInv /\ [HookNext]_hookVars => HookInv'
  <2> SUFFICES ASSUME HookInv, [HookNext]_hookVars PROVE HookInv'
    OBVIOUS
  <2>1. CASE HookTick
    <3>1. HookTypeOK' /\ clock' = clock + 1 /\ UNCHANGED <<delivery, mark>> /\ clock \in Nat
      BY <2>1, WebhookAssumption DEF HookInv, HookTypeOK, HookTick, Time
    <3>2. ASSUME NEW d \in HookDeliveries PROVE DeliveryFits(delivery[d])'
      <4>0. PICK x \in Delivery : x = delivery[d]
        BY DEF HookInv, HookTypeOK
      <4>1. /\ DeliveryFits(x) /\ x.verified \in Int /\ x.marked \in Int
            /\ x.at \in {"guard", "replied"} => clock - x.verified < Lag
        BY <2>1, <4>0 DEF HookTick, AtRedis, HookInv, Delivery, Time
      <4>2. Lag \in Nat
        BY WebhookAssumption
      <4>3. x.at \in {"guard", "replied"} => x.verified <= clock + 1 /\ clock + 1 - x.verified <= Lag
        BY <3>1, <4>1, <4>2 DEF DeliveryFits
      <4>4. x.won => x.marked <= clock + 1
        BY <3>1, <4>1 DEF DeliveryFits
      <4>5. DeliveryFits(x)'
        BY <3>1, <4>1, <4>3, <4>4 DEF DeliveryFits
      <4> QED
        BY <3>1, <4>0, <4>5 DEF DeliveryFits
    <3>3. \A c, d \in HookDeliveries : c # d => MarksApart(delivery[c], delivery[d])'
      BY <3>1 DEF HookInv, MarksApart
    <3> QED
      BY <3>1, <3>2, <3>3 DEF HookInv
  <2>2. CASE UNCHANGED hookVars
    BY <2>2 DEF hookVars, HookInv, HookTypeOK, DeliveryFits, MarksApart
  <2> QED
    BY <2>1, <2>2, DeliveryKeepsHook DEF HookNext
<1> QED
  BY <1>1, <1>2, PTL DEF HookSpec

\* Two checked deliveries of an event set marks that are further apart than a mark lasts, and two
\* of the same signed request no further apart than the tolerance and the wait allow, whatever
\* the tolerance, the lifetime of a mark and the clocks of the senders (WebhookGuard,
\* WebhookReplayService).
THEOREM DuplicateHolds == HookSpec => []DuplicateIsCaught
<1>1. HookInv => DuplicateIsCaught
  <2> SUFFICES ASSUME HookInv, NEW c \in HookDeliveries, NEW d \in HookDeliveries, Twice(c, d)
               PROVE  /\ Distance(c, d) > MarkTtl \/ Distance(d, c) > MarkTtl
                      /\ delivery[c].stamp = delivery[d].stamp => Distance(c, d) <= 2 * Tolerance + Lag
    BY DEF DuplicateIsCaught
  <2>1. DeliveryFits(delivery[c]) /\ DeliveryFits(delivery[d])
        /\ MarksApart(delivery[c], delivery[d])
    BY DEF HookInv, Twice
  <2>2. /\ delivery[c].marked \in Int /\ delivery[d].marked \in Int
        /\ delivery[c].stamp \in Int /\ delivery[d].stamp \in Int
        /\ Tolerance \in Nat /\ Lag \in Nat
    BY WebhookAssumption DEF HookInv, HookTypeOK, Delivery, Time, Stamp
  <2>3. delivery[c].won /\ delivery[d].won
    BY <2>1 DEF DeliveryFits, Twice
  <2>4. Distance(c, d) > MarkTtl \/ Distance(d, c) > MarkTtl
    BY <2>1, <2>3 DEF MarksApart, Distance, Twice
  <2>5. /\ 0 - Tolerance <= delivery[c].marked - delivery[c].stamp
        /\ delivery[d].marked - delivery[d].stamp <= Tolerance + Lag
    BY <2>1, <2>3 DEF DeliveryFits
  <2>6. delivery[c].stamp = delivery[d].stamp => Distance(c, d) <= 2 * Tolerance + Lag
    BY <2>2, <2>5 DEF Distance
  <2> QED
    BY <2>4, <2>6
<1> QED
  BY <1>1, HookInvariant, PTL

\* A mark that lasts as long as both ends of the tolerance and the wait for Redis lets no signed
\* request through twice: what docs/operations/webhooks.md:194 takes for granted.
THEOREM LongMarksSuffice ==
  ASSUME MarkTtl >= 2 * Tolerance + Lag
  PROVE  HookSpec => []DuplicateIsRefused
<1>1. HookTypeOK /\ DuplicateIsCaught => DuplicateIsRefused
  <2> SUFFICES ASSUME HookTypeOK, DuplicateIsCaught, NEW c \in HookDeliveries,
                      NEW d \in HookDeliveries, Twice(c, d),
                      delivery[c].stamp = delivery[d].stamp
               PROVE  FALSE
    BY DEF DuplicateIsRefused
  <2>1. Distance(c, d) > MarkTtl \/ Distance(d, c) > MarkTtl
    BY DEF DuplicateIsCaught
  <2>2. Distance(c, d) <= 2 * Tolerance + Lag /\ Distance(d, c) <= 2 * Tolerance + Lag
    BY DEF DuplicateIsCaught, Twice
  <2>3. Distance(c, d) \in Int /\ Distance(d, c) \in Int /\ {MarkTtl, Tolerance, Lag} \subseteq Nat
    BY WebhookAssumption DEF Distance, HookTypeOK, Delivery, Time
  <2> QED
    BY <2>1, <2>2, <2>3
<1>2. HookInv => HookTypeOK
  BY DEF HookInv
<1> QED
  BY <1>1, <1>2, HookInvariant, DuplicateHolds, PTL

-----------------------------------------------------------------------------
(* TelegramLink.                                                           *)

LinkOpen(t) == link[t].state \in {"open", "expired"}
HoldsToken(x) == x.pc \in {"locked", "bound"}
UserOf(x) == link[x.token].user

\* A transaction that holds a token's row finds it unused when it commits, and one that holds
\* the chat's and the user's finds them free.
UpdateFits(m, x) ==
  /\ HoldsToken(x) => LinkOpen(x.token) /\ x.chat # NoChat
  /\ x.pc = "bound" => Owner(x.chat) \subseteq {UserOf(x)}
  /\ x.pc = "acked" \/ m \in receipts => x.decided

\* Two transactions at a time have rows of their own.
Apart(x, y) ==
  /\ HoldsToken(x) /\ HoldsToken(y) => x.token # y.token
  /\ x.pc = "bound" /\ y.pc = "bound" => x.chat # y.chat /\ UserOf(x) # UserOf(y)

TokenIsExact(t) == bindings[t] <= 1 /\ (link[t].state # "consumed" => bindings[t] = 0)

LinkInv ==
  /\ LinkTypeOK
  /\ moved = {}
  /\ \A t \in LinkTokens : TokenIsExact(t)
  /\ \A m \in Updates : UpdateFits(m, update[m])
  /\ \A m, n \in Updates : m # n => Apart(update[m], update[n])

LEMMA LinkInitInv == LinkInit => LinkInv
<1> SUFFICES ASSUME LinkInit PROVE LinkInv
  OBVIOUS
<1>1. (CHOOSE t \in LinkTokens : TRUE) \in LinkTokens /\ (CHOOSE u \in TgUsers : TRUE) \in TgUsers
  BY TelegramLinkAssumption
<1>2. 0 \in 0 .. Cardinality(Updates)
  BY TelegramLinkAssumption, FS_CardinalityType
<1>3. LinkTypeOK
  BY <1>1, <1>2 DEF LinkInit, LinkTypeOK, UpdateRecord
<1>4. \A m \in Updates : update[m].pc = "unsent" /\ m \notin receipts
  BY DEF LinkInit
<1>5. \A t \in LinkTokens : TokenIsExact(t)
  BY DEF LinkInit, TokenIsExact
<1> QED
  BY <1>3, <1>4, <1>5 DEF LinkInit, LinkInv, UpdateFits, Apart, HoldsToken

\* A delivery moves, and perhaps a receipt is written for it.
LEMMA UpdateMoves ==
  ASSUME LinkInv, NEW m \in Updates, NEW x \in UpdateRecord, update' = [update EXCEPT ![m] = x],
         UNCHANGED <<link, chatOf, bindings, moved>>,
         receipts' = receipts \/ (receipts' = receipts \cup {m} /\ x.decided),
         UpdateFits(m, x), \A n \in Updates \ {m} : Apart(x, update[n])
  PROVE  LinkInv'
<1>1. LinkTypeOK'
  BY DEF LinkInv, LinkTypeOK
<1>2. update'[m] = x /\ \A n \in Updates \ {m} : update'[n] = update[n]
  BY DEF LinkInv, LinkTypeOK
<1>3. ASSUME NEW n \in Updates PROVE UpdateFits(n, update[n])'
  <2>1. CASE n = m
    BY <1>2, <2>1 DEF UpdateFits, HoldsToken, LinkOpen, Owner, UserOf
  <2>2. CASE n # m
    <3>1. UpdateFits(n, update[n]) /\ update'[n] = update[n]
      BY <1>2, <2>2 DEF LinkInv
    <3> QED
      BY <2>2, <3>1 DEF UpdateFits, HoldsToken, LinkOpen, Owner, UserOf
  <2> QED
    BY <2>1, <2>2
<1>4. ASSUME NEW n \in Updates, NEW o \in Updates, n # o PROVE Apart(update[n], update[o])'
  <2>1. Apart(update[n], update[o])
    BY <1>4 DEF LinkInv
  <2>2. CASE n = m
    BY <1>2, <1>4, <2>2 DEF Apart, HoldsToken, UserOf
  <2>3. CASE o = m
    BY <1>2, <1>4, <2>3 DEF Apart, HoldsToken, UserOf
  <2>4. CASE n # m /\ o # m
    BY <1>2, <2>1, <2>4 DEF Apart, HoldsToken, UserOf
  <2> QED
    BY <2>2, <2>3, <2>4
<1>5. \A t \in LinkTokens : TokenIsExact(t)'
  BY DEF LinkInv, TokenIsExact
<1> QED
  BY <1>1, <1>3, <1>4, <1>5 DEF LinkInv

LEMMA UpdateKeepsLink ==
  ASSUME LinkInv, NEW m \in Updates,
         \/ Send(m) \/ Redelivered(m) \/ InsertReceipt(m) \/ LockEligibleToken(m)
         \/ CommitNothing(m) \/ CommitBind(m) \/ Rollback(m)
  PROVE  LinkInv'
<1> DEFINE old == update[m]
<1>t. old \in UpdateRecord /\ UpdateFits(m, old)
  BY DEF LinkInv, LinkTypeOK
<1>a. \A n \in Updates \ {m} : Apart(old, update[n])
  BY DEF LinkInv
<1>u. UNCHANGED <<link, chatOf, bindings, moved>>
  BY DEF Send, Redelivered, InsertReceipt, LockEligibleToken, CommitNothing, CommitBind, Rollback
\* To another place, with the same chat and token.
<1>1. ASSUME NEW pc \in {"unsent", "sent", "begun", "locked", "bound", "acked"},
             update' = [update EXCEPT ![m].pc = pc], receipts' = receipts,
             pc \in {"locked", "bound"} => LinkOpen(old.token) /\ old.chat # NoChat,
             pc = "bound" => Owner(old.chat) \subseteq {UserOf(old)},
             pc = "acked" => old.decided,
             \A n \in Updates \ {m} :
               /\ pc \in {"locked", "bound"} /\ HoldsToken(update[n]) => old.token # update[n].token
               /\ pc = "bound" /\ update[n].pc = "bound" =>
                    old.chat # update[n].chat /\ UserOf(old) # UserOf(update[n])
      PROVE  LinkInv'
  <2>1. PICK x \in UpdateRecord : /\ update' = [update EXCEPT ![m] = x] /\ x.pc = pc
                                  /\ x.chat = old.chat /\ x.token = old.token
                                  /\ x.decided = old.decided
    <3> DEFINE x == [old EXCEPT !.pc = pc]
    <3>1. /\ x \in UpdateRecord /\ x.pc = pc /\ x.chat = old.chat /\ x.token = old.token
          /\ x.decided = old.decided
      BY <1>t DEF UpdateRecord
    <3>2. update' = [update EXCEPT ![m] = x]
      BY <1>1
    <3> HIDE DEF x
    <3> QED
      BY <3>1, <3>2
  <2>2. UpdateFits(m, x)
    BY <1>1, <1>t, <2>1 DEF UpdateFits, HoldsToken, UserOf
  <2>3. \A n \in Updates \ {m} : Apart(x, update[n])
    BY <1>1, <2>1 DEF Apart, HoldsToken, UserOf
  <2> QED
    BY <1>1, <1>u, <2>1, <2>2, <2>3, UpdateMoves
<1>2. CASE Send(m)
  <2>1. PICK t \in LinkTokens, c \in Chats \cup {NoChat} :
          update' = [update EXCEPT ![m].chat = c, ![m].token = t, ![m].pc = "sent"]
    BY <1>2 DEF Send
  <2>2. PICK x \in UpdateRecord : /\ update' = [update EXCEPT ![m] = x] /\ x.pc = "sent"
                                  /\ x.decided = old.decided
    <3> DEFINE x == [old EXCEPT !.chat = c, !.token = t, !.pc = "sent"]
    <3>1. x \in UpdateRecord /\ x.pc = "sent" /\ x.decided = old.decided
      BY <1>t DEF UpdateRecord
    <3>2. update' = [update EXCEPT ![m] = x]
      BY <2>1
    <3> HIDE DEF x
    <3> QED
      BY <3>1, <3>2
  <2>3. UpdateFits(m, x) /\ \A n \in Updates \ {m} : Apart(x, update[n])
    BY <1>t, <2>2 DEF UpdateFits, Apart, HoldsToken
  <2> QED
    BY <1>2, <1>u, <2>2, <2>3, UpdateMoves DEF Send
<1>3. CASE Redelivered(m)
  BY <1>1, <1>3, <1>t DEF Redelivered, UpdateFits
<1>4. CASE InsertReceipt(m)
  BY <1>1, <1>4 DEF InsertReceipt
<1>5. CASE LockEligibleToken(m)
  <2>1. LinkOpen(old.token) /\ old.chat # NoChat
    BY <1>5 DEF LockEligibleToken, LockToken, LinkOpen
  <2>2. \A n \in Updates \ {m} : HoldsToken(update[n]) => old.token # update[n].token
    BY <1>5 DEF LockEligibleToken, LockToken, HoldsToken
  <2> QED
    BY <1>1, <1>5, <2>1, <2>2 DEF LockEligibleToken
<1>6. CASE CommitNothing(m)
  <2>1. PICK x \in UpdateRecord : update' = [update EXCEPT ![m] = x] /\ x.pc = "sent" /\ x.decided
    <3> DEFINE x == [old EXCEPT !.pc = "sent", !.decided = TRUE]
    <3>1. x \in UpdateRecord /\ x.pc = "sent" /\ x.decided
      BY <1>t DEF UpdateRecord
    <3>2. update' = [update EXCEPT ![m] = x]
      BY <1>6 DEF CommitNothing
    <3> HIDE DEF x
    <3> QED
      BY <3>1, <3>2
  <2>2. UpdateFits(m, x) /\ \A n \in Updates \ {m} : Apart(x, update[n])
    BY <2>1 DEF UpdateFits, Apart, HoldsToken
  <2> QED
    BY <1>6, <1>u, <2>1, <2>2, UpdateMoves DEF CommitNothing
<1>7. CASE CommitBind(m)
  <2>1. old.pc = "locked" /\ HoldsToken(old) /\ receipts' = receipts
    BY <1>7 DEF CommitBind, HoldsToken
  <2>2. LinkOpen(old.token) /\ old.chat # NoChat
    BY <1>t, <2>1 DEF UpdateFits
  <2>3. \A n \in Updates \ {m} :
          /\ HoldsToken(update[n]) => old.token # update[n].token
          /\ update[n].pc = "bound" => old.chat # update[n].chat /\ UserOf(old) # UserOf(update[n])
    BY <1>7, <1>a, <2>1 DEF CommitBind, Apart, UserOf
  <2>4. CASE ChatIsFree(m)
    <3>1. update' = [update EXCEPT ![m].pc = "bound"] /\ Owner(old.chat) \subseteq {UserOf(old)}
      BY <1>7, <2>4 DEF CommitBind, ChatIsFree, UserOf
    <3> QED
      BY <1>1, <2>1, <2>2, <2>3, <3>1
  <2>5. CASE ~ChatIsFree(m)
    <3>1. update' = [update EXCEPT ![m].pc = "sent"]
      BY <1>7, <2>5 DEF CommitBind
    <3> QED
      BY <1>1, <2>1, <3>1
  <2> QED
    BY <2>4, <2>5
<1>8. CASE Rollback(m)
  BY <1>1, <1>8 DEF Rollback
<1> QED
  BY <1>2, <1>3, <1>4, <1>5, <1>6, <1>7, <1>8

\* The commit of a link.
LEMMA CommitKeepsLink ==
  ASSUME LinkInv, NEW m \in Updates, CommitLink(m)
  PROVE  LinkInv'
<1> DEFINE old == update[m]
           t == old.token
<1>t. /\ old \in UpdateRecord /\ UpdateFits(m, old) /\ t \in LinkTokens
      /\ old.chat \in Chats \cup {NoChat}
      /\ chatOf \in [TgUsers -> Chats \cup {NoChat}]
      /\ link \in [LinkTokens -> [user : TgUsers, state : {"none", "open", "consumed", "expired"}]]
      /\ bindings \in [LinkTokens -> 0 .. Cardinality(Updates)]
      /\ update \in [Updates -> UpdateRecord] /\ moved = {}
  BY DEF LinkInv, LinkTypeOK, UpdateRecord
<1>g. /\ old.pc = "bound" /\ LinkOpen(t) /\ Owner(old.chat) \subseteq {link[t].user}
      /\ old.chat # NoChat
  BY <1>t DEF CommitLink, UpdateFits, HoldsToken, UserOf
<1>1. PICK x \in UpdateRecord : update' = [update EXCEPT ![m] = x] /\ x.pc = "sent" /\ x.decided
  <2> DEFINE x == [old EXCEPT !.pc = "sent", !.decided = TRUE]
  <2>1. x \in UpdateRecord /\ x.pc = "sent" /\ x.decided
    BY <1>t DEF UpdateRecord
  <2>2. update' = [update EXCEPT ![m] = x]
    BY DEF CommitLink
  <2> HIDE DEF x
  <2> QED
    BY <2>1, <2>2
<1>2. update'[m] = x /\ \A n \in Updates \ {m} : update'[n] = update[n]
  BY <1>1, <1>t
<1>3. PICK l \in [user : TgUsers, state : {"none", "open", "consumed", "expired"}] :
        link' = [link EXCEPT ![t] = l] /\ l.user = link[t].user /\ l.state = "consumed"
  <2> DEFINE l == [link[t] EXCEPT !.state = "consumed"]
  <2>1. /\ l \in [user : TgUsers, state : {"none", "open", "consumed", "expired"}]
        /\ l.user = link[t].user /\ l.state = "consumed"
    BY <1>t
  <2>2. link' = [link EXCEPT ![t] = l]
    BY DEF CommitLink
  <2> HIDE DEF l
  <2> QED
    BY <2>1, <2>2
<1>4. /\ link'[t] = l /\ \A s \in LinkTokens \ {t} : link'[s] = link[s]
      /\ \A s \in LinkTokens : link'[s].user = link[s].user
  BY <1>3, <1>t
<1>5. moved' = {}
  BY <1>g, <1>t DEF CommitLink
<1>6. bindings[t] = 0 /\ bindings' = [bindings EXCEPT ![t] = 1]
  <2>1. bindings[t] = 0
    BY <1>g, <1>t DEF LinkInv, TokenIsExact, LinkOpen
  <2> QED
    BY <2>1 DEF CommitLink
<1>7. 1 \in 0 .. Cardinality(Updates)
  <2>1. Cardinality({m}) = 1
    BY FS_Singleton
  <2>2. Cardinality({m}) <= Cardinality(Updates) /\ Cardinality(Updates) \in Nat
    BY TelegramLinkAssumption, FS_Subset, FS_CardinalityType
  <2> QED
    BY <2>1, <2>2
<1>8. chatOf' \in [TgUsers -> Chats \cup {NoChat}]
      /\ \A c \in Chats \ {old.chat} : Owner(c)' \subseteq Owner(c)
  <2>1. chatOf' = [u \in TgUsers |-> IF u = link[t].user THEN old.chat
                                     ELSE IF chatOf[u] = old.chat THEN NoChat ELSE chatOf[u]]
    BY DEF CommitLink
  <2>2. chatOf' \in [TgUsers -> Chats \cup {NoChat}]
    BY <1>t, <2>1
  <2>3. ASSUME NEW c \in Chats \ {old.chat}, NEW u \in TgUsers, chatOf'[u] = c
        PROVE  chatOf[u] = c
    BY <2>1, <2>3, TelegramLinkAssumption
  <2> QED
    BY <2>2, <2>3 DEF Owner
<1>9. LinkTypeOK'
  <2>1. receipts' \subseteq Updates
    BY DEF CommitLink, LinkInv, LinkTypeOK
  <2> HIDE DEF old, t
  <2> QED
    BY <1>1, <1>3, <1>5, <1>6, <1>7, <1>8, <1>t, <2>1 DEF LinkTypeOK
<1>10. ASSUME NEW s \in LinkTokens PROVE TokenIsExact(s)'
  <2>1. TokenIsExact(s)
    BY DEF LinkInv
  <2>2. CASE s = t
    BY <1>3, <1>4, <1>6, <1>t, <2>2 DEF TokenIsExact
  <2>3. CASE s # t
    BY <1>4, <1>6, <1>t, <2>1, <2>3 DEF TokenIsExact
  <2> QED
    BY <2>2, <2>3
<1>11. ASSUME NEW n \in Updates PROVE UpdateFits(n, update[n])'
  <2>1. CASE n = m
    BY <1>1, <1>2, <2>1 DEF UpdateFits, HoldsToken
  <2>2. CASE n # m
    <3>1. /\ UpdateFits(n, update[n]) /\ update'[n] = update[n] /\ Apart(old, update[n])
          /\ update[n] \in UpdateRecord
      BY <1>2, <1>t, <2>2 DEF LinkInv
    <3>2. PICK y \in UpdateRecord : y = update[n] /\ y = update'[n]
      BY <3>1
    <3>3. HoldsToken(y) => y.token \in LinkTokens \ {t} /\ LinkOpen(y.token) /\ y.chat # NoChat
      BY <1>g, <3>1, <3>2 DEF UpdateFits, Apart, HoldsToken, UpdateRecord
    <3>4. y.pc = "bound" => y.chat \in Chats \ {old.chat} /\ Owner(y.chat) \subseteq {UserOf(y)}
      BY <1>g, <3>1, <3>2, <3>3 DEF UpdateFits, Apart, HoldsToken, UpdateRecord
    <3>5. y.token \in LinkTokens
      BY DEF UpdateRecord
    <3>6. HoldsToken(y) => LinkOpen(y.token)'
      BY <1>4, <3>3 DEF LinkOpen
    <3>7. y.pc = "bound" => Owner(y.chat)' \subseteq {UserOf(y)'}
      BY <1>4, <1>8, <3>4, <3>5 DEF UserOf
    <3>8. y.pc = "acked" \/ n \in receipts' => y.decided
      BY <2>2, <3>1, <3>2 DEF CommitLink, UpdateFits
    <3> QED
      BY <3>2, <3>3, <3>6, <3>7, <3>8 DEF UpdateFits, HoldsToken
  <2> QED
    BY <2>1, <2>2
<1>12. ASSUME NEW n \in Updates, NEW o \in Updates, n # o PROVE Apart(update[n], update[o])'
  <2>1. CASE n = m \/ o = m
    BY <1>1, <1>2, <2>1 DEF Apart, HoldsToken
  <2>2. CASE n # m /\ o # m
    <3>1. /\ Apart(update[n], update[o]) /\ update'[n] = update[n] /\ update'[o] = update[o]
          /\ update[n].token \in LinkTokens /\ update[o].token \in LinkTokens
      BY <1>12, <1>2, <1>t, <2>2 DEF LinkInv, UpdateRecord
    <3> QED
      BY <1>4, <3>1 DEF Apart, HoldsToken, UserOf
  <2> QED
    BY <2>1, <2>2
<1> QED
  BY <1>5, <1>9, <1>10, <1>11, <1>12 DEF LinkInv

\* Tokens are issued and expire, and a user unlinks.
LEMMA UserKeepsLink ==
  ASSUME LinkInv,
         \/ \E t \in LinkTokens : LinkExpires(t) \/ \E u \in TgUsers : IssueLink(u, t)
         \/ \E u \in TgUsers : Unlink(u)
         \/ UNCHANGED linkVars
  PROVE  LinkInv'
<1>t. /\ chatOf \in [TgUsers -> Chats \cup {NoChat}]
      /\ link \in [LinkTokens -> [user : TgUsers, state : {"none", "open", "consumed", "expired"}]]
      /\ update \in [Updates -> UpdateRecord] /\ UNCHANGED <<receipts, update, bindings, moved>>
  BY DEF LinkInv, LinkTypeOK, LinkExpires, IssueLink, Unlink, linkVars
<1>1. ASSUME link' \in [LinkTokens -> [user : TgUsers, state : {"none", "open", "consumed", "expired"}]],
             chatOf' \in [TgUsers -> Chats \cup {NoChat}],
             \A t \in LinkTokens :
               /\ link'[t].state = "consumed" <=> link[t].state = "consumed"
               /\ LinkOpen(t) => LinkOpen(t)' /\ link'[t].user = link[t].user,
             \A c \in Chats : Owner(c)' \subseteq Owner(c)
      PROVE  LinkInv'
  <2>1. LinkTypeOK'
    BY <1>1, <1>t DEF LinkInv, LinkTypeOK
  <2>2. \A t \in LinkTokens : TokenIsExact(t)'
    BY <1>1, <1>t DEF LinkInv, TokenIsExact
  <2>3. ASSUME NEW n \in Updates PROVE UpdateFits(n, update[n])'
    <3>1. PICK y \in UpdateRecord : y = update[n] /\ y = update'[n]
      BY <1>t
    <3>2. UpdateFits(n, y) /\ y.token \in LinkTokens /\ y.chat \in Chats \cup {NoChat}
      BY <3>1 DEF LinkInv, UpdateRecord
    <3>3. HoldsToken(y) => LinkOpen(y.token)' /\ y.chat \in Chats /\ y.chat # NoChat
                           /\ UserOf(y)' = UserOf(y)
      BY <1>1, <3>2 DEF UpdateFits, UserOf
    <3>4. y.pc = "bound" => Owner(y.chat)' \subseteq {UserOf(y)'}
      BY <1>1, <3>2, <3>3 DEF UpdateFits, HoldsToken
    <3> QED
      BY <1>t, <3>1, <3>2, <3>3, <3>4 DEF UpdateFits, HoldsToken
  <2>4. ASSUME NEW n \in Updates, NEW o \in Updates, n # o PROVE Apart(update[n], update[o])'
    <3>1. /\ Apart(update[n], update[o]) /\ update' = update
          /\ UpdateFits(n, update[n]) /\ UpdateFits(o, update[o])
          /\ update[n].token \in LinkTokens /\ update[o].token \in LinkTokens
      BY <1>t, <2>4 DEF LinkInv, UpdateRecord
    <3>2. /\ HoldsToken(update[n]) => UserOf(update[n])' = UserOf(update[n])
          /\ HoldsToken(update[o]) => UserOf(update[o])' = UserOf(update[o])
      BY <1>1, <3>1 DEF UpdateFits, UserOf
    <3> QED
      BY <3>1, <3>2 DEF Apart, HoldsToken
  <2> QED
    BY <1>t, <2>1, <2>2, <2>3, <2>4 DEF LinkInv
<1>2. CASE \E t \in LinkTokens : LinkExpires(t) \/ \E u \in TgUsers : IssueLink(u, t)
  <2>1. PICK t \in LinkTokens : LinkExpires(t) \/ \E u \in TgUsers : IssueLink(u, t)
    BY <1>2
  <2>2. PICK l \in [user : TgUsers, state : {"none", "open", "consumed", "expired"}] :
          /\ link' = [link EXCEPT ![t] = l] /\ l.state # "consumed" /\ link[t].state # "consumed"
          /\ LinkOpen(t) => l.state = "expired" /\ l.user = link[t].user
    <3>1. CASE LinkExpires(t)
      <4> DEFINE l == [link[t] EXCEPT !.state = "expired"]
      <4>1. /\ l \in [user : TgUsers, state : {"none", "open", "consumed", "expired"}]
            /\ l.state = "expired" /\ l.user = link[t].user /\ link[t].state = "open"
        BY <1>t, <3>1 DEF LinkExpires
      <4>2. link' = [link EXCEPT ![t] = l]
        BY <3>1 DEF LinkExpires
      <4> HIDE DEF l
      <4> QED
        BY <4>1, <4>2
    <3>2. CASE \E u \in TgUsers : IssueLink(u, t)
      <4>1. PICK u \in TgUsers : IssueLink(u, t)
        BY <3>2
      <4> DEFINE l == [user |-> u, state |-> "open"]
      <4>2. /\ l \in [user : TgUsers, state : {"none", "open", "consumed", "expired"}]
            /\ l.state = "open" /\ link[t].state = "none"
        BY <4>1 DEF IssueLink
      <4>3. link' = [link EXCEPT ![t] = l]
        BY <4>1 DEF IssueLink
      <4> HIDE DEF l
      <4> QED
        BY <4>2, <4>3 DEF LinkOpen
    <3> QED
      BY <2>1, <3>1, <3>2
  <2>3. chatOf' = chatOf
    BY <2>1 DEF LinkExpires, IssueLink
  <2>4. link' \in [LinkTokens -> [user : TgUsers, state : {"none", "open", "consumed", "expired"}]]
    BY <1>t, <2>2
  <2>5. link'[t] = l /\ \A s \in LinkTokens \ {t} : link'[s] = link[s]
    BY <1>t, <2>2
  <2> QED
    BY <1>1, <1>t, <2>2, <2>3, <2>4, <2>5 DEF LinkOpen, Owner
<1>3. CASE \E u \in TgUsers : Unlink(u)
  <2>1. PICK u \in TgUsers : Unlink(u)
    BY <1>3
  <2>2. chatOf' = [chatOf EXCEPT ![u] = NoChat] /\ link' = link
    BY <2>1 DEF Unlink
  <2>3. chatOf' \in [TgUsers -> Chats \cup {NoChat}]
    BY <1>t, <2>2
  <2>4. \A c \in Chats : Owner(c)' \subseteq Owner(c)
    BY <1>t, <2>2, TelegramLinkAssumption DEF Owner
  <2> QED
    BY <1>1, <1>t, <2>2, <2>3, <2>4 DEF LinkOpen
<1>4. CASE UNCHANGED linkVars
  <2>1. link' = link /\ chatOf' = chatOf
    BY <1>4 DEF linkVars
  <2> QED
    BY <1>1, <1>t, <2>1 DEF LinkOpen, Owner
<1> QED
  BY <1>2, <1>3, <1>4

\* Whoever holds a token's row finds it unused, whatever is delivered again.
THEOREM LinkInvariant == LinkSpec => []LinkInv
<1>1. LinkInv /\ [LinkNext]_linkVars => LinkInv'
  BY UpdateKeepsLink, CommitKeepsLink, UserKeepsLink DEF LinkNext
<1> QED
  BY <1>1, LinkInitInv, PTL DEF LinkSpec

\* A token links one chat, no chat goes from one user to another, and an acknowledged update has
\* been decided on, however deliveries repeat, fail and overlap (TelegramLinkService).
THEOREM LinksHold == LinkSpec => []LinksAreExact
<1>1. LinkInv => LinksAreExact
  BY DEF LinkInv, TokenIsExact, UpdateFits, LinksAreExact
<1> QED
  BY <1>1, LinkInvariant, PTL

-----------------------------------------------------------------------------
(* AttemptLimiter.                                                         *)

\* Counted attempts that have still to be added to the wide counter, and to an identity's.
OweWide == {p \in Attempters : attempt[p].pc = "wideGet"}
OweNarrow(i) == {p \in Attempters : attempt[p].target = i
                                     /\ attempt[p].pc \in {"wideGet", "wideSet", "narrowGet"}}

\* What a request is about to write is covered too.
AttemptFits(x) ==
  /\ x.pc = "wideSet" => x.count + Cardinality(OweWide) <= total
  /\ x.pc = "narrowSet" => x.count + Cardinality(OweNarrow(x.target)) <= counted[x.target]
  /\ x.pc = "block" => counted[x.target] >= NarrowMax

\* A counter and what is still to be added to it do not exceed the attempts that were counted.
IdentityFits(i) ==
  /\ narrow[i] + Cardinality(OweNarrow(i)) <= counted[i] /\ counted[i] <= total
  /\ i \in lockout => counted[i] >= NarrowMax

LimiterInv ==
  /\ LimiterTypeOK
  /\ wide + Cardinality(OweWide) <= total
  /\ \A i \in Targets : IdentityFits(i)
  /\ \A p \in Attempters : AttemptFits(attempt[p])

AttemptRecord == [pc : AttemptPc, target : Targets, count : 0 .. MaxCounted]

\* One member more or less.
LEMMA OneMoves ==
  ASSUME NEW S, NEW T, NEW p, S \subseteq Attempters, T \subseteq Attempters, S \ {p} = T \ {p}
  PROVE  /\ Cardinality(S) \in Nat /\ Cardinality(T) \in Nat
         /\ Cardinality(T) + (IF p \in S THEN 1 ELSE 0) = Cardinality(S) + (IF p \in T THEN 1 ELSE 0)
<1>1. IsFiniteSet(S) /\ IsFiniteSet(T)
  BY LimiterAssumption, FS_Subset
<1>2. Cardinality(S) \in Nat /\ Cardinality(T) \in Nat
  BY <1>1, FS_CardinalityType
<1>3. /\ Cardinality(S \ {p}) = IF p \in S THEN Cardinality(S) - 1 ELSE Cardinality(S)
      /\ Cardinality(T \ {p}) = IF p \in T THEN Cardinality(T) - 1 ELSE Cardinality(T)
  BY <1>1, FS_RemoveElement
<1> QED
  BY <1>2, <1>3

\* Nothing is counted at first.
LEMMA LimiterInitInv == LimiterInit => LimiterInv
<1> SUFFICES ASSUME LimiterInit PROVE LimiterInv
  OBVIOUS
<1>1. (CHOOSE i \in Targets : TRUE) \in Targets /\ 0 \in 0 .. MaxCounted
  BY LimiterAssumption
<1>2. LimiterTypeOK
  BY <1>1 DEF LimiterInit, LimiterTypeOK, AttemptPc
<1>3. \A p \in Attempters : attempt[p].pc = "idle"
  BY DEF LimiterInit
<1>4. OweWide = {} /\ \A i \in Targets : OweNarrow(i) = {}
  BY <1>3 DEF OweWide, OweNarrow
<1>5. Cardinality({}) = 0
  BY FS_EmptySet
<1>6. ASSUME NEW i \in Targets PROVE IdentityFits(i)
  <2>1. narrow[i] = 0 /\ counted[i] = 0 /\ total = 0 /\ i \notin lockout
    BY DEF LimiterInit
  <2>2. Cardinality(OweNarrow(i)) = 0
    BY <1>4, <1>5
  <2> QED
    BY <2>1, <2>2 DEF IdentityFits
<1>7. wide + Cardinality(OweWide) <= total
  <2>1. wide = 0 /\ total = 0
    BY DEF LimiterInit
  <2> QED
    BY <1>4, <1>5, <2>1
<1>8. \A p \in Attempters : AttemptFits(attempt[p])
  BY <1>3 DEF AttemptFits
<1> QED
  BY <1>2, <1>6, <1>7, <1>8 DEF LimiterInv

Waiting == {"wideGet", "wideSet", "narrowGet"}

\* What one request's next step changes: its place and its count, and at most one counter.
LEMMA RequestKeepsLimiter ==
  ASSUME LimiterInv, NEW p \in Attempters,
         \/ CheckFirst(p) \/ CheckSecond(p) \/ Refused(p) \/ Attempted(p)
         \/ WideGet(p) \/ WideSet(p) \/ NarrowGet(p) \/ NarrowSet(p) \/ SetBlock(p)
         \/ ResetWide(p) \/ ResetNarrow(p) \/ ResetBlock(p) \/ AttemptEnds(p)
  PROVE  LimiterInv'
<1>t. /\ attempt \in [Attempters -> AttemptRecord] /\ narrow \in [Targets -> 0 .. MaxCounted]
      /\ counted \in [Targets -> 0 .. MaxCounted] /\ total \in 0 .. MaxCounted
      /\ wide \in 0 .. MaxCounted
  BY DEF LimiterInv, LimiterTypeOK, AttemptRecord
<1>1. PICK r \in AttemptRecord : r = attempt[p]
  BY <1>t
<1>2. AttemptFits(r) /\ r.target \in Targets /\ r.count \in 0 .. MaxCounted /\ r.pc \in AttemptPc
  BY <1>1 DEF LimiterInv, AttemptRecord
<1>n. MaxCounted \in Nat
  BY LimiterAssumption
\* The request moves on to a place and a target, with a count; the counters of the target with it.
<1>3. ASSUME NEW x \in AttemptRecord, attempt' = [attempt EXCEPT ![p] = x],
             NEW i \in Targets, x.target = i, r.pc \in Waiting \cup {"narrowSet"} => i = r.target,
             NEW w \in 0 .. MaxCounted, wide' = w,
             NEW n \in 0 .. MaxCounted, narrow' = [narrow EXCEPT ![i] = n],
             NEW d \in {0, 1}, total + d <= MaxCounted,
             counted' = [counted EXCEPT ![i] = counted[i] + d], total' = total + d,
             limiter' = limiter, lockout' \subseteq lockout \cup {i},
             i \in lockout' => i \in lockout \/ counted[i] >= NarrowMax,
             x.pc = "wideGet" <=> d = 1, x.pc \in Waiting => d = 1 \/ r.pc \in Waiting,
             d = 1 => r.pc \notin Waiting,
             w <= wide \/ (r.pc = "wideSet" /\ w = r.count),
             n <= narrow[i] \/ (r.pc = "narrowSet" /\ n = r.count),
             x.pc = "wideSet" => r.pc = "wideGet" /\ x.count = wide + 1,
             x.pc = "narrowSet" => r.pc = "narrowGet" /\ x.count = narrow[i] + 1,
             x.pc = "block" => counted[i] >= NarrowMax
      PROVE  LimiterInv'
  <2>2. PICK c0 \in 0 .. MaxCounted, n0 \in 0 .. MaxCounted, w0 \in 0 .. MaxCounted, t0 \in 0 .. MaxCounted :
          c0 = counted[i] /\ n0 = narrow[i] /\ w0 = wide /\ t0 = total
    BY <1>t
  <2>3. OweWide \in SUBSET Attempters /\ OweNarrow(i) \in SUBSET Attempters
    BY DEF OweWide, OweNarrow
  <2>4. PICK W \in Nat, V \in Nat : W = Cardinality(OweWide) /\ V = Cardinality(OweNarrow(i))
    BY <2>3, OneMoves
  <2>5. W >= (IF r.pc = "wideGet" THEN 1 ELSE 0) /\ V >= (IF r.pc \in Waiting THEN 1 ELSE 0)
    <3>1. p \in OweWide <=> r.pc = "wideGet"
      BY <1>1 DEF OweWide
    <3>2. r.pc \in Waiting => p \in OweNarrow(i)
      BY <1>1, <1>3 DEF OweNarrow, Waiting
    <3>3. IsFiniteSet(OweWide) /\ IsFiniteSet(OweNarrow(i))
      BY <2>3, LimiterAssumption, FS_Subset
    <3>4. (p \in OweWide => W # 0) /\ (p \in OweNarrow(i) => V # 0)
      BY <2>4, <3>3, FS_EmptySet
    <3> QED
      BY <3>1, <3>2, <3>4
  <2> DEFINE One(b) == IF b THEN 1 ELSE 0
             W1 == W + One(x.pc = "wideGet") - One(r.pc = "wideGet")
             V1 == V + One(x.pc \in Waiting) - One(r.pc \in Waiting)
  <2>6. PICK W2 \in Nat, V2 \in Nat :
          /\ W2 + (IF r.pc = "wideGet" THEN 1 ELSE 0) = W + (IF x.pc = "wideGet" THEN 1 ELSE 0)
          /\ V2 + (IF r.pc \in Waiting THEN 1 ELSE 0) = V + (IF x.pc \in Waiting THEN 1 ELSE 0)
    <3>1. /\ W1 \in Nat
          /\ W1 + (IF r.pc = "wideGet" THEN 1 ELSE 0) = W + (IF x.pc = "wideGet" THEN 1 ELSE 0)
      BY <2>5
    <3>2. /\ V1 \in Nat
          /\ V1 + (IF r.pc \in Waiting THEN 1 ELSE 0) = V + (IF x.pc \in Waiting THEN 1 ELSE 0)
      BY <2>5
    <3> HIDE DEF W1, V1
    <3> QED
      BY <3>1, <3>2
  <2>7. w0 + W <= t0 /\ n0 + V <= c0 /\ c0 <= t0 /\ (i \in lockout => c0 >= NarrowMax)
    BY <2>2, <2>4 DEF LimiterInv, IdentityFits
  <2>8. /\ r.pc = "wideSet" => r.count + W <= t0
        /\ r.pc = "narrowSet" => r.count + V <= c0
    BY <1>2, <1>3, <2>2, <2>4 DEF AttemptFits
  <2>9. c0 + d \in 0 .. MaxCounted /\ t0 + d \in 0 .. MaxCounted
    BY <1>3, <1>n, <2>2, <2>7
  <2>10. PICK c \in 0 .. MaxCounted, t \in 0 .. MaxCounted : c = c0 + d /\ t = t0 + d
    BY <2>9
  <2>11. /\ w + W2 <= t /\ W2 + total <= W + t
         /\ n + V2 <= c /\ V2 + counted[i] <= V + c
    BY <1>2, <1>3, <1>n, <2>2, <2>6, <2>7, <2>8, <2>10 DEF Waiting
  <2>12. /\ x.pc = "wideSet" => x.count + W2 <= t
         /\ x.pc = "narrowSet" => x.count + V2 <= c
    BY <1>3, <1>n, <2>2, <2>6, <2>7, <2>10 DEF Waiting
  <2>13. /\ x.pc = "block" => c >= NarrowMax
         /\ i \in lockout' => c >= NarrowMax
    BY <1>3, <1>n, <2>2, <2>7, <2>10, LimiterAssumption
  <2>14. c <= t /\ counted[i] <= c /\ total <= t
    BY <1>n, <2>2, <2>7, <2>10
  <2>15. r.pc \in Waiting => r.target = i
    BY <1>3
  <2>16. counted' = [counted EXCEPT ![i] = c] /\ total' = t
    BY <1>3, <2>2, <2>10
  <2>17. LimiterTypeOK'
    BY <1>3, <2>16 DEF LimiterInv, LimiterTypeOK, AttemptRecord
  <2>18. /\ attempt'[p] = x /\ \A q \in Attempters \ {p} : attempt'[q] = attempt[q]
         /\ narrow'[i] = n /\ \A j \in Targets \ {i} : narrow'[j] = narrow[j]
         /\ counted'[i] = c /\ \A j \in Targets \ {i} : counted'[j] = counted[j]
    BY <1>3, <1>t, <2>16
  <2>19. Cardinality(OweWide') = W2
    <3> DEFINE S == OweWide
               T == OweWide'
    <3>1. /\ S \subseteq Attempters /\ T \subseteq Attempters /\ S \ {p} = T \ {p}
          /\ p \in S <=> r.pc = "wideGet"
          /\ p \in T <=> x.pc = "wideGet"
      BY <1>1, <2>18 DEF OweWide
    <3> HIDE DEF S, T
    <3>2. /\ Cardinality(S) \in Nat /\ Cardinality(T) \in Nat
          /\ Cardinality(T) + (IF p \in S THEN 1 ELSE 0) = Cardinality(S) + (IF p \in T THEN 1 ELSE 0)
      BY <3>1, OneMoves
    <3>3. W = Cardinality(S)
      BY <2>4 DEF S
    <3>4. Cardinality(T) = W2
      BY <2>6, <3>1, <3>2, <3>3
    <3> QED
      BY <3>4 DEF T
  <2>20. Cardinality(OweNarrow(i)') = V2
    <3> DEFINE S == OweNarrow(i)
               T == OweNarrow(i)'
    <3>1. /\ S \subseteq Attempters /\ T \subseteq Attempters /\ S \ {p} = T \ {p}
          /\ p \in S <=> r.pc \in Waiting
          /\ p \in T <=> x.pc \in Waiting
      BY <1>1, <1>3, <2>18 DEF OweNarrow, Waiting
    <3> HIDE DEF S, T
    <3>2. /\ Cardinality(S) \in Nat /\ Cardinality(T) \in Nat
          /\ Cardinality(T) + (IF p \in S THEN 1 ELSE 0) = Cardinality(S) + (IF p \in T THEN 1 ELSE 0)
      BY <3>1, OneMoves
    <3>3. V = Cardinality(S)
      BY <2>4 DEF S
    <3>4. Cardinality(T) = V2
      BY <2>6, <3>1, <3>2, <3>3
    <3> QED
      BY <3>4 DEF T
  <2>21. \A j \in Targets \ {i} : OweNarrow(j)' = OweNarrow(j)
    BY <1>1, <1>3, <2>18 DEF OweNarrow, Waiting
  <2>22. ASSUME NEW j \in Targets PROVE IdentityFits(j)'
    <3>1. CASE j = i
      BY <2>11, <2>13, <2>14, <2>16, <2>18, <2>20, <3>1 DEF IdentityFits
    <3>2. CASE j # i
      <4>1. /\ IdentityFits(j) /\ OweNarrow(j)' = OweNarrow(j) /\ narrow'[j] = narrow[j]
            /\ counted'[j] = counted[j] /\ counted[j] \in Nat /\ (j \in lockout' => j \in lockout)
        BY <1>3, <2>18, <2>21, <1>t, <3>2 DEF LimiterInv
      <4> QED
        BY <1>t, <2>10, <2>14, <2>16, <4>1 DEF IdentityFits
    <3> QED
      BY <3>1, <3>2
  <2>23. ASSUME NEW q \in Attempters PROVE AttemptFits(attempt[q])'
    <3>1. CASE q = p
      BY <1>3, <2>12, <2>13, <2>16, <2>18, <2>19, <2>20, <3>1 DEF AttemptFits
    <3>2. CASE q # p
      <4>1. PICK y \in AttemptRecord : y = attempt[q] /\ y = attempt'[q]
        BY <2>18, <1>t, <3>2
      <4>2. AttemptFits(y)
        BY <4>1 DEF LimiterInv
      <4>3. y.count \in Nat /\ y.target \in Targets /\ counted[i] \in Nat /\ total \in Nat
        BY <1>t DEF AttemptRecord
      <4>4. y.pc = "wideSet" => y.count + Cardinality(OweWide') <= total'
        BY <2>4, <2>10, <2>11, <2>16, <2>19, <4>2, <4>3 DEF AttemptFits
      <4>5. /\ y.pc = "narrowSet" => y.count + Cardinality(OweNarrow(y.target)') <= counted'[y.target]
            /\ y.pc = "block" => counted'[y.target] >= NarrowMax
        <5>1. CASE y.target = i
          BY LimiterAssumption, <2>4, <2>10, <2>11, <2>14, <2>18, <2>20, <4>2, <4>3, <5>1 DEF AttemptFits
        <5>2. CASE y.target # i
          BY <2>18, <2>21, <4>2, <4>3, <5>2 DEF AttemptFits
        <5> QED
          BY <5>1, <5>2
      <4> QED
        BY <4>1, <4>4, <4>5 DEF AttemptFits
    <3> QED
      BY <3>1, <3>2
  <2> QED
    BY <1>3, <2>11, <2>16, <2>17, <2>19, <2>22, <2>23 DEF LimiterInv
\* The same request at another place.
<1>4. ASSUME NEW pc \in AttemptPc, AttemptGo(p, pc)
      PROVE  \E x \in AttemptRecord : /\ attempt' = [attempt EXCEPT ![p] = x] /\ x.pc = pc
                                      /\ x.target = r.target /\ x.count = r.count
  <2> DEFINE x == [r EXCEPT !.pc = pc]
  <2>1. x \in AttemptRecord /\ x.pc = pc /\ x.target = r.target /\ x.count = r.count
    BY DEF AttemptRecord
  <2>2. attempt' = [attempt EXCEPT ![p] = x]
    BY <1>1, <1>4 DEF AttemptGo
  <2> HIDE DEF x
  <2> QED
    BY <2>1, <2>2
\* It counts nothing.
<1>5. ASSUME NEW x \in AttemptRecord, attempt' = [attempt EXCEPT ![p] = x],
             x.target = r.target \/ r.pc = "idle",
             x.pc \in Waiting => r.pc \in Waiting, x.pc # "wideGet",
             NEW w \in 0 .. MaxCounted, wide' = w,
             NEW n \in 0 .. MaxCounted, narrow' = [narrow EXCEPT ![x.target] = n],
             UNCHANGED <<limiter, counted, total>>, lockout' \subseteq lockout \cup {x.target},
             x.target \in lockout' => x.target \in lockout \/ counted[x.target] >= NarrowMax,
             w <= wide \/ (r.pc = "wideSet" /\ w = r.count),
             n <= narrow[x.target] \/ (r.pc = "narrowSet" /\ n = r.count),
             x.pc = "wideSet" => r.pc = "wideGet" /\ x.count = wide + 1,
             x.pc = "narrowSet" => r.pc = "narrowGet" /\ x.count = narrow[x.target] + 1,
             x.pc = "block" => counted[x.target] >= NarrowMax
      PROVE  LimiterInv'
  <2>1. PICK i \in Targets : i = x.target
    BY DEF AttemptRecord
  <2>2. PICK d \in {0, 1} : d = 0
    OBVIOUS
  <2>3. /\ counted' = [counted EXCEPT ![i] = counted[i] + d] /\ total' = total + d
        /\ total + d <= MaxCounted /\ limiter' = limiter
    BY <1>5, <1>n, <1>t, <2>2
  <2>4. r.pc \in Waiting \cup {"narrowSet"} => i = r.target
    BY <1>5, <2>1 DEF Waiting
  <2>5. /\ (x.pc = "wideGet" <=> d = 1) /\ (x.pc \in Waiting => d = 1 \/ r.pc \in Waiting)
        /\ (d = 1 => r.pc \notin Waiting)
    BY <1>5, <2>2
  <2> QED
    BY <1>3, <1>5, <2>1, <2>2, <2>3, <2>4, <2>5
\* And changes no counter.
<1>6. ASSUME NEW x \in AttemptRecord, attempt' = [attempt EXCEPT ![p] = x],
             x.target = r.target \/ r.pc = "idle", x.pc \notin Waiting,
             UNCHANGED <<limiter, wide, narrow, lockout, counted, total>>,
             x.pc = "wideSet" => r.pc = "wideGet" /\ x.count = wide + 1,
             x.pc = "narrowSet" => r.pc = "narrowGet" /\ x.count = narrow[x.target] + 1,
             x.pc # "block"
      PROVE  LimiterInv'
  <2>1. x.target \in Targets /\ narrow[x.target] \in 0 .. MaxCounted
    BY <1>t DEF AttemptRecord
  <2>2. PICK n \in 0 .. MaxCounted, w \in 0 .. MaxCounted : n = narrow[x.target] /\ w = wide
    BY <1>t, <2>1
  <2>3. /\ narrow' = [narrow EXCEPT ![x.target] = n] /\ wide' = w /\ lockout' = lockout
        /\ w <= wide /\ n <= narrow[x.target] /\ x.pc # "wideGet"
    BY <1>6, <1>t, <1>n, <2>2 DEF Waiting
  <2> QED
    BY <1>5, <1>6, <2>2, <2>3
<1>7. CASE CheckFirst(p)
  <2>1. PICK i \in Targets : attempt' = [attempt EXCEPT ![p].pc = "check", ![p].target = i]
    BY <1>7 DEF CheckFirst
  <2>2. PICK x \in AttemptRecord : attempt' = [attempt EXCEPT ![p] = x] /\ x.pc = "check"
    <3> DEFINE x == [r EXCEPT !.pc = "check", !.target = i]
    <3>1. x \in AttemptRecord /\ x.pc = "check"
      BY DEF AttemptRecord, AttemptPc
    <3>2. attempt' = [attempt EXCEPT ![p] = x]
      BY <1>1, <2>1
    <3> HIDE DEF x
    <3> QED
      BY <3>1, <3>2
  <2>3. r.pc = "idle" /\ UNCHANGED <<limiter, wide, narrow, lockout, counted, total>>
    BY <1>1, <1>7 DEF CheckFirst, AttemptAt
  <2> QED
    BY <1>6, <2>2, <2>3 DEF Waiting
<1>8. CASE CheckSecond(p) \/ Refused(p) \/ AttemptEnds(p)
  <2>1. PICK pc \in {"attempt", "idle"} : AttemptGo(p, pc)
    BY <1>8 DEF CheckSecond, Refused, AttemptEnds
  <2>2. UNCHANGED <<limiter, wide, narrow, lockout, counted, total>>
    BY <1>8 DEF CheckSecond, Refused, AttemptEnds
  <2>3. pc \in AttemptPc
    BY DEF AttemptPc
  <2>4. PICK x \in AttemptRecord : /\ attempt' = [attempt EXCEPT ![p] = x] /\ x.pc = pc
                                   /\ x.target = r.target /\ x.count = r.count
    BY <1>4, <2>1, <2>3
  <2> QED
    BY <1>6, <2>2, <2>4 DEF Waiting
<1>9. CASE Attempted(p)
  <2>1. /\ r.pc = "attempt" /\ UNCHANGED <<limiter, wide, narrow, lockout>>
        /\ {"wideGet", "resetWide", "resetNarrow"} \subseteq AttemptPc
    BY <1>1, <1>9 DEF Attempted, AttemptAt, AttemptPc
  <2>2. CASE /\ total < MaxCounted /\ total' = total + 1 /\ AttemptGo(p, "wideGet")
             /\ counted' = [counted EXCEPT ![attempt[p].target] = @ + 1]
    <3>1. PICK x \in AttemptRecord : /\ attempt' = [attempt EXCEPT ![p] = x] /\ x.pc = "wideGet"
                                     /\ x.target = r.target /\ x.count = r.count
      BY <1>4, <2>1, <2>2
    <3>2. PICK i \in Targets : i = r.target /\ i = x.target
      BY <1>2, <3>1
    <3>3. PICK n \in 0 .. MaxCounted, w \in 0 .. MaxCounted : n = narrow[i] /\ w = wide
      BY <1>t
    <3>4. /\ narrow' = [narrow EXCEPT ![i] = n] /\ wide' = w /\ lockout' = lockout
          /\ w <= wide /\ n <= narrow[i]
      BY <1>t, <1>n, <2>1, <3>3
    <3>5. /\ counted' = [counted EXCEPT ![i] = counted[i] + 1] /\ total' = total + 1
          /\ total + 1 <= MaxCounted /\ limiter' = limiter /\ 1 \in {0, 1}
      BY <1>1, <1>t, <1>n, <2>1, <2>2, <3>2
    <3>6. r.pc \notin Waiting /\ x.pc \in Waiting
      BY <2>1, <3>1 DEF Waiting
    <3> QED
      BY <1>3, <2>1, <3>1, <3>2, <3>3, <3>4, <3>5, <3>6
  <2>3. CASE /\ AttemptGo(p, IF limiter = "login" THEN "resetWide" ELSE "resetNarrow")
             /\ UNCHANGED <<counted, total>>
    <3>1. PICK pc \in {"resetWide", "resetNarrow"} : AttemptGo(p, pc)
      BY <2>3
    <3>2. PICK x \in AttemptRecord : /\ attempt' = [attempt EXCEPT ![p] = x] /\ x.pc = pc
                                     /\ x.target = r.target /\ x.count = r.count
      BY <1>4, <2>1, <3>1
    <3> QED
      BY <1>6, <2>1, <2>3, <3>2 DEF Waiting
  <2> QED
    BY <1>9, <2>2, <2>3 DEF Attempted
<1>10. CASE WideGet(p)
  <2>1. r.pc = "wideGet" /\ UNCHANGED <<limiter, wide, narrow, lockout, counted, total>>
    BY <1>1, <1>10 DEF WideGet, AttemptAt
  <2>2. wide + 1 \in 0 .. MaxCounted
    <3>1. IsFiniteSet(OweWide) /\ p \in OweWide
      BY <1>1, <2>1, LimiterAssumption, FS_Subset DEF OweWide
    <3>2. Cardinality(OweWide) \in Nat /\ Cardinality(OweWide) # 0
      BY <3>1, FS_CardinalityType, FS_EmptySet
    <3>3. wide + Cardinality(OweWide) <= total
      BY DEF LimiterInv
    <3> QED
      BY <1>n, <1>t, <3>2, <3>3
  <2>3. PICK x \in AttemptRecord : /\ attempt' = [attempt EXCEPT ![p] = x] /\ x.pc = "wideSet"
                                   /\ x.target = r.target /\ x.count = wide + 1
    <3>1. PICK k \in 0 .. MaxCounted : k = wide + 1
      BY <2>2
    <3> DEFINE x == [r EXCEPT !.pc = "wideSet", !.count = k]
    <3>2. x \in AttemptRecord /\ x.pc = "wideSet" /\ x.target = r.target /\ x.count = k
      BY DEF AttemptRecord, AttemptPc
    <3>3. attempt' = [attempt EXCEPT ![p] = x]
      BY <1>1, <1>10, <3>1 DEF WideGet, AttemptRead
    <3> HIDE DEF x
    <3> QED
      BY <3>1, <3>2, <3>3
  <2>4. PICK n \in 0 .. MaxCounted, w \in 0 .. MaxCounted : n = narrow[x.target] /\ w = wide
    BY <1>t DEF AttemptRecord
  <2>5. /\ narrow' = [narrow EXCEPT ![x.target] = n] /\ wide' = w /\ lockout' = lockout
        /\ w <= wide /\ n <= narrow[x.target]
    BY <1>t, <1>n, <2>1, <2>4
  <2>6. r.pc \in Waiting
    BY <2>1 DEF Waiting
  <2> QED
    BY <1>5, <2>1, <2>3, <2>4, <2>5, <2>6
<1>11. CASE WideSet(p)
  <2>1. /\ r.pc = "wideSet" /\ UNCHANGED <<limiter, narrow, lockout, counted, total>>
        /\ wide' = r.count /\ AttemptGo(p, "narrowGet") /\ "narrowGet" \in AttemptPc
    BY <1>1, <1>11 DEF WideSet, AttemptAt, AttemptPc
  <2>2. PICK x \in AttemptRecord : /\ attempt' = [attempt EXCEPT ![p] = x] /\ x.pc = "narrowGet"
                                   /\ x.target = r.target /\ x.count = r.count
    BY <1>4, <2>1
  <2>3. PICK n \in 0 .. MaxCounted, w \in 0 .. MaxCounted : n = narrow[x.target] /\ w = r.count
    BY <1>2, <1>t DEF AttemptRecord
  <2>4. /\ narrow' = [narrow EXCEPT ![x.target] = n] /\ wide' = w /\ lockout' = lockout
        /\ n <= narrow[x.target]
    BY <1>t, <1>n, <2>1, <2>3
  <2>5. r.pc \in Waiting
    BY <2>1 DEF Waiting
  <2> QED
    BY <1>5, <2>1, <2>2, <2>3, <2>4, <2>5
<1>12. CASE NarrowGet(p)
  <2>1. /\ r.pc = "narrowGet" /\ UNCHANGED <<limiter, wide, narrow, lockout, counted, total>>
        /\ narrow[r.target] < MaxCounted
    BY <1>1, <1>12 DEF NarrowGet, AttemptAt, ReadNarrow
  <2>2. PICK x \in AttemptRecord : /\ attempt' = [attempt EXCEPT ![p] = x] /\ x.pc = "narrowSet"
                                   /\ x.target = r.target /\ x.count = narrow[r.target] + 1
    <3>1. PICK k \in 0 .. MaxCounted : k = narrow[r.target] + 1
      BY <1>2, <1>n, <1>t, <2>1
    <3> DEFINE x == [r EXCEPT !.pc = "narrowSet", !.count = k]
    <3>2. x \in AttemptRecord /\ x.pc = "narrowSet" /\ x.target = r.target /\ x.count = k
      BY DEF AttemptRecord, AttemptPc
    <3>3. attempt' = [attempt EXCEPT ![p] = x]
      BY <1>1, <1>12, <3>1 DEF NarrowGet, AttemptRead, ReadNarrow
    <3> HIDE DEF x
    <3> QED
      BY <3>1, <3>2, <3>3
  <2> QED
    BY <1>6, <2>1, <2>2 DEF Waiting
<1>13. CASE NarrowSet(p)
  <2>1. /\ r.pc = "narrowSet" /\ UNCHANGED <<limiter, wide, lockout, counted, total>>
        /\ narrow' = [narrow EXCEPT ![r.target] = r.count]
        /\ AttemptGo(p, IF limiter = "login" /\ r.count >= NarrowMax THEN "block" ELSE "idle")
    BY <1>1, <1>13 DEF NarrowSet, AttemptAt
  <2>2. PICK pc \in {"block", "idle"} : AttemptGo(p, pc) /\ (pc = "block" => r.count >= NarrowMax)
    BY <2>1
  <2>3. pc \in AttemptPc
    BY DEF AttemptPc
  <2>4. PICK x \in AttemptRecord : /\ attempt' = [attempt EXCEPT ![p] = x] /\ x.pc = pc
                                   /\ x.target = r.target /\ x.count = r.count
    BY <1>4, <2>2, <2>3
  <2>5. PICK n \in 0 .. MaxCounted, w \in 0 .. MaxCounted : n = r.count /\ w = wide
    BY <1>2, <1>t
  <2>6. /\ narrow' = [narrow EXCEPT ![x.target] = n] /\ wide' = w /\ lockout' = lockout /\ w <= wide
    BY <1>n, <2>1, <2>4, <2>5
  <2>7. x.pc = "block" => counted[x.target] >= NarrowMax
    <3>1. IsFiniteSet(OweNarrow(r.target))
      BY LimiterAssumption, FS_Subset DEF OweNarrow
    <3>2. PICK V \in Nat : V = Cardinality(OweNarrow(r.target))
      BY <3>1, FS_CardinalityType
    <3>3. r.count + V <= counted[r.target] /\ counted[r.target] \in Nat
      BY <1>2, <1>t, <2>1, <3>2 DEF AttemptFits
    <3> QED
      BY <1>2, <1>n, <2>2, <2>4, <3>3, LimiterAssumption
  <2> QED
    BY <1>5, <2>1, <2>4, <2>5, <2>6, <2>7 DEF Waiting
<1>14. CASE SetBlock(p) \/ ResetBlock(p)
  <2>1. /\ r.pc \in {"block", "resetBlock"} /\ UNCHANGED <<limiter, wide, narrow, counted, total>>
        /\ lockout' \subseteq lockout \cup {r.target} /\ AttemptGo(p, "idle") /\ "idle" \in AttemptPc
        /\ r.target \in lockout' => r.pc = "block"
    BY <1>1, <1>14 DEF SetBlock, ResetBlock, AttemptAt, AttemptPc
  <2>2. PICK x \in AttemptRecord : /\ attempt' = [attempt EXCEPT ![p] = x] /\ x.pc = "idle"
                                   /\ x.target = r.target /\ x.count = r.count
    BY <1>4, <2>1
  <2>3. PICK n \in 0 .. MaxCounted, w \in 0 .. MaxCounted : n = narrow[x.target] /\ w = wide
    BY <1>t DEF AttemptRecord
  <2>4. /\ narrow' = [narrow EXCEPT ![x.target] = n] /\ wide' = w
        /\ w <= wide /\ n <= narrow[x.target]
        /\ x.target \in lockout' => counted[x.target] >= NarrowMax
    BY <1>2, <1>t, <1>n, <2>1, <2>2, <2>3 DEF AttemptFits
  <2> QED
    BY <1>5, <2>1, <2>2, <2>3, <2>4 DEF Waiting
<1>15. CASE ResetWide(p) \/ ResetNarrow(p)
  <2>1. PICK pc \in {"resetNarrow", "resetBlock", "idle"} : AttemptGo(p, pc)
    BY <1>15 DEF ResetWide, ResetNarrow
  <2>2. pc \in AttemptPc /\ UNCHANGED <<limiter, lockout, counted, total>>
    BY <1>15 DEF ResetWide, ResetNarrow, AttemptPc
  <2>3. PICK x \in AttemptRecord : /\ attempt' = [attempt EXCEPT ![p] = x] /\ x.pc = pc
                                   /\ x.target = r.target /\ x.count = r.count
    BY <1>4, <2>1, <2>2
  <2>4. PICK n \in 0 .. MaxCounted, w \in 0 .. MaxCounted :
          /\ narrow' = [narrow EXCEPT ![x.target] = n] /\ wide' = w
          /\ w <= wide /\ n <= narrow[x.target]
    <3>1. 0 \in 0 .. MaxCounted /\ x.target \in Targets /\ narrow[x.target] \in 0 .. MaxCounted
      BY <1>n, <1>t DEF AttemptRecord
    <3>2. CASE ResetWide(p)
      <4>1. wide' = 0 /\ narrow' = [narrow EXCEPT ![x.target] = narrow[x.target]]
        BY <1>t, <3>2 DEF ResetWide
      <4>2. 0 <= wide /\ narrow[x.target] <= narrow[x.target]
        BY <1>t, <1>n, <3>1
      <4> QED
        BY <3>1, <4>1, <4>2
    <3>3. CASE ResetNarrow(p)
      <4>1. wide' = wide /\ narrow' = [narrow EXCEPT ![x.target] = 0]
        BY <1>1, <2>3, <3>3 DEF ResetNarrow
      <4>2. wide <= wide /\ 0 <= narrow[x.target]
        BY <1>t, <1>n, <3>1
      <4> QED
        BY <1>t, <3>1, <4>1, <4>2
    <3> QED
      BY <1>15, <3>2, <3>3
  <2> QED
    BY <1>5, <2>2, <2>3, <2>4 DEF Waiting
<1> QED
  BY <1>7, <1>8, <1>9, <1>10, <1>11, <1>12, <1>13, <1>14, <1>15

\* A key is gone, or the behaviour begins.
LEMMA WorldKeepsLimiter ==
  ASSUME LimiterInv,
         LimiterKeyGone \/ (\E k \in LimiterKind : ChooseLimiter(k)) \/ UNCHANGED limiterVars
  PROVE  LimiterInv'
<1>t. /\ narrow \in [Targets -> 0 .. MaxCounted] /\ counted \in [Targets -> 0 .. MaxCounted]
      /\ total \in 0 .. MaxCounted /\ wide \in 0 .. MaxCounted
  BY DEF LimiterInv, LimiterTypeOK
<1>1. 0 \in 0 .. MaxCounted /\ MaxCounted \in Nat
  BY LimiterAssumption
<1>2. /\ UNCHANGED <<attempt, counted, total>> /\ lockout' \subseteq lockout
      /\ limiter' \in LimiterKind \cup {"none"}
  BY DEF LimiterInv, LimiterTypeOK, LimiterKeyGone, ChooseLimiter, limiterVars
<1>3. wide' \in 0 .. MaxCounted /\ wide' <= wide
  BY <1>1, <1>t DEF LimiterKeyGone, ChooseLimiter, limiterVars
<1>4. narrow' \in [Targets -> 0 .. MaxCounted] /\ \A i \in Targets : narrow'[i] <= narrow[i]
  BY <1>1, <1>t DEF LimiterKeyGone, ChooseLimiter, limiterVars
<1>5. OweWide' = OweWide /\ \A i \in Targets : OweNarrow(i)' = OweNarrow(i)
  BY <1>2 DEF OweWide, OweNarrow
<1>6. LimiterTypeOK'
  BY <1>2, <1>3, <1>4 DEF LimiterInv, LimiterTypeOK
<1>7. wide' + Cardinality(OweWide') <= total'
  <2>1. PICK W \in Nat : W = Cardinality(OweWide)
    BY LimiterAssumption, FS_Subset, FS_CardinalityType DEF OweWide
  <2>2. wide + W <= total
    BY <2>1 DEF LimiterInv
  <2> QED
    BY <1>1, <1>2, <1>3, <1>5, <1>t, <2>1, <2>2
<1>8. ASSUME NEW i \in Targets PROVE IdentityFits(i)'
  <2>1. PICK V \in Nat : V = Cardinality(OweNarrow(i))
    BY LimiterAssumption, FS_Subset, FS_CardinalityType DEF OweNarrow
  <2>2. /\ narrow[i] + V <= counted[i] /\ counted[i] <= total
        /\ i \in lockout => counted[i] >= NarrowMax
    BY <2>1 DEF LimiterInv, IdentityFits
  <2>3. narrow'[i] <= narrow[i] /\ narrow'[i] \in Nat /\ narrow[i] \in Nat /\ counted[i] \in Nat
    BY <1>4, <1>t
  <2>4. narrow'[i] + V <= counted[i]
    BY <2>2, <2>3
  <2> QED
    BY <1>2, <1>5, <2>1, <2>2, <2>4 DEF IdentityFits
<1>9. ASSUME NEW p \in Attempters PROVE AttemptFits(attempt[p])'
  <2>1. AttemptFits(attempt[p]) /\ attempt[p].target \in Targets
    BY DEF LimiterInv, LimiterTypeOK
  <2> QED
    BY <1>2, <1>5, <2>1 DEF AttemptFits
<1> QED
  BY <1>6, <1>7, <1>8, <1>9 DEF LimiterInv

\* The counters of a limiter lag behind the attempts that are counted by at least those still to
\* be added, whatever gets and sets interleave.
THEOREM LimiterInvariant == LimiterSpec => []LimiterInv
<1>1. LimiterInv /\ [LimiterNext]_limiterVars => LimiterInv'
  <2> SUFFICES ASSUME LimiterInv, [LimiterNext]_limiterVars PROVE LimiterInv'
    OBVIOUS
  <2> QED
    BY RequestKeepsLimiter, WorldKeepsLimiter DEF LimiterNext
<1> QED
  BY <1>1, LimiterInitInv, PTL DEF LimiterSpec

\* Nobody is locked out by less than NarrowMax attempts of its own that were counted, and no
\* counter shows more than were (LoginRateLimiterService, and the three like it).
THEOREM LockoutHolds == LimiterSpec => []LockoutIsEarned
<1>1. LimiterInv => LockoutIsEarned
  <2> SUFFICES ASSUME LimiterInv PROVE LockoutIsEarned
    OBVIOUS
  <2>1. wide <= total
    <3>1. PICK W \in Nat : W = Cardinality(OweWide)
      BY LimiterAssumption, FS_Subset, FS_CardinalityType DEF OweWide
    <3>2. wide + W <= total /\ wide \in Nat /\ total \in Nat
      BY <3>1 DEF LimiterInv, LimiterTypeOK
    <3> QED
      BY <3>2
  <2>2. ASSUME NEW i \in Targets
        PROVE  narrow[i] <= counted[i] /\ (i \in lockout => counted[i] >= NarrowMax)
    <3>1. PICK V \in Nat : V = Cardinality(OweNarrow(i))
      BY LimiterAssumption, FS_Subset, FS_CardinalityType DEF OweNarrow
    <3>2. /\ narrow[i] + V <= counted[i] /\ (i \in lockout => counted[i] >= NarrowMax)
          /\ narrow[i] \in Nat /\ counted[i] \in Nat
      BY <3>1 DEF LimiterInv, IdentityFits, LimiterTypeOK
    <3> QED
      BY <3>2
  <2> QED
    BY <2>1, <2>2 DEF LockoutIsEarned
<1> QED
  BY <1>1, LimiterInvariant, PTL

-----------------------------------------------------------------------------
(* Throttling.                                                             *)

\* A counter beyond the limit has a block that ends no earlier than it.
ThrottleInv ==
  /\ ThrottleTypeOK
  /\ hits = 0 => passed = 0
  /\ passed <= hits /\ passed <= Limit
  /\ hits > 0 => hitsEnd <= now + Ttl
  /\ blockEnd <= now + BlockFor
  /\ hits > Limit => blockEnd > 0 /\ hitsEnd <= blockEnd

\* The counter and its block, whatever is counted and whatever expires.
THEOREM ThrottleInvariant == ThrottleSpec => []ThrottleInv
<1> USE ThrottleAssumption DEF ThrottleInv, ThrottleTypeOK, MaxEnd
<1>1. ThrottleInit => ThrottleInv
  BY DEF ThrottleInit
<1>2. ThrottleInv /\ [ThrottleNext]_throttleVars => ThrottleInv'
  <2> SUFFICES ASSUME ThrottleInv, [ThrottleNext]_throttleVars PROVE ThrottleInv'
    OBVIOUS
  <2>1. CASE ThrottleTick
    BY <2>1 DEF ThrottleTick
  <2>2. CASE Increment
    <3> DEFINE end == IF hits = 0 THEN now + Ttl ELSE hitsEnd
    <3>1. end \in Nat /\ end <= now + Ttl /\ blockEnd = 0 /\ hits <= Limit
      BY <2>2 DEF Increment
    <3>2. /\ hits' = hits + 1 /\ now' = now
          /\ IF hits + 1 > Limit
             THEN blockEnd' = now + BlockFor /\ hitsEnd' = CapEnd(end) /\ UNCHANGED passed
             ELSE hitsEnd' = end /\ passed' = passed + 1 /\ UNCHANGED blockEnd
      BY <2>2 DEF Increment
    <3>3. CapEnd(end) \in Nat /\ CapEnd(end) <= now + BlockFor /\ CapEnd(end) <= now + Ttl
      BY <3>1 DEF CapEnd
    <3> HIDE DEF end
    <3> QED
      BY <3>1, <3>2, <3>3
  <2>3. CASE UNCHANGED throttleVars
    BY <2>3 DEF throttleVars
  <2> QED
    BY <2>1, <2>2, <2>3 DEF ThrottleNext
<1> QED
  BY <1>1, <1>2, PTL DEF ThrottleSpec

\* A window lets no more than Limit requests pass, and a block outlives the counter that began it
\* (INCREMENT_SCRIPT).
THEOREM ThrottleHolds == ThrottleSpec => []ThrottleIsFair
<1>1. ThrottleInv => ThrottleIsFair
  BY ThrottleAssumption DEF ThrottleInv, ThrottleTypeOK, ThrottleIsFair
<1> QED
  BY <1>1, ThrottleInvariant, PTL

-----------------------------------------------------------------------------
(* SessionVault.                                                           *)

Busy(r) == r.pc \in {"reading", "calling", "writing", "deleting", "latest", "releasing"}
Rotated(r) == r.call = "ok" /\ r.pc \in {"calling", "writing", "deleting"}
Engaged(r) == r.call = "sent" \/ Rotated(r)
Known(t) == t = tokens.live \/ t \in tokens.gone
Ordered(e) == e.version <= e.refreshToken /\ e.refreshToken <= tokens.issued

\* What holds of a request whatever goes wrong.
BffFits(r) ==
  /\ Ordered(r.seen)
  /\ r.pc \in {"new", "locking", "reading"} => r.call = "none"
  /\ r.pc = "writing" => r.call = "ok"
  /\ r.call = "ok" => r.seen.refreshToken < r.next /\ r.next <= tokens.issued
  /\ r.outcome = "anonymous" => ~VaultHeld
  /\ login \in {"out", "granted"} => r.pc = "new" /\ r.outcome # "anonymous"

VaultFits ==
  /\ Ordered(vault) /\ tokens.live <= tokens.issued
  /\ login = "out" => tokens.issued = 0
  /\ login = "granted" => tokens.live = 1 /\ tokens.issued = 1
  /\ login # "in" => ~VaultHeld /\ logout.pc = "new" /\ logout.entry = "open"
  /\ logout.entry = "deleted" => ~VaultHeld
  /\ ~VaultHeld => vault = NoEntry

\* And while nothing has gone wrong: whoever is at work holds the lease, a token that is sent
\* is one the backend knows, and the entry is the one it was read as.
CalmFits(p, r) ==
  /\ Busy(r) => lease = p
  /\ r.call = "sent" => /\ Known(r.seen.refreshToken)
                        /\ r.pc \in {"calling", "deleting"} \/ ~VaultHeld
  /\ Rotated(r) => Known(r.next)
  /\ r.pc \in {"calling", "writing", "deleting"} /\ VaultHeld => vault.version = r.seen.version

CalmVault ==
  /\ ~tokens.reused
  /\ VaultHeld => Known(vault.refreshToken) \/ \E p \in BffRequests : Rotated(bff[p])
  /\ \A p, q \in BffRequests : Engaged(bff[p]) /\ Engaged(bff[q]) => p = q

BffCalm == troubles = 0 => CalmVault /\ \A p \in BffRequests : CalmFits(p, bff[p])

VaultInv ==
  /\ BffTypeOK /\ VaultFits
  /\ \A p \in BffRequests : BffFits(bff[p])
  /\ BffCalm

LEMMA VaultInitInv == BffInit => VaultInv
<1> SUFFICES ASSUME BffInit PROVE VaultInv
  OBVIOUS
<1>1. 0 \in Token /\ 0 \in 0 .. MaxTroubles
  BY BffAssumption DEF Token
<1>2. NoEntry \in VaultEntry /\ NoEntry.version = 0 /\ NoEntry.refreshToken = 0
  BY <1>1 DEF NoEntry, VaultEntry
<1> DEFINE r == [pc |-> "new", seen |-> NoEntry, call |-> "none", next |-> 0, outcome |-> "none"]
<1>3. /\ r \in BffRecord /\ r.pc = "new" /\ r.seen = NoEntry /\ r.call = "none"
      /\ r.outcome = "none"
  BY <1>1, <1>2 DEF BffRecord, Outcome
<1>4. bff = [p \in BffRequests |-> r]
  BY DEF BffInit
<1> HIDE DEF r
<1>5. /\ tokens.issued = 0 /\ tokens.live = 0 /\ ~tokens.reused /\ logout.pc = "new"
      /\ logout.entry = "open" /\ login = "out" /\ vault = NoEntry
  BY DEF BffInit
<1>6. BffTypeOK
  BY <1>1, <1>2, <1>3, <1>4 DEF BffInit, BffTypeOK
<1>7. ~VaultHeld
  BY <1>2, <1>5 DEF VaultHeld
<1>8. VaultFits
  BY <1>2, <1>5, <1>7 DEF VaultFits, Ordered
<1>9. \A p \in BffRequests : BffFits(bff[p])
  BY <1>2, <1>3, <1>4, <1>5, <1>7 DEF BffFits, Ordered
<1>10. BffCalm
  BY <1>3, <1>4, <1>5, <1>7 DEF BffCalm, CalmVault, CalmFits, Busy, Rotated, Engaged
<1> QED
  BY <1>6, <1>8, <1>9, <1>10 DEF VaultInv

\* A request moves, and perhaps the entry, the lease or the backend's tokens with it.
LEMMA BffMoves ==
  ASSUME VaultInv, NEW p \in BffRequests, NEW r \in BffRecord, BffGo(p, r),
         UNCHANGED <<login, logout>>,
         vault' \in VaultEntry, lease' \in BffRequests \cup {NoBff},
         tokens' \in [issued : Token, live : Token, gone : SUBSET Token, reused : BOOLEAN],
         troubles' \in 0 .. MaxTroubles, tokens.issued <= tokens'.issued,
         VaultHeld' => VaultHeld, VaultFits', BffFits(r)',
         troubles' = 0 =>
           /\ ~tokens'.reused
           /\ CalmFits(p, r)'
           /\ \A q \in BffRequests \ {p} : CalmFits(q, bff[q])' /\ ~(Engaged(r) /\ Engaged(bff[q]))
           /\ \A q, s \in BffRequests : Engaged(bff[q]) /\ Engaged(bff[s]) => q = s
           /\ VaultHeld' => \/ Known(vault.refreshToken)' \/ Rotated(r)
                            \/ \E q \in BffRequests \ {p} : Rotated(bff[q])
  PROVE  VaultInv'
<1>t. bff \in [BffRequests -> BffRecord]
  BY DEF VaultInv, BffTypeOK
<1>1. bff' \in [BffRequests -> BffRecord] /\ bff'[p] = r
      /\ \A q \in BffRequests \ {p} : bff'[q] = bff[q]
  BY <1>t DEF BffGo
<1>2. BffTypeOK'
  BY <1>1 DEF VaultInv, BffTypeOK
<1>3. ASSUME NEW q \in BffRequests PROVE BffFits(bff[q])'
  <2>1. CASE q = p
    BY <1>1, <2>1 DEF BffFits, Ordered
  <2>2. CASE q # p
    <3>1. BffFits(bff[q]) /\ bff'[q] = bff[q] /\ bff[q].seen.refreshToken \in Nat
          /\ bff[q].next \in Nat /\ tokens.issued \in Nat /\ tokens'.issued \in Nat
      <4>1. bff[q] \in BffRecord /\ tokens.issued \in Token
        BY <1>t DEF VaultInv, BffTypeOK
      <4> QED
        BY <1>1, <2>2, <4>1, BffAssumption DEF VaultInv, BffRecord, VaultEntry, Token
    <3> QED
      BY <3>1 DEF BffFits, Ordered
  <2> QED
    BY <2>1, <2>2
<1>4. BffCalm'
  <2> SUFFICES ASSUME troubles' = 0
               PROVE  CalmVault' /\ \A q \in BffRequests : CalmFits(q, bff[q])'
    BY DEF BffCalm
  <2>1. \A q \in BffRequests : CalmFits(q, bff[q])'
    BY <1>1 DEF CalmFits, Known, VaultHeld
  <2>2. (VaultHeld => Known(vault.refreshToken) \/ \E q \in BffRequests : Rotated(bff[q]))'
    BY <1>1 DEF Rotated
  <2>3. (\A q, s \in BffRequests : Engaged(bff[q]) /\ Engaged(bff[s]) => q = s)'
    BY <1>1 DEF Engaged, Rotated
  <2> QED
    BY <2>1, <2>2, <2>3 DEF CalmVault
<1> QED
  BY <1>2, <1>3, <1>4 DEF VaultInv

\* A request moves alone, but for the lease.
LEMMA OnlyMoves ==
  ASSUME VaultInv, NEW p \in BffRequests, NEW r \in BffRecord, BffGo(p, r),
         UNCHANGED <<vault, login, logout, tokens>>,
         lease' \in BffRequests \cup {NoBff}, troubles' \in 0 .. MaxTroubles, BffFits(r),
         troubles' = 0 =>
           /\ troubles = 0 /\ CalmFits(p, r)'
           /\ \A q \in BffRequests \ {p} : Busy(bff[q]) => lease' = q
           /\ Engaged(r) => Engaged(bff[p]) \/ \A q \in BffRequests \ {p} : ~Engaged(bff[q])
           /\ Rotated(bff[p]) => Rotated(r)
  PROVE  VaultInv'
<1>1. tokens.issued <= tokens'.issued /\ (VaultHeld' => VaultHeld)
  <2>1. tokens.issued \in Nat
    BY BffAssumption DEF VaultInv, BffTypeOK, Token
  <2> QED
    BY <2>1 DEF VaultHeld
<1>2. VaultFits' /\ BffFits(r)'
  BY DEF VaultInv, VaultFits, BffFits, Ordered, VaultHeld
<1>3. ASSUME troubles' = 0
      PROVE  /\ ~tokens'.reused
             /\ CalmFits(p, r)'
             /\ \A q \in BffRequests \ {p} : CalmFits(q, bff[q])' /\ ~(Engaged(r) /\ Engaged(bff[q]))
             /\ \A q, t \in BffRequests : Engaged(bff[q]) /\ Engaged(bff[t]) => q = t
             /\ VaultHeld' => \/ Known(vault.refreshToken)' \/ Rotated(r)
                              \/ \E q \in BffRequests \ {p} : Rotated(bff[q])
  <2>1. CalmVault /\ \A q \in BffRequests : CalmFits(q, bff[q])
    BY <1>3 DEF VaultInv, BffCalm
  <2>2. ASSUME NEW q \in BffRequests \ {p} PROVE CalmFits(q, bff[q])'
    <3>1. bff'[q] = bff[q]
      BY DEF BffGo, VaultInv, BffTypeOK
    <3> QED
      BY <1>3, <2>1, <3>1 DEF CalmFits, Busy, Known, Rotated, VaultHeld
  <2>3. \A q \in BffRequests \ {p} : ~(Engaged(r) /\ Engaged(bff[q]))
    BY <1>3, <2>1 DEF CalmVault
  <2>4. VaultHeld' => \/ Known(vault.refreshToken)' \/ Rotated(r)
                      \/ \E q \in BffRequests \ {p} : Rotated(bff[q])
    BY <1>3, <2>1 DEF CalmVault, VaultHeld, Known
  <2> QED
    BY <1>3, <2>1, <2>2, <2>3, <2>4 DEF CalmVault
<1>4. /\ vault' \in VaultEntry
      /\ tokens' \in [issued : Token, live : Token, gone : SUBSET Token, reused : BOOLEAN]
  BY DEF VaultInv, BffTypeOK
<1> QED
  BY <1>1, <1>2, <1>3, <1>4, BffMoves

\* What a step that ends, or passes on, leaves of a request.
SameCall(r, old) == r.seen = old.seen /\ r.call = old.call /\ r.next = old.next

LEMMA EndMoves ==
  ASSUME VaultInv, NEW p \in BffRequests,
         NEW a \in {"new", "locking", "reading", "calling", "writing", "deleting", "latest",
                    "releasing", "done"},
         NEW o \in Outcome, End(p, a, o)
  PROVE  \E r \in BffRecord : BffGo(p, r) /\ r.pc = a /\ r.outcome = o /\ SameCall(r, bff[p])
<1> DEFINE r == [bff[p] EXCEPT !.pc = a, !.outcome = o]
<1>1. bff[p] \in BffRecord
  BY DEF VaultInv, BffTypeOK
<1>2. r \in BffRecord /\ r.pc = a /\ r.outcome = o /\ SameCall(r, bff[p])
  BY <1>1 DEF BffRecord, SameCall
<1>3. BffGo(p, r)
  BY DEF End
<1> HIDE DEF r
<1> QED
  BY <1>2, <1>3

LEMMA GoMoves ==
  ASSUME VaultInv, NEW p \in BffRequests,
         NEW a \in {"new", "locking", "reading", "calling", "writing", "deleting", "latest",
                    "releasing", "done"},
         BffGo(p, [bff[p] EXCEPT !.pc = a])
  PROVE  \E r \in BffRecord : /\ BffGo(p, r) /\ r.pc = a /\ r.outcome = bff[p].outcome
                              /\ SameCall(r, bff[p])
<1> DEFINE r == [bff[p] EXCEPT !.pc = a]
<1>1. bff[p] \in BffRecord
  BY DEF VaultInv, BffTypeOK
<1>2. r \in BffRecord /\ r.pc = a /\ r.outcome = bff[p].outcome /\ SameCall(r, bff[p])
  BY <1>1 DEF BffRecord, SameCall
<1>3. BffGo(p, r)
  OBVIOUS
<1> HIDE DEF r
<1> QED
  BY <1>2, <1>3

LEMMA TroubleCounts ==
  ASSUME VaultInv
  PROVE  /\ troubles \in 0 .. MaxTroubles
         /\ Trouble => troubles' \in 0 .. MaxTroubles /\ troubles' # 0
<1>1. troubles \in 0 .. MaxTroubles /\ MaxTroubles \in Nat
  BY BffAssumption DEF VaultInv, BffTypeOK
<1> QED
  BY <1>1 DEF Trouble

\* A request that serves, rejects or gives up where it has done its work.
LEMMA EndKeepsVault ==
  ASSUME VaultInv, NEW p \in BffRequests, NEW a \in {"releasing", "done"}, NEW o \in Outcome,
         End(p, a, o), UNCHANGED <<vault, login, logout, tokens>>,
         lease' \in BffRequests \cup {NoBff}, troubles' = troubles \/ Trouble,
         login = "in" \/ bff[p].pc # "new", o = "anonymous" => ~VaultHeld,
         troubles' = 0 =>
           /\ a = "releasing" => lease' = p
           /\ \A q \in BffRequests \ {p} : Busy(bff[q]) => lease' = q
           /\ bff[p].pc \notin {"calling", "writing", "deleting"} \/ bff[p].call = "lost"
  PROVE  VaultInv'
<1>1. PICK r \in BffRecord : BffGo(p, r) /\ r.pc = a /\ r.outcome = o /\ SameCall(r, bff[p])
  BY EndMoves
<1>2. BffFits(bff[p]) /\ troubles' \in 0 .. MaxTroubles /\ (troubles' = 0 => troubles = 0)
  BY TroubleCounts DEF VaultInv
<1>3. BffFits(r)
  BY <1>1, <1>2 DEF BffFits, Ordered, SameCall
<1>4. ASSUME troubles' = 0
      PROVE  /\ CalmFits(p, r)' /\ ~Rotated(bff[p])
             /\ Engaged(r) => Engaged(bff[p])
  <2>1. CalmFits(p, bff[p])
    BY <1>2, <1>4 DEF VaultInv, BffCalm
  <2>2. ~Rotated(bff[p]) /\ ~Rotated(r) /\ (Engaged(r) => Engaged(bff[p]))
    BY <1>1, <1>4 DEF Rotated, Engaged, SameCall
  <2>3. CalmFits(p, r)'
    BY <1>1, <1>4, <2>1, <2>2 DEF CalmFits, SameCall, Busy, Known, VaultHeld
  <2> QED
    BY <2>2, <2>3
<1> QED
  BY <1>1, <1>2, <1>3, <1>4, OnlyMoves

\* The lease of a request at work, while nothing has gone wrong.
LEMMA LeaseIsHeld ==
  ASSUME VaultInv, troubles = 0, NEW p \in BffRequests
  PROVE  /\ CalmFits(p, bff[p]) /\ CalmVault
         /\ lease = NoBff => \A q \in BffRequests : ~Busy(bff[q])
         /\ lease = p => \A q \in BffRequests \ {p} : ~Busy(bff[q])
  BY BffAssumption DEF VaultInv, BffCalm, CalmFits

LEMMA GetEntryKeepsVault ==
  ASSUME VaultInv, NEW p \in BffRequests, GetEntry(p)
  PROVE  VaultInv'
<1>t. /\ bff[p] \in BffRecord /\ BffFits(bff[p]) /\ vault \in VaultEntry
      /\ lease \in BffRequests \cup {NoBff} /\ Ordered(vault)
      /\ troubles \in 0 .. MaxTroubles
  BY DEF VaultInv, BffTypeOK, VaultFits
<1>g. /\ bff[p].pc = "new" /\ login = "in" /\ lease' = lease
      /\ UNCHANGED <<vault, login, logout, tokens>>
  BY DEF GetEntry, BffAt
<1>c. ASSUME troubles' = 0, troubles = 0
      PROVE  \A q \in BffRequests \ {p} : Busy(bff[q]) => lease' = q
  BY <1>c, <1>g DEF VaultInv, BffCalm, CalmFits
<1>1. ASSUME NEW o \in Outcome, End(p, "done", o), troubles' = troubles \/ Trouble,
             o = "anonymous" => ~VaultHeld
      PROVE  VaultInv'
  BY <1>1, <1>c, <1>g, <1>t, TroubleCounts, EndKeepsVault
<1>2. CASE BffGo(p, [bff[p] EXCEPT !.pc = "locking", !.seen = vault]) /\ UNCHANGED troubles
  <2>1. PICK r \in BffRecord : /\ BffGo(p, r) /\ r.pc = "locking" /\ r.seen = vault
                               /\ r.call = bff[p].call /\ r.outcome = bff[p].outcome
    <3> DEFINE r == [bff[p] EXCEPT !.pc = "locking", !.seen = vault]
    <3>1. /\ r \in BffRecord /\ r.pc = "locking" /\ r.seen = vault /\ r.call = bff[p].call
          /\ r.outcome = bff[p].outcome
      BY <1>t DEF BffRecord
    <3>2. BffGo(p, r)
      BY <1>2
    <3> HIDE DEF r
    <3> QED
      BY <3>1, <3>2
  <2>2. r.call = "none" /\ bff[p].call = "none"
    BY <1>g, <1>t, <2>1 DEF BffFits
  <2>3. BffFits(r)
    BY <1>g, <1>t, <2>1, <2>2 DEF BffFits
  <2>4. CalmFits(p, r)' /\ ~Engaged(r) /\ ~Rotated(bff[p])
    BY <2>1, <2>2 DEF CalmFits, Busy, Rotated, Engaged
  <2> QED
    BY <1>2, <1>c, <1>g, <1>t, <2>1, <2>3, <2>4, OnlyMoves
<1> QED
  BY <1>1, <1>2, TroubleCounts DEF GetEntry, Reject, Serve, GiveUp, Outcome

LEMMA AcquireKeepsVault ==
  ASSUME VaultInv, NEW p \in BffRequests, AcquireLease(p)
  PROVE  VaultInv'
<1>t. /\ bff[p] \in BffRecord /\ BffFits(bff[p])
      /\ lease \in BffRequests \cup {NoBff} /\ troubles \in 0 .. MaxTroubles
  BY DEF VaultInv, BffTypeOK
<1>g. bff[p].pc = "locking" /\ UNCHANGED <<vault, login, logout, tokens>>
  BY DEF AcquireLease, BffAt
<1>1. ASSUME GiveUp(p, "done"), Trouble \/ (UNCHANGED <<lease, troubles>>),
             lease' \in {lease, IF lease = NoBff THEN p ELSE lease}
      PROVE  VaultInv'
  <2>1. End(p, "done", "unavailable") /\ "unavailable" \in Outcome
    BY <1>1 DEF GiveUp, Outcome
  <2>2. lease' \in BffRequests \cup {NoBff} /\ (troubles' = troubles \/ Trouble)
    BY <1>1, <1>t
  <2>3. troubles' = 0 => \A q \in BffRequests \ {p} : Busy(bff[q]) => lease' = q
    BY <1>1, TroubleCounts DEF VaultInv, BffCalm, CalmFits
  <2> QED
    BY <1>g, <2>1, <2>2, <2>3, EndKeepsVault
<1>2. CASE /\ lease = NoBff /\ lease' = p /\ BffGo(p, [bff[p] EXCEPT !.pc = "reading"])
           /\ UNCHANGED troubles
  <2>1. PICK r \in BffRecord : /\ BffGo(p, r) /\ r.pc = "reading" /\ r.outcome = bff[p].outcome
                               /\ SameCall(r, bff[p])
    BY <1>2, GoMoves
  <2>2. r.call = "none" /\ bff[p].call = "none" /\ r.seen = bff[p].seen
    BY <1>g, <1>t, <2>1 DEF BffFits, SameCall
  <2>3. BffFits(r)
    BY <1>g, <1>t, <2>1, <2>2 DEF BffFits
  <2>4. CalmFits(p, r)' /\ ~Engaged(r) /\ ~Rotated(bff[p])
    BY <1>2, <2>1, <2>2 DEF CalmFits, Busy, Rotated, Engaged
  <2>5. troubles' = 0 => \A q \in BffRequests \ {p} : Busy(bff[q]) => lease' = q
    BY <1>2, LeaseIsHeld
  <2> QED
    BY <1>2, <1>g, <1>t, <2>1, <2>3, <2>4, <2>5, OnlyMoves
<1> QED
  BY <1>1, <1>2 DEF AcquireLease

LEMMA ReadKeepsVault ==
  ASSUME VaultInv, NEW p \in BffRequests, ReadUnderLease(p)
  PROVE  VaultInv'
<1>t. /\ bff[p] \in BffRecord /\ BffFits(bff[p]) /\ vault \in VaultEntry
      /\ lease \in BffRequests \cup {NoBff} /\ Ordered(vault) /\ (~VaultHeld => vault = NoEntry)
      /\ troubles \in 0 .. MaxTroubles
  BY DEF VaultInv, BffTypeOK, VaultFits
<1>g. /\ bff[p].pc = "reading" /\ UNCHANGED <<vault, lease, login, logout, tokens>>
      /\ bff[p].call = "none"
  BY <1>t DEF ReadUnderLease, BffAt, BffFits
<1>c. ASSUME troubles = 0
      PROVE  /\ lease = p /\ CalmVault
             /\ \A q \in BffRequests \ {p} : ~Busy(bff[q]) /\ (VaultHeld => ~Engaged(bff[q]))
  <2>1. lease = p
    BY <1>c, <1>g, LeaseIsHeld DEF CalmFits, Busy
  <2>2. ASSUME NEW q \in BffRequests \ {p} PROVE ~Busy(bff[q]) /\ (VaultHeld => ~Engaged(bff[q]))
    <3>1. CalmFits(q, bff[q]) /\ ~Busy(bff[q])
      BY <1>c, <2>1, LeaseIsHeld
    <3> QED
      BY <3>1 DEF CalmFits, Engaged, Rotated, Busy
  <2> QED
    BY <1>c, <2>1, <2>2, LeaseIsHeld
<1>1. ASSUME NEW o \in Outcome, End(p, "releasing", o), troubles' = troubles \/ Trouble,
             o = "anonymous" => ~VaultHeld
      PROVE  VaultInv'
  BY <1>1, <1>c, <1>g, <1>t, TroubleCounts, EndKeepsVault
<1>2. CASE /\ vault # NoEntry /\ UNCHANGED troubles
           /\ BffGo(p, [bff[p] EXCEPT !.pc = "calling", !.seen = vault, !.call = "sent"])
  <2>1. PICK r \in BffRecord : /\ BffGo(p, r) /\ r.pc = "calling" /\ r.seen = vault
                               /\ r.call = "sent" /\ r.outcome = bff[p].outcome
    <3> DEFINE r == [bff[p] EXCEPT !.pc = "calling", !.seen = vault, !.call = "sent"]
    <3>1. /\ r \in BffRecord /\ r.pc = "calling" /\ r.seen = vault /\ r.call = "sent"
          /\ r.outcome = bff[p].outcome
      BY <1>t DEF BffRecord
    <3>2. BffGo(p, r)
      BY <1>2
    <3> HIDE DEF r
    <3> QED
      BY <3>1, <3>2
  <2>2. BffFits(r)
    BY <1>g, <1>t, <2>1 DEF BffFits
  <2>3. ASSUME troubles' = 0
        PROVE  CalmFits(p, r)' /\ \A q \in BffRequests \ {p} : ~Engaged(bff[q]) /\ ~Busy(bff[q])
    <3>1. troubles = 0 /\ VaultHeld
      BY <1>2, <1>t, <2>3
    <3>2. \A q \in BffRequests \ {p} : ~Engaged(bff[q]) /\ ~Busy(bff[q])
      BY <1>c, <3>1
    <3>3. ~Rotated(bff[p])
      BY <1>g DEF Rotated
    <3>4. Known(vault.refreshToken)
      BY <1>c, <3>1, <3>2, <3>3 DEF CalmVault, Engaged
    <3>5. CalmFits(p, r)'
      BY <1>c, <1>g, <2>1, <3>1, <3>4 DEF CalmFits, Busy, Rotated, Known
    <3> QED
      BY <3>2, <3>5
  <2>4. ~Rotated(bff[p])
    BY <1>g DEF Rotated
  <2> QED
    BY <1>2, <1>g, <1>t, <2>1, <2>2, <2>3, <2>4, OnlyMoves
<1>3. vault = NoEntry => ~VaultHeld
  BY DEF VaultHeld, NoEntry
<1> QED
  BY <1>1, <1>2, <1>3 DEF ReadUnderLease, SecondRead, Reject, Serve, GiveUp, Outcome

\* The call fails, its answer is taken up, or the lease cannot be renewed.
LEMMA CallKeepsVault ==
  ASSUME VaultInv, NEW p \in BffRequests, LoseReply(p) \/ TakeAnswer(p) \/ RenewalFails(p)
  PROVE  VaultInv'
<1>t. /\ bff[p] \in BffRecord /\ BffFits(bff[p])
      /\ lease \in BffRequests \cup {NoBff} /\ troubles \in 0 .. MaxTroubles
  BY DEF VaultInv, BffTypeOK
<1>g. bff[p].pc = "calling" /\ UNCHANGED <<vault, lease, login, logout, tokens>>
  BY DEF LoseReply, TakeAnswer, RenewalFails, BffAt
<1>c. troubles = 0 => /\ CalmFits(p, bff[p])
                      /\ \A q \in BffRequests \ {p} : Busy(bff[q]) => lease' = q
  BY <1>g DEF VaultInv, BffCalm, CalmFits
<1>1. CASE LoseReply(p)
  <2>1. PICK r \in BffRecord : /\ BffGo(p, r) /\ r.pc = "calling" /\ r.seen = bff[p].seen
                               /\ r.call = "lost" /\ r.outcome = bff[p].outcome
    <3> DEFINE r == [bff[p] EXCEPT !.call = "lost"]
    <3>1. /\ r \in BffRecord /\ r.pc = "calling" /\ r.seen = bff[p].seen /\ r.call = "lost"
          /\ r.outcome = bff[p].outcome
      BY <1>g, <1>t DEF BffRecord
    <3>2. BffGo(p, r)
      BY <1>1 DEF LoseReply
    <3> HIDE DEF r
    <3> QED
      BY <3>1, <3>2
  <2>2. BffFits(r)
    BY <1>g, <1>t, <2>1 DEF BffFits
  <2>3. troubles' \in 0 .. MaxTroubles /\ troubles' # 0
    BY <1>1, TroubleCounts DEF LoseReply
  <2> QED
    BY <1>g, <1>t, <2>1, <2>2, <2>3, OnlyMoves
<1>2. ASSUME NEW a \in {"writing", "deleting"}, BffGo(p, [bff[p] EXCEPT !.pc = a]),
             a = "writing" => bff[p].call = "ok", UNCHANGED troubles
      PROVE  VaultInv'
  <2>1. PICK r \in BffRecord : /\ BffGo(p, r) /\ r.pc = a /\ r.outcome = bff[p].outcome
                               /\ SameCall(r, bff[p])
    <3>1. CASE a = "writing"
      BY <1>2, <3>1, GoMoves
    <3>2. CASE a = "deleting"
      BY <1>2, <3>2, GoMoves
    <3> QED
      BY <3>1, <3>2
  <2>2. BffFits(r)
    BY <1>2, <1>g, <1>t, <2>1 DEF BffFits, SameCall
  <2>3. /\ Engaged(r) => Engaged(bff[p])
        /\ Rotated(bff[p]) => Rotated(r)
    BY <1>g, <2>1 DEF Engaged, Rotated, SameCall
  <2>4. troubles' = 0 => CalmFits(p, r)'
    BY <1>2, <1>c, <1>g, <2>1 DEF CalmFits, SameCall, Busy, Rotated, Known, VaultHeld
  <2> QED
    BY <1>2, <1>c, <1>g, <1>t, <2>1, <2>2, <2>3, <2>4, OnlyMoves
<1>3. CASE bff[p].call = "lost" /\ GiveUp(p, "releasing") /\ UNCHANGED troubles
  <2>1. End(p, "releasing", "unavailable") /\ "unavailable" \in Outcome
    BY <1>3 DEF GiveUp, Outcome
  <2>2. troubles' = 0 => lease' = p
    BY <1>3, <1>c, <1>g DEF CalmFits, Busy
  <2> QED
    BY <1>3, <1>c, <1>g, <1>t, <2>1, <2>2, EndKeepsVault
<1> QED
  BY <1>1, <1>2, <1>3 DEF TakeAnswer, RenewalFails

\* The end of a refresh.
LEMMA LeaveKeepsVault ==
  ASSUME VaultInv, NEW p \in BffRequests, ReadLatest(p) \/ ReleaseLease(p)
  PROVE  VaultInv'
<1>t. /\ bff[p] \in BffRecord /\ BffFits(bff[p])
      /\ lease \in BffRequests \cup {NoBff} /\ troubles \in 0 .. MaxTroubles
  BY DEF VaultInv, BffTypeOK
<1>g. bff[p].pc \in {"latest", "releasing"} /\ UNCHANGED <<vault, login, logout, tokens>>
  BY DEF ReadLatest, ReleaseLease, BffAt
<1>c. troubles = 0 => lease = p /\ \A q \in BffRequests \ {p} : ~Busy(bff[q])
  BY <1>g, LeaseIsHeld DEF CalmFits, Busy
<1>1. CASE ReadLatest(p)
  <2>1. ASSUME NEW o \in Outcome, End(p, "releasing", o), troubles' = troubles \/ Trouble,
               o = "anonymous" => ~VaultHeld, lease' = lease
        PROVE  VaultInv'
    BY <1>c, <1>g, <1>t, <2>1, TroubleCounts, EndKeepsVault
  <2> QED
    BY <1>1, <2>1 DEF ReadLatest, Reject, Serve, GiveUp, Outcome
<1>2. CASE ReleaseLease(p)
  <2>1. ASSUME NEW o \in Outcome, End(p, "done", o), troubles' = troubles \/ Trouble,
               o = "anonymous" => ~VaultHeld
        PROVE  VaultInv'
    <3>1. lease' \in BffRequests \cup {NoBff}
      BY <1>2, <1>t DEF ReleaseLease
    <3> QED
      BY <1>c, <1>g, <1>t, <2>1, <3>1, TroubleCounts, EndKeepsVault
  <2>2. bff[p].outcome \in Outcome /\ (bff[p].outcome = "anonymous" => ~VaultHeld)
    BY <1>t DEF BffRecord, BffFits
  <2> QED
    BY <1>2, <2>1, <2>2 DEF ReleaseLease, GiveUp, Outcome
<1> QED
  BY <1>1, <1>2

LEMMA DropKeepsVault ==
  ASSUME VaultInv, NEW p \in BffRequests, DropEntry(p)
  PROVE  VaultInv'
<1>t. /\ bff[p] \in BffRecord /\ BffFits(bff[p]) /\ vault \in VaultEntry
      /\ lease \in BffRequests \cup {NoBff} /\ NoEntry \in VaultEntry
      /\ tokens \in [issued : Token, live : Token, gone : SUBSET Token, reused : BOOLEAN]
      /\ tokens.issued \in Nat /\ VaultFits
  <2>1. NoEntry \in VaultEntry
    BY BffAssumption DEF NoEntry, VaultEntry, Token
  <2>2. tokens \in [issued : Token, live : Token, gone : SUBSET Token, reused : BOOLEAN]
    BY DEF VaultInv, BffTypeOK
  <2>3. tokens.issued \in Nat
    BY <2>2, BffAssumption DEF Token
  <2> QED
    BY <2>1, <2>2, <2>3 DEF VaultInv, BffTypeOK
<1>g. /\ bff[p].pc = "deleting" /\ UNCHANGED <<lease, login, logout, tokens>>
      /\ vault' \in {vault, NoEntry}
  BY DEF DropEntry, BffAt
<1>n. NoEntry.version = 0 /\ NoEntry.refreshToken = 0
  BY DEF NoEntry
<1>h. (VaultHeld' => VaultHeld /\ vault' = vault) /\ (vault' = NoEntry => ~VaultHeld')
  BY <1>g, <1>n DEF VaultHeld
<1>f. VaultFits'
  <2>1. ~VaultHeld' => vault' = NoEntry
    BY <1>g, <1>t DEF VaultFits, VaultHeld
  <2> QED
    BY <1>g, <1>h, <1>n, <1>t, <2>1 DEF VaultFits, Ordered
<1>1. PICK o \in Outcome : /\ End(p, "releasing", o) /\ troubles' \in 0 .. MaxTroubles
                           /\ o = "anonymous" => vault' = NoEntry
                           /\ troubles' = 0 => troubles = 0 /\ vault' = NoEntry
  <2>1. troubles \in 0 .. MaxTroubles
    BY TroubleCounts
  <2>2. CASE vault' = NoEntry /\ Reject(p, "releasing") /\ UNCHANGED troubles
    BY <2>1, <2>2 DEF Reject, Outcome
  <2>3. CASE Trouble /\ GiveUp(p, "releasing")
    <3>1. "unavailable" \in Outcome /\ End(p, "releasing", "unavailable")
      BY <2>3 DEF GiveUp, Outcome
    <3>2. troubles' \in 0 .. MaxTroubles /\ troubles' # 0
      BY <2>3, TroubleCounts
    <3> QED
      BY <3>1, <3>2
  <2> QED
    BY <2>2, <2>3 DEF DropEntry
<1>2. PICK r \in BffRecord : /\ BffGo(p, r) /\ r.pc = "releasing" /\ r.outcome = o
                             /\ SameCall(r, bff[p])
  BY <1>1, EndMoves
<1>3. BffFits(r)'
  BY <1>1, <1>2, <1>g, <1>h, <1>t DEF BffFits, SameCall, Ordered
<1>4. ASSUME troubles' = 0
      PROVE  /\ ~tokens'.reused
             /\ CalmFits(p, r)'
             /\ \A q \in BffRequests \ {p} : CalmFits(q, bff[q])' /\ ~(Engaged(r) /\ Engaged(bff[q]))
             /\ \A q, t \in BffRequests : Engaged(bff[q]) /\ Engaged(bff[t]) => q = t
             /\ ~VaultHeld'
  <2>1. CalmVault /\ \A q \in BffRequests : CalmFits(q, bff[q])
    BY <1>1, <1>4 DEF VaultInv, BffCalm
  <2>2. ~VaultHeld'
    BY <1>1, <1>4, <1>h
  <2>3. CalmFits(p, r)'
    <3>1. CalmFits(p, bff[p])
      BY <2>1
    <3> QED
      BY <1>2, <1>g, <2>2, <3>1 DEF CalmFits, SameCall, Busy, Rotated, Known
  <2>4. ASSUME NEW q \in BffRequests \ {p}
        PROVE  CalmFits(q, bff[q])' /\ ~(Engaged(r) /\ Engaged(bff[q]))
    <3>1. bff'[q] = bff[q] /\ CalmFits(q, bff[q])
      BY <1>2, <2>1 DEF BffGo, VaultInv, BffTypeOK
    <3>2. CalmFits(q, bff[q])'
      BY <1>g, <2>2, <3>1 DEF CalmFits, Busy, Rotated, Known
    <3>3. Engaged(r) => Engaged(bff[p])
      BY <1>2 DEF Engaged, Rotated, SameCall
    <3> QED
      BY <2>1, <3>2, <3>3 DEF CalmVault
  <2> QED
    BY <1>g, <2>1, <2>2, <2>3, <2>4 DEF CalmVault
<1>5. vault' \in VaultEntry /\ tokens.issued <= tokens'.issued
  BY <1>g, <1>t
<1> QED
  BY <1>1, <1>2, <1>3, <1>4, <1>5, <1>f, <1>g, <1>h, <1>t, BffMoves

LEMMA WriteKeepsVault ==
  ASSUME VaultInv, NEW p \in BffRequests, SetIfVersionMatches(p)
  PROVE  VaultInv'
<1> DEFINE old == bff[p]
           next == [version |-> old.seen.version + 1, refreshToken |-> old.next, fresh |-> TRUE]
<1>t. /\ old \in BffRecord /\ BffFits(old) /\ vault \in VaultEntry
      /\ lease \in BffRequests \cup {NoBff}
      /\ tokens \in [issued : Token, live : Token, gone : SUBSET Token, reused : BOOLEAN]
      /\ tokens.issued \in Nat /\ VaultFits
  <2>1. tokens \in [issued : Token, live : Token, gone : SUBSET Token, reused : BOOLEAN]
    BY DEF VaultInv, BffTypeOK
  <2>2. tokens.issued \in Nat
    BY <2>1, BffAssumption DEF Token
  <2> QED
    BY <2>1, <2>2 DEF VaultInv, BffTypeOK
<1>g. old.pc = "writing" /\ old.call = "ok" /\ UNCHANGED <<lease, login, logout, tokens>>
  BY <1>t DEF SetIfVersionMatches, BffAt, BffFits
<1>e. PICK e \in VaultEntry : /\ e = next /\ Ordered(e) /\ e.version > 0
                              /\ e.refreshToken = old.next
  <2>1. old.seen.version \in 0 .. MaxRefreshes /\ old.seen.refreshToken \in 0 .. MaxRefreshes
        /\ old.next \in 0 .. MaxRefreshes /\ MaxRefreshes \in Nat
    BY <1>t, BffAssumption DEF BffRecord, VaultEntry, Token
  <2>2. /\ old.seen.version <= old.seen.refreshToken /\ old.seen.refreshToken < old.next
        /\ old.next <= tokens.issued
    BY <1>g, <1>t DEF BffFits, Ordered
  <2>3. /\ old.seen.version + 1 \in 0 .. MaxRefreshes /\ old.seen.version + 1 <= old.next
        /\ old.seen.version + 1 > 0
    BY <2>1, <2>2
  <2>4. next \in VaultEntry /\ Ordered(next) /\ next.version > 0 /\ next.refreshToken = old.next
    BY <2>1, <2>2, <2>3 DEF VaultEntry, Token, Ordered
  <2> QED
    BY <2>4
<1>v. /\ vault' = vault \/ (VersionMatches(p) /\ vault' = e)
      /\ VersionMatches(p) => VaultHeld
  BY <1>e DEF SetIfVersionMatches, VersionMatches
<1>h. (VaultHeld' => VaultHeld) /\ (vault' = e => VaultHeld')
  BY <1>e, <1>v DEF VaultHeld
<1>f. VaultFits'
  <2>1. Ordered(vault)'
    BY <1>e, <1>g, <1>t, <1>v DEF VaultFits, Ordered
  <2>2. ~VaultHeld' => vault' = NoEntry
    BY <1>h, <1>t, <1>v DEF VaultFits, VaultHeld
  <2> QED
    BY <1>g, <1>h, <1>t, <2>1, <2>2 DEF VaultFits
<1>1. PICK r \in BffRecord :
        /\ BffGo(p, r) /\ SameCall(r, old) /\ r.pc \in {"releasing", "latest"}
        /\ r.outcome = old.outcome => r.pc = "releasing" \/ vault' = vault
        /\ r.outcome # "anonymous" \/ r.outcome = old.outcome
        /\ troubles' \in 0 .. MaxTroubles
        /\ troubles' = 0 => /\ troubles = 0
                            /\ IF VersionMatches(p) THEN vault' = e ELSE vault' = vault
  <2>1. troubles \in 0 .. MaxTroubles
    BY TroubleCounts
  <2>2. CASE VersionMatches(p) /\ vault' = e /\ Serve(p, "releasing") /\ UNCHANGED troubles
    <3>1. PICK r \in BffRecord : /\ BffGo(p, r) /\ r.pc = "releasing" /\ r.outcome = "served"
                                 /\ SameCall(r, old)
      <4>1. End(p, "releasing", "served") /\ "served" \in Outcome
        BY <2>2 DEF Serve, Outcome
      <4> QED
        BY <4>1, EndMoves
    <3> QED
      BY <2>1, <2>2, <3>1
  <2>3. CASE /\ ~VersionMatches(p) /\ vault' = vault /\ UNCHANGED troubles
             /\ BffGo(p, [bff[p] EXCEPT !.pc = "latest"])
    <3>1. PICK r \in BffRecord : /\ BffGo(p, r) /\ r.pc = "latest" /\ r.outcome = old.outcome
                                 /\ SameCall(r, old)
      BY <2>3, GoMoves
    <3> QED
      BY <2>1, <2>3, <3>1
  <2>4. CASE Trouble /\ GiveUp(p, "releasing")
    <3>1. PICK r \in BffRecord : /\ BffGo(p, r) /\ r.pc = "releasing"
                                 /\ r.outcome = "unavailable" /\ SameCall(r, old)
      <4>1. End(p, "releasing", "unavailable") /\ "unavailable" \in Outcome
        BY <2>4 DEF GiveUp, Outcome
      <4> QED
        BY <4>1, EndMoves
    <3>2. troubles' \in 0 .. MaxTroubles /\ troubles' # 0
      BY <2>4, TroubleCounts
    <3> QED
      BY <3>1, <3>2
  <2> QED
    BY <1>e, <2>2, <2>3, <2>4 DEF SetIfVersionMatches
<1>2. BffFits(r)'
  <2>1. r.outcome = "anonymous" => ~VaultHeld'
    BY <1>1, <1>h, <1>t DEF BffFits
  <2> QED
    BY <1>1, <1>g, <1>t, <2>1 DEF BffFits, SameCall, Ordered
<1>3. ASSUME troubles' = 0
      PROVE  /\ ~tokens'.reused
             /\ CalmFits(p, r)'
             /\ \A q \in BffRequests \ {p} : CalmFits(q, bff[q])' /\ ~(Engaged(r) /\ Engaged(bff[q]))
             /\ \A q, t \in BffRequests : Engaged(bff[q]) /\ Engaged(bff[t]) => q = t
             /\ VaultHeld' => \/ Known(vault.refreshToken)' \/ Rotated(r)
                              \/ \E q \in BffRequests \ {p} : Rotated(bff[q])
  <2>1. CalmVault /\ troubles = 0 /\ Rotated(old) /\ lease = p /\ CalmFits(p, old)
    BY <1>1, <1>3, <1>g, LeaseIsHeld DEF CalmFits, Rotated, Busy
  <2>2. ~Engaged(r) /\ ~Rotated(r)
    BY <1>1, <1>g DEF Engaged, Rotated, SameCall
  <2>3. ASSUME NEW q \in BffRequests \ {p} PROVE CalmFits(q, bff[q])'
    <3>1. bff'[q] = bff[q] /\ ~Busy(bff[q]) /\ ~Engaged(bff[q])
      <4>1. bff'[q] = bff[q] /\ ~Busy(bff[q])
        BY <1>1, <2>1, LeaseIsHeld DEF BffGo, VaultInv, BffTypeOK
      <4>2. Engaged(old)
        BY <2>1 DEF Engaged
      <4> QED
        BY <2>1, <4>1, <4>2 DEF CalmVault
    <3> QED
      BY <3>1 DEF CalmFits, Busy, Engaged
  <2>4. CalmFits(p, r)'
    BY <1>1, <1>g, <2>1, <2>2 DEF CalmFits, Busy, SameCall, Engaged
  <2>5. VaultHeld' => Known(vault.refreshToken)'
    <3>1. VersionMatches(p) \/ ~VaultHeld
      BY <1>g, <2>1 DEF CalmFits, VersionMatches
    <3>2. Known(old.next)
      BY <2>1 DEF CalmFits
    <3> QED
      BY <1>1, <1>3, <1>e, <1>g, <1>h, <3>1, <3>2 DEF Known
  <2> QED
    BY <1>g, <2>1, <2>2, <2>3, <2>4, <2>5 DEF CalmVault
<1>4. vault' \in VaultEntry /\ tokens.issued <= tokens'.issued
  <2> HIDE DEF old, next
  <2>1. vault' \in VaultEntry
    BY <1>t, <1>v
  <2>2. tokens.issued <= tokens'.issued
    BY <1>g, <1>t
  <2> QED
    BY <2>1, <2>2
<1>5. /\ UNCHANGED <<login, logout>> /\ lease' \in BffRequests \cup {NoBff}
      /\ tokens' \in [issued : Token, live : Token, gone : SUBSET Token, reused : BOOLEAN]
  BY <1>g, <1>t
<1>6. BffGo(p, r) /\ troubles' \in 0 .. MaxTroubles /\ (VaultHeld' => VaultHeld)
  BY <1>1, <1>h
<1> HIDE DEF old, next
<1> QED
  BY <1>2, <1>3, <1>4, <1>5, <1>6, <1>f, BffMoves

\* The backend answers a call, whether or not the request still waits for it.
LEMMA RotateKeepsVault ==
  ASSUME VaultInv, NEW p \in BffRequests, RotateAtBackend(p)
  PROVE  VaultInv'
<1> DEFINE old == bff[p]
           Ledger == [issued : Token, live : Token, gone : SUBSET Token, reused : BOOLEAN]
           sent == old.seen.refreshToken
           new == tokens.issued + 1
<1>t. /\ old \in BffRecord /\ BffFits(old) /\ vault \in VaultEntry
      /\ lease \in BffRequests \cup {NoBff} /\ tokens \in Ledger
      /\ troubles \in 0 .. MaxTroubles /\ VaultFits
  BY DEF VaultInv, BffTypeOK
<1>n. tokens.issued \in Nat /\ tokens.live \in Nat /\ sent \in Nat /\ 0 \in Token
      /\ tokens.issued \in Token /\ tokens.live \in Token
  BY <1>t, BffAssumption DEF Token, BffRecord, VaultEntry
<1>g. /\ old.call = "sent" /\ UNCHANGED <<vault, lease, login, logout, troubles>>
      /\ old.pc \notin {"new", "locking", "reading", "writing"} /\ login \notin {"out", "granted"}
  BY <1>t DEF RotateAtBackend, BffFits
<1>1. PICK r \in BffRecord :
        /\ BffGo(p, r) /\ r.pc = old.pc /\ r.seen = old.seen /\ r.outcome = old.outcome
        /\ \/ /\ r.call = "ok" /\ r.next = new /\ tokens' \in Ledger /\ sent = tokens.live
              /\ tokens'.issued = new /\ tokens'.live = new /\ tokens'.reused = tokens.reused
           \/ /\ r.call = "refused" /\ tokens' \in Ledger
              /\ tokens'.issued = tokens.issued /\ tokens'.live \in {0, tokens.live}
              /\ sent # tokens.live /\ (sent \in tokens.gone => tokens' = tokens)
  <2>1. CASE sent = tokens.live
    <3> DEFINE r == [old EXCEPT !.call = "ok", !.next = new]
               t == [tokens EXCEPT !.issued = new, !.live = new]
    <3>1. new \in Token /\ BffGo(p, r) /\ tokens' = t
      BY <2>1 DEF RotateAtBackend
    <3>2. /\ r \in BffRecord /\ r.pc = old.pc /\ r.seen = old.seen /\ r.outcome = old.outcome
          /\ r.call = "ok" /\ r.next = new
      BY <1>t, <3>1 DEF BffRecord
    <3>3. t \in Ledger /\ t.issued = new /\ t.live = new /\ t.reused = tokens.reused
      BY <1>t, <3>1
    <3> HIDE DEF r, t
    <3> QED
      BY <2>1, <3>1, <3>2, <3>3
  <2>2. CASE sent # tokens.live
    <3> DEFINE r == [old EXCEPT !.call = "refused", !.next = 0]
    <3>1. BffGo(p, r)
      BY <2>2 DEF RotateAtBackend
    <3>2. /\ r \in BffRecord /\ r.pc = old.pc /\ r.seen = old.seen /\ r.outcome = old.outcome
          /\ r.call = "refused"
      BY <1>n, <1>t DEF BffRecord
    <3>3. /\ tokens' \in Ledger /\ tokens'.issued = tokens.issued
          /\ tokens'.live \in {0, tokens.live} /\ (sent \in tokens.gone => tokens' = tokens)
      <4>1. CASE sent \in tokens.gone
        <5>1. tokens' = tokens
          BY <2>2, <4>1 DEF RotateAtBackend
        <5> QED
          BY <1>t, <5>1
      <4>2. CASE sent \notin tokens.gone
        <5>1. PICK l \in {0, tokens.live} : tokens' = [tokens EXCEPT !.live = l, !.reused = TRUE]
          BY <2>2, <4>2 DEF RotateAtBackend
        <5> QED
          BY <1>n, <1>t, <4>2, <5>1
      <4> QED
        BY <4>1, <4>2
    <3> HIDE DEF r
    <3> QED
      BY <2>2, <3>1, <3>2, <3>3
  <2> QED
    BY <2>1, <2>2
<1>2. tokens.issued <= tokens'.issued /\ tokens'.live <= tokens'.issued
  <2>1. tokens.live <= tokens.issued
    BY <1>t DEF VaultFits
  <2> HIDE DEF old
  <2> QED
    BY <1>1, <1>n, <2>1
<1>3. VaultFits' /\ (VaultHeld' => VaultHeld) /\ tokens'.issued \in Nat
  <2>1. tokens'.issued \in Nat
    BY <1>1, <1>n
  <2>2. Ordered(vault)'
    <3>1. Ordered(vault) /\ vault.refreshToken \in Nat
      BY <1>t, BffAssumption DEF VaultFits, VaultEntry, Token
    <3> QED
      BY <1>2, <1>g, <1>n, <2>1, <3>1 DEF Ordered
  <2> QED
    BY <1>2, <1>g, <1>t, <2>1, <2>2 DEF VaultFits, VaultHeld
<1>4. BffFits(r)'
  <2>1. Ordered(old.seen) /\ Ordered(r.seen)'
    <3>1. Ordered(old.seen)
      BY <1>t DEF BffFits
    <3> QED
      BY <1>1, <1>2, <1>3, <1>n, <3>1 DEF Ordered
  <2>2. r.call = "ok" => r.seen.refreshToken < r.next /\ r.next <= tokens'.issued
    BY <1>1, <1>n, <2>1 DEF Ordered
  <2> QED
    BY <1>1, <1>g, <1>t, <2>1, <2>2 DEF BffFits, VaultHeld
<1>5. ASSUME troubles' = 0
      PROVE  /\ ~tokens'.reused
             /\ CalmFits(p, r)'
             /\ \A q \in BffRequests \ {p} : CalmFits(q, bff[q])' /\ ~(Engaged(r) /\ Engaged(bff[q]))
             /\ \A q, u \in BffRequests : Engaged(bff[q]) /\ Engaged(bff[u]) => q = u
             /\ VaultHeld' => \/ Known(vault.refreshToken)' \/ Rotated(r)
                              \/ \E q \in BffRequests \ {p} : Rotated(bff[q])
  <2>1. CalmVault /\ troubles = 0 /\ CalmFits(p, old)
    BY <1>5, <1>g, LeaseIsHeld
  <2>2. /\ Known(sent) /\ (VaultHeld => old.pc \in {"calling", "deleting"})
    BY <1>g, <2>1 DEF CalmFits
  <2>3. r.call = "refused" => tokens' = tokens
    BY <1>1, <2>2 DEF Known
  <2>4. CalmFits(p, r)'
    <3>1. Busy(r) => lease' = p
      BY <1>1, <1>g, <2>1 DEF CalmFits, Busy
    <3>2. Rotated(r) => Known(r.next)'
      BY <1>1 DEF Rotated, Known
    <3> QED
      BY <1>1, <1>g, <2>1, <3>1, <3>2 DEF CalmFits, Known, VaultHeld
  <2>5. ASSUME NEW q \in BffRequests \ {p} PROVE CalmFits(q, bff[q])' /\ ~Engaged(bff[q])
    <3>1. bff'[q] = bff[q] /\ ~Engaged(bff[q]) /\ CalmFits(q, bff[q])
      <4>1. bff'[q] = bff[q] /\ CalmFits(q, bff[q])
        BY <1>1, <2>1, LeaseIsHeld DEF BffGo, VaultInv, BffTypeOK
      <4>2. Engaged(old)
        BY <1>g DEF Engaged
      <4> QED
        BY <2>1, <4>1, <4>2 DEF CalmVault
    <3> QED
      BY <1>g, <3>1 DEF CalmFits, Busy, Engaged, VaultHeld
  <2>6. VaultHeld' => \/ Known(vault.refreshToken)' \/ Rotated(r)
                      \/ \E q \in BffRequests \ {p} : Rotated(bff[q])
    <3>1. VaultHeld' => VaultHeld
      BY <1>3
    <3>2. CASE r.call = "ok"
      BY <1>1, <2>2, <3>1, <3>2 DEF Rotated
    <3>3. CASE r.call = "refused"
      <4>1. VaultHeld => Known(vault.refreshToken) \/ \E q \in BffRequests : Rotated(bff[q])
        BY <2>1 DEF CalmVault
      <4>2. ~Rotated(bff[p])
        BY <1>g DEF Rotated
      <4> QED
        BY <1>g, <2>3, <3>1, <3>3, <4>1, <4>2 DEF Known
    <3> QED
      BY <1>1, <3>2, <3>3
  <2>7. ~tokens'.reused
    BY <1>1, <2>1, <2>3 DEF CalmVault
  <2> QED
    BY <2>1, <2>4, <2>5, <2>6, <2>7 DEF CalmVault
<1>6. /\ UNCHANGED <<login, logout>> /\ lease' \in BffRequests \cup {NoBff} /\ tokens' \in Ledger
      /\ vault' \in VaultEntry /\ troubles' \in 0 .. MaxTroubles /\ BffGo(p, r)
  BY <1>1, <1>g, <1>t
<1> HIDE DEF old, sent, new
<1> QED
  BY <1>2, <1>3, <1>4, <1>5, <1>6, BffMoves

\* No request moves: before the login nobody has begun, and after it what the backend knows, the
\* lease of whoever is at work and the entry but for its age stay.
LEMMA WorldMoves ==
  ASSUME VaultInv, UNCHANGED bff, BffTypeOK', VaultFits', tokens.issued <= tokens'.issued,
         VaultHeld' => VaultHeld \/ \A p \in BffRequests : bff[p].pc = "new" /\ bff[p].outcome # "anonymous",
         login' \in {"out", "granted"} => login \in {"out", "granted"},
         troubles' = 0 =>
           /\ troubles = 0 /\ ~tokens'.reused
           /\ \/ /\ \A p \in BffRequests : bff[p].pc = "new"
                 /\ VaultHeld' => Known(vault.refreshToken)'
              \/ /\ \A t : Known(t) => Known(t)'
                 /\ lease' = lease \/ \A p \in BffRequests : ~Busy(bff[p])
                 /\ VaultHeld' => /\ VaultHeld /\ vault'.version = vault.version
                                  /\ vault'.refreshToken = vault.refreshToken
  PROVE  VaultInv'
<1>1. ASSUME NEW p \in BffRequests PROVE BffFits(bff[p])'
  <2>1. /\ BffFits(bff[p]) /\ bff'[p] = bff[p] /\ bff[p].seen.refreshToken \in Nat
        /\ bff[p].next \in Nat /\ tokens.issued \in Nat /\ tokens'.issued \in Nat
    <3>1. bff[p] \in BffRecord /\ tokens.issued \in Token /\ tokens'.issued \in Token
      BY DEF VaultInv, BffTypeOK
    <3> QED
      BY <3>1, BffAssumption DEF VaultInv, BffRecord, VaultEntry, Token
  <2> QED
    BY <2>1 DEF BffFits, Ordered
<1>2. ASSUME troubles' = 0
      PROVE  CalmVault' /\ \A p \in BffRequests : CalmFits(p, bff[p])'
  <2>1. CalmVault /\ (\A p \in BffRequests : CalmFits(p, bff[p])) /\ bff' = bff
    BY <1>2 DEF VaultInv, BffCalm
  <2>2. CASE /\ \A p \in BffRequests : bff[p].pc = "new"
             /\ VaultHeld' => Known(vault.refreshToken)'
    <3>1. \A p \in BffRequests : bff[p].call = "none" /\ bff[p].pc = "new"
      BY <2>2 DEF VaultInv, BffFits
    <3>2. \A p \in BffRequests : CalmFits(p, bff[p])'
      BY <2>1, <3>1 DEF CalmFits, Busy, Rotated
    <3>3. CalmVault'
      BY <1>2, <2>1, <2>2, <3>1 DEF CalmVault, Engaged, Rotated
    <3> QED
      BY <3>2, <3>3
  <2>3. CASE /\ \A t : Known(t) => Known(t)'
             /\ lease' = lease \/ \A p \in BffRequests : ~Busy(bff[p])
             /\ VaultHeld' => /\ VaultHeld /\ vault'.version = vault.version
                              /\ vault'.refreshToken = vault.refreshToken
    <3>1. ASSUME NEW p \in BffRequests PROVE CalmFits(p, bff[p])'
      <4>1. PICK r : r = bff[p] /\ r = bff'[p]
        BY <2>1
      <4>2. CalmFits(p, r) /\ (lease' = lease \/ ~Busy(r))
        BY <2>1, <2>3, <4>1
      <4>3. /\ r.call = "sent" => Known(r.seen.refreshToken)'
            /\ Rotated(r) => Known(r.next)'
        BY <2>3, <4>2 DEF CalmFits
      <4>4. CalmFits(p, r)'
        BY <2>3, <4>2, <4>3 DEF CalmFits
      <4> QED
        BY <4>1, <4>4 DEF CalmFits, Busy, Rotated, Known
    <3>2. (VaultHeld => Known(vault.refreshToken) \/ \E p \in BffRequests : Rotated(bff[p]))'
      <4> SUFFICES ASSUME VaultHeld'
                   PROVE  Known(vault.refreshToken)' \/ \E p \in BffRequests : Rotated(bff[p])'
        OBVIOUS
      <4>1. PICK t : t = vault.refreshToken /\ t = vault'.refreshToken
        BY <2>3
      <4>2. Known(t) \/ \E p \in BffRequests : Rotated(bff[p])
        BY <2>1, <2>3, <4>1 DEF CalmVault
      <4>3. Known(t) => Known(t)'
        BY <2>3
      <4> QED
        BY <2>1, <4>1, <4>2, <4>3 DEF Known, Rotated
    <3>3. CalmVault'
      BY <1>2, <2>1, <3>2 DEF CalmVault, Engaged, Rotated
    <3> QED
      BY <3>1, <3>3
  <2> QED
    BY <1>2, <2>2, <2>3
<1> QED
  BY <1>1, <1>2 DEF VaultInv, BffCalm

TokenTable == [issued : Token, live : Token, gone : SUBSET Token, reused : BOOLEAN]

LogoutRecord == [pc : {"new", "both", "done"}, token : Token,
                 backend : {"open", "over"}, entry : {"open", "deleted", "over"}]

LEMMA VaultTypes ==
  ASSUME VaultInv
  PROVE  /\ vault \in VaultEntry /\ lease \in BffRequests \cup {NoBff} /\ logout \in LogoutRecord
         /\ tokens \in TokenTable /\ troubles \in 0 .. MaxTroubles /\ MaxTroubles \in Nat
         /\ tokens.issued \in Nat /\ tokens.live \in Nat /\ NoEntry \in VaultEntry
         /\ NoEntry.version = 0 /\ NoEntry.refreshToken = 0 /\ VaultFits
<1>1. NoEntry \in VaultEntry /\ NoEntry.version = 0 /\ NoEntry.refreshToken = 0
  BY BffAssumption DEF NoEntry, VaultEntry, Token
<1>2. tokens \in TokenTable /\ logout \in LogoutRecord
  BY DEF VaultInv, BffTypeOK, TokenTable, LogoutRecord
<1>3. tokens.issued \in Nat /\ tokens.live \in Nat
  BY <1>2, BffAssumption DEF TokenTable, Token
<1> QED
  BY <1>1, <1>2, <1>3, BffAssumption DEF VaultInv, BffTypeOK

LEMMA LoginKeepsVault ==
  ASSUME VaultInv, BrowserSignsIn \/ MintSession
  PROVE  VaultInv'
<1>t. /\ vault \in VaultEntry /\ tokens \in TokenTable /\ VaultFits
      /\ \A p \in BffRequests : BffFits(bff[p])
      /\ 1 \in Token /\ UNCHANGED <<lease, bff, logout>>
  BY VaultTypes, BffAssumption DEF VaultInv, BrowserSignsIn, MintSession, Token
<1>n. (\A p \in BffRequests : bff[p].pc = "new" /\ bff[p].outcome # "anonymous") /\ ~VaultHeld
  BY <1>t DEF BrowserSignsIn, MintSession, BffFits, VaultFits
<1>1. CASE BrowserSignsIn
  <2>1. /\ tokens' \in TokenTable /\ tokens'.issued = 1 /\ tokens'.live = 1
        /\ tokens'.reused = tokens.reused /\ login = "out" /\ login' = "granted"
        /\ UNCHANGED <<vault, troubles>>
    BY <1>1, <1>t DEF BrowserSignsIn, TokenTable
  <2>2. BffTypeOK'
    BY <1>t, <2>1 DEF VaultInv, BffTypeOK, TokenTable
  <2>3. vault = NoEntry /\ vault.version = 0 /\ vault.refreshToken = 0 /\ ~VaultHeld'
    BY <1>n, <2>1, VaultTypes DEF VaultFits, VaultHeld
  <2>4. VaultFits'
    BY <1>t, <2>1, <2>3 DEF VaultFits, Ordered
  <2>5. tokens.issued <= tokens'.issued
    BY <1>t, <2>1 DEF VaultFits
  <2>6. troubles' = 0 => troubles = 0 /\ ~tokens'.reused
    BY <2>1 DEF VaultInv, BffCalm, CalmVault
  <2> QED
    BY <1>n, <1>t, <2>1, <2>2, <2>3, <2>4, <2>5, <2>6, WorldMoves
<1>2. CASE MintSession
  <2>1. tokens.live = 1 /\ tokens.issued = 1 /\ tokens' = tokens /\ login = "granted"
    BY <1>2, <1>t DEF MintSession, VaultFits
  <2>2. CASE /\ vault' = [version |-> 1, refreshToken |-> 1, fresh |-> TRUE] /\ login' = "in"
             /\ UNCHANGED troubles
    <3>1. vault' \in VaultEntry /\ vault'.version = 1 /\ vault'.refreshToken = 1 /\ VaultHeld'
      BY <1>t, <2>2 DEF VaultEntry, VaultHeld
    <3>2. BffTypeOK'
      BY <1>t, <2>1, <2>2, <3>1 DEF VaultInv, BffTypeOK
    <3>3. VaultFits'
      BY <1>t, <2>1, <2>2, <3>1 DEF VaultFits, Ordered
    <3>4. troubles' = 0 => troubles = 0 /\ ~tokens'.reused
      BY <2>1, <2>2 DEF VaultInv, BffCalm, CalmVault
    <3>5. Known(vault.refreshToken)'
      BY <2>1, <3>1 DEF Known
    <3> QED
      BY <1>n, <1>t, <2>1, <2>2, <3>2, <3>3, <3>4, <3>5, WorldMoves
  <2>3. CASE Trouble /\ login' = "failed" /\ UNCHANGED vault
    <3>1. troubles' \in 0 .. MaxTroubles /\ troubles' # 0
      BY <2>3, TroubleCounts
    <3>2. BffTypeOK'
      BY <1>t, <2>1, <2>3, <3>1 DEF VaultInv, BffTypeOK
    <3>3. VaultFits' /\ ~VaultHeld'
      BY <1>n, <1>t, <2>1, <2>3 DEF VaultFits, Ordered, VaultHeld
    <3> QED
      BY <1>n, <1>t, <2>1, <2>3, <3>1, <3>2, <3>3, WorldMoves
  <2> QED
    BY <1>2, <2>2, <2>3 DEF MintSession
<1> QED
  BY <1>1, <1>2

\* Logout, the session's revocation, and time.
LEMMA LogoutKeepsVault ==
  ASSUME VaultInv, \/ ReadForLogout \/ CallBackendLogout \/ DeleteVaultEntry \/ ClearCookie
  PROVE  VaultInv'
<1>t. /\ vault \in VaultEntry /\ tokens \in TokenTable /\ logout \in LogoutRecord /\ VaultFits
      /\ troubles \in 0 .. MaxTroubles /\ tokens.issued \in Nat /\ tokens.live \in Nat
      /\ NoEntry \in VaultEntry /\ NoEntry.version = 0 /\ NoEntry.refreshToken = 0
      /\ UNCHANGED <<lease, bff, login>>
  BY VaultTypes DEF ReadForLogout, CallBackendLogout, DeleteVaultEntry, ClearCookie
<1>i. login = "in"
  BY <1>t DEF ReadForLogout, CallBackendLogout, DeleteVaultEntry, ClearCookie, VaultFits
<1>c. troubles = 0 => ~tokens.reused
  BY DEF VaultInv, BffCalm, CalmVault
<1>b. Trouble => troubles' \in 0 .. MaxTroubles /\ troubles' # 0
  BY TroubleCounts
\* The entry stays or goes, and the backend forgets at most a session.
<1>1. ASSUME logout' \in LogoutRecord, vault' \in {vault, NoEntry},
             logout'.entry = "deleted" => ~VaultHeld',
             tokens' \in TokenTable, tokens'.issued = tokens.issued,
             tokens'.live \in {0, tokens.live}, tokens'.reused = tokens.reused,
             \A t : Known(t) => Known(t)', Trouble \/ UNCHANGED troubles
      PROVE  VaultInv'
  <2>1. BffTypeOK'
    BY <1>1, <1>b, <1>t DEF VaultInv, BffTypeOK, TokenTable, LogoutRecord
  <2>2. (VaultHeld' => VaultHeld /\ vault' = vault) /\ (~VaultHeld' => vault' = NoEntry)
    BY <1>1, <1>t DEF VaultHeld, VaultFits
  <2>3. tokens'.live <= tokens'.issued /\ tokens.issued <= tokens'.issued
    BY <1>1, <1>t DEF VaultFits
  <2>4. Ordered(vault)'
    BY <1>1, <1>t DEF VaultFits, Ordered
  <2>5. VaultFits'
    BY <1>1, <1>i, <1>t, <2>2, <2>3, <2>4 DEF VaultFits
  <2>6. troubles' = 0 => troubles = 0 /\ ~tokens'.reused
    BY <1>1, <1>b, <1>c
  <2> QED
    BY <1>1, <1>i, <1>t, <2>1, <2>2, <2>3, <2>5, <2>6, WorldMoves
<1>2. CASE ReadForLogout
  <2>1. logout' \in LogoutRecord /\ logout'.entry = logout.entry
    BY <1>2, <1>t DEF ReadForLogout, LogoutRecord, VaultEntry
  <2>2. UNCHANGED <<vault, tokens>> /\ (Trouble \/ UNCHANGED troubles)
    BY <1>2 DEF ReadForLogout
  <2> QED
    BY <1>1, <1>t, <2>1, <2>2 DEF VaultFits, VaultHeld, Known
<1>3. CASE ClearCookie
  <2>1. logout' \in LogoutRecord /\ logout'.entry = logout.entry
    BY <1>3, <1>t DEF ClearCookie, LogoutRecord
  <2>2. UNCHANGED <<vault, tokens, troubles>>
    BY <1>3 DEF ClearCookie
  <2> QED
    BY <1>1, <1>t, <2>1, <2>2 DEF VaultFits, VaultHeld, Known
<1>4. CASE CallBackendLogout
  <2>1. logout' \in LogoutRecord /\ logout'.entry = logout.entry
    BY <1>4, <1>t DEF CallBackendLogout, LogoutRecord
  <2>2. vault' = vault /\ (Trouble \/ UNCHANGED troubles)
    BY <1>4 DEF CallBackendLogout
  <2>3. /\ tokens' \in TokenTable /\ tokens'.issued = tokens.issued
        /\ tokens'.live \in {0, tokens.live} /\ tokens'.reused = tokens.reused
        /\ \A t : Known(t) => Known(t)'
    <3> DEFINE u == logout.token
               e == [tokens EXCEPT !.gone = @ \cup {u}, !.live = IF @ = u THEN 0 ELSE @]
    <3>1. u \in Token /\ 0 \in Token
      BY <1>t, BffAssumption DEF LogoutRecord, Token
    <3>2. /\ e \in TokenTable /\ e.issued = tokens.issued /\ e.reused = tokens.reused
          /\ e.live = (IF tokens.live = u THEN 0 ELSE tokens.live)
          /\ e.gone = tokens.gone \cup {u}
      BY <1>t, <3>1 DEF TokenTable
    <3>3. tokens' = e \/ tokens' = tokens
      BY <1>4 DEF CallBackendLogout
    <3> HIDE DEF e
    <3>4. ASSUME NEW t, Known(t) PROVE Known(t)'
      BY <3>2, <3>3, <3>4 DEF Known
    <3> QED
      BY <1>t, <3>2, <3>3, <3>4
  <2> QED
    BY <1>1, <1>t, <2>1, <2>2, <2>3 DEF VaultFits, VaultHeld
<1>5. CASE DeleteVaultEntry
  <2>1. /\ logout' \in LogoutRecord /\ vault' \in {vault, NoEntry}
        /\ logout'.entry = "deleted" => vault' = NoEntry
    <3>1. CASE vault' = NoEntry /\ logout' = [logout EXCEPT !.entry = "deleted"]
      BY <1>t, <3>1 DEF LogoutRecord
    <3>2. CASE logout' = [logout EXCEPT !.entry = "over"] /\ vault' \in {vault, NoEntry}
      BY <1>t, <3>2 DEF LogoutRecord
    <3> QED
      BY <1>5, <3>1, <3>2 DEF DeleteVaultEntry
  <2>2. tokens' = tokens /\ (Trouble \/ UNCHANGED troubles)
    BY <1>5 DEF DeleteVaultEntry
  <2>3. vault' = NoEntry => ~VaultHeld'
    BY <1>t DEF VaultHeld
  <2> QED
    BY <1>1, <1>t, <2>1, <2>2, <2>3 DEF Known
<1> QED
  BY <1>2, <1>3, <1>4, <1>5

LEMMA TimeKeepsVault ==
  ASSUME VaultInv,
         \/ AccessTokenAges \/ RefreshLockExpires \/ RevokedElsewhere \/ UNCHANGED bffVars
  PROVE  VaultInv'
<1>t. /\ vault \in VaultEntry /\ tokens \in TokenTable /\ VaultFits
      /\ troubles \in 0 .. MaxTroubles /\ tokens.issued \in Nat /\ tokens.live \in Nat
      /\ lease \in BffRequests \cup {NoBff}
      /\ UNCHANGED <<bff, login, logout>>
  BY VaultTypes DEF AccessTokenAges, RefreshLockExpires, RevokedElsewhere, bffVars
<1>c. troubles = 0 => ~tokens.reused
  BY DEF VaultInv, BffCalm, CalmVault
<1>1. CASE AccessTokenAges
  <2>1. /\ vault' \in VaultEntry /\ vault'.version = vault.version
        /\ vault'.refreshToken = vault.refreshToken /\ VaultHeld /\ VaultHeld'
    BY <1>1, <1>t DEF AccessTokenAges, VaultEntry, VaultHeld
  <2>2. UNCHANGED <<lease, tokens, troubles>>
    BY <1>1 DEF AccessTokenAges
  <2>3. BffTypeOK'
    BY <1>t, <2>1, <2>2 DEF VaultInv, BffTypeOK
  <2>4. VaultFits'
    BY <1>t, <2>1, <2>2 DEF VaultFits, Ordered
  <2>5. \A t : Known(t) => Known(t)'
    BY <2>2 DEF Known
  <2> QED
    BY <1>c, <1>t, <2>1, <2>2, <2>3, <2>4, <2>5, WorldMoves
<1>2. CASE RefreshLockExpires
  <2>1. UNCHANGED <<vault, tokens>> /\ lease' = NoBff /\ lease # NoBff
    BY <1>2 DEF RefreshLockExpires
  <2>2. /\ troubles' \in 0 .. MaxTroubles
        /\ troubles' = 0 => troubles = 0 /\ \A p \in BffRequests : ~Busy(bff[p])
    <3>1. CASE BffAt(lease, "done") /\ UNCHANGED troubles
      <4>1. ASSUME troubles = 0, NEW p \in BffRequests, Busy(bff[p]) PROVE FALSE
        <5>1. lease = p
          BY <4>1, LeaseIsHeld DEF CalmFits
        <5> QED
          BY <3>1, <4>1, <5>1 DEF BffAt, Busy
      <4> QED
        BY <1>t, <3>1, <4>1
    <3>2. CASE Trouble
      BY <3>2, TroubleCounts
    <3> QED
      BY <1>2, <3>1, <3>2 DEF RefreshLockExpires
  <2>3. BffTypeOK'
    BY <1>t, <2>1, <2>2 DEF VaultInv, BffTypeOK
  <2>4. VaultFits' /\ (VaultHeld' => VaultHeld)
    BY <1>t, <2>1 DEF VaultFits, Ordered, VaultHeld
  <2>5. \A t : Known(t) => Known(t)'
    BY <2>1 DEF Known
  <2> QED
    BY <1>c, <1>t, <2>1, <2>2, <2>3, <2>4, <2>5, WorldMoves
<1>3. CASE RevokedElsewhere
  <2>1. UNCHANGED <<vault, lease, troubles>> /\ login = "in"
    BY <1>3 DEF RevokedElsewhere
  <2>2. /\ tokens' \in TokenTable /\ tokens'.issued = tokens.issued /\ tokens'.live = 0
        /\ tokens'.reused = tokens.reused /\ tokens'.gone = tokens.gone \cup {tokens.live}
    <3>1. 0 \in Token
      BY BffAssumption DEF Token
    <3> QED
      BY <1>3, <1>t, <3>1 DEF RevokedElsewhere, TokenTable
  <2>3. BffTypeOK'
    BY <1>t, <2>1, <2>2 DEF VaultInv, BffTypeOK, TokenTable
  <2>4. VaultFits' /\ (VaultHeld' => VaultHeld)
    BY <1>t, <2>1, <2>2 DEF VaultFits, Ordered, VaultHeld
  <2>5. \A t : Known(t) => Known(t)'
    BY <2>2 DEF Known
  <2> QED
    BY <1>c, <1>t, <2>1, <2>2, <2>3, <2>4, <2>5, WorldMoves
<1>4. CASE UNCHANGED bffVars
  <2>1. UNCHANGED <<vault, lease, tokens, troubles>>
    BY <1>4 DEF bffVars
  <2>2. BffTypeOK' /\ VaultFits' /\ (VaultHeld' => VaultHeld)
    BY <1>t, <2>1 DEF VaultInv, BffTypeOK, VaultFits, Ordered, VaultHeld
  <2>3. \A t : Known(t) => Known(t)'
    BY <2>1 DEF Known
  <2> QED
    BY <1>c, <1>t, <2>1, <2>2, <2>3, WorldMoves
<1> QED
  BY <1>1, <1>2, <1>3, <1>4

\* Every state of a browser session: the entry's versions and tokens in their order, and, while
\* nothing has gone wrong, one refresh at a time.
THEOREM VaultInvariant == BffSpec => []VaultInv
<1>1. VaultInv /\ [BffNext]_bffVars => VaultInv'
  BY GetEntryKeepsVault, AcquireKeepsVault, ReadKeepsVault, CallKeepsVault, LeaveKeepsVault,
     DropKeepsVault, WriteKeepsVault, RotateKeepsVault, LoginKeepsVault, LogoutKeepsVault,
     TimeKeepsVault DEF BffNext
<1> QED
  BY <1>1, VaultInitInv, PTL DEF BffSpec

\* VaultIsSound: a browser that was told 401, or whose logout deleted the entry, finds no session
\* under its cookie; and requests that merely overlap never show the backend a used token.
THEOREM VaultHolds == BffSpec => []VaultIsSound
<1>1. VaultInv => VaultIsSound
  BY TroubleCounts DEF VaultInv, VaultFits, BffFits, BffCalm, CalmVault, VaultIsSound,
                       GoodbyeIsFinal, OverlapIsNotReuse
<1> QED
  BY <1>1, VaultInvariant, PTL

-----------------------------------------------------------------------------
(* RequestsMC.                                                             *)

\* Each component runs by its own specification: the others leave its variables alone.
LEMMA RequestsCompose ==
  RequestsSpec => /\ RoutesSpec /\ IdemSpec /\ HookSpec /\ LinkSpec /\ LimiterSpec
                  /\ ThrottleSpec /\ BffSpec
<1> DEFINE vars == <<focus, routeVars, idemVars, hookVars, linkVars, limiterVars, throttleVars,
                     bffVars>>
<1>1. RequestsInit => /\ RoutesInit /\ IdemInit /\ HookInit /\ LinkInit /\ LimiterInit
                      /\ ThrottleInit /\ BffInit
  BY DEF RequestsInit
<1>2. [RequestsNext]_vars =>
        /\ [RoutesNext]_routeVars /\ [IdemNext]_idemVars /\ [HookNext]_hookVars
        /\ [LinkNext]_linkVars /\ [LimiterNext]_limiterVars /\ [ThrottleNext]_throttleVars
        /\ [BffNext]_bffVars
  BY DEF RequestsNext
<1> QED
  BY <1>1, <1>2, PTL DEF RequestsSpec, RoutesSpec, IdemSpec, HookSpec, LinkSpec, LimiterSpec,
                         ThrottleSpec, BffSpec

\* Whichever of them moves, every record keeps the shape its schema gives it.
THEOREM RequestsTypesHold == RequestsSpec => []RequestsTypesOK
<1>1. RoutesInv /\ IdemInv /\ HookInv /\ LinkInv /\ LimiterInv /\ ThrottleInv /\ VaultInv =>
        RequestsTypesOK
  BY DEF RoutesInv, IdemInv, HookInv, LinkInv, LimiterInv, ThrottleInv, VaultInv, RequestsTypesOK
<1> QED
  BY <1>1, RequestsCompose, RoutesInvariant, IdemInvariant, HookInvariant, LinkInvariant,
     LimiterInvariant, ThrottleInvariant, VaultInvariant, PTL

\* An event is handled once, and a link token binds one chat, whatever is redelivered.
THEOREM InboundHolds == RequestsSpec => []InboundIsOnce
<1>1. DuplicateIsCaught /\ LinksAreExact => InboundIsOnce
  BY DEF InboundIsOnce
<1> QED
  BY <1>1, RequestsCompose, DuplicateHolds, LinksHold, PTL

\* Nobody is locked out of a sign-in by less than the limit of failures, and a throttled client
\* gets its limit of requests, no more and no less.
THEOREM LimitsHold == RequestsSpec => []LimitsAreFair
<1>1. LockoutIsEarned /\ ThrottleIsFair => LimitsAreFair
  BY DEF LimitsAreFair
<1> QED
  BY <1>1, RequestsCompose, LockoutHolds, ThrottleHolds, PTL

=============================================================================
