------------------------------- MODULE Routes -------------------------------
(***************************************************************************)
(* What stands between a request and its handler: the routes with what     *)
(* their decorators ask, the global AuthenticationGuard, the guards of the *)
(* routes and the services' own check of the organisation, beside all that *)
(* can change while a request is on its way: roles, sessions, step-up,     *)
(* tokens and the API key of its user.                                     *)
(*                                                                         *)
(* One request is in flight in the model; the others of the same user are  *)
(* the steps of the world around it.  Sessions are those of one browser.   *)
(***************************************************************************)
EXTENDS Integers

CONSTANTS
  Window,      \* STEP_UP_MAX_AGE_SECONDS
  LastMoment,  \* bound: the clock
  MaxLogins    \* bound: sessions ever created

ASSUME RoutesAssumption == Window \in Nat /\ LastMoment \in Nat /\ MaxLogins \in Nat

-----------------------------------------------------------------------------
(* The routes.  A check is what a decorator, or the service, asks for:     *)
(*   super_admin  @SystemRoles(SUPER_ADMIN)                                *)
(*   policies     @CheckPolicies(manage Organization)                      *)
(*   context      assertOrgContext, in the service                         *)
(*   key_context  the same for API keys only, in findOne                   *)
(*   fresh        @RequireFreshAuth                                        *)
(*   origin       OriginCheckGuard                                         *)
(*   refresh      RefreshTokenGuard                                        *)
(*   cookie       the refresh cookie is all the handler goes by            *)
(*   secret       a shared secret in the request: webhook, scraper         *)
(*   board        the middleware of the queue dashboard                    *)

None == {}
Bearer == {"Bearer"}
BearerOrKey == {"Bearer", "ApiKey"}

Route(signature, auth, checks) == [sig |-> signature, auth |-> auth, checks |-> checks]
Routed(signatures, auth, checks) == {Route(s, auth, checks) : s \in signatures}

Auth ==
  Routed({"POST auth/register", "POST auth/login"}, None, {})
  \cup {Route("POST auth/logout", None, {"origin", "cookie"}),
        Route("POST auth/refresh", None, {"origin", "refresh", "cookie"}),
        Route("GET auth/me", BearerOrKey, {})}

AuthAccount ==
  Routed({"PATCH auth/me", "POST auth/me/avatar", "DELETE auth/me/avatar", "POST auth/step-up",
          "GET auth/sessions", "DELETE auth/sessions/:sessionId", "DELETE auth/sessions"},
         Bearer, {})

AuthMail ==
  Routed({"POST auth/forgot-password", "POST auth/reset-password", "POST auth/verify-email",
          "POST auth/resend-verification"}, None, {})

OAuth ==
  Routed({"GET auth/oauth/providers", "GET auth/oauth/:provider",
          "GET auth/oauth/:provider/callback", "POST auth/oauth/:provider/callback"}, None, {})
  \cup {Route("GET auth/oauth/:provider/link", Bearer, {}),
        Route("POST auth/oauth/exchange", None, {"origin", "cookie"})}

\* Slip: the handlers that make do with the class's @Auth include the switch.
OrganizationsByClass ==
  Routed({"POST organizations", "GET organizations"}, Bearer, {})
  \cup {Route("POST organizations/:id/switch", BearerOrKey, {}),
        Route("GET organizations/:id", BearerOrKey, {"key_context"}),
        Route("PATCH organizations/:id", BearerOrKey, {"policies", "context"}),
        Route("DELETE organizations/:id", BearerOrKey, {"policies", "context"})}

Organizations ==
  Routed({"POST organizations", "GET organizations", "POST organizations/:id/switch"}, Bearer, {})
  \cup {Route("GET organizations/:id", BearerOrKey, {"key_context"}),
        Route("PATCH organizations/:id", BearerOrKey, {"policies", "context"}),
        Route("DELETE organizations/:id", BearerOrKey, {"policies", "context"})}

Members ==
  Routed({"POST organizations/:orgId/members/invite",
          "DELETE organizations/:orgId/members/:userId",
          "POST organizations/:orgId/members/:userId/roles/:roleId",
          "DELETE organizations/:orgId/members/:userId/roles/:roleId"},
         BearerOrKey, {"policies", "context"})

RoleRoutes ==
  Routed({"GET organizations/:orgId/roles", "POST organizations/:orgId/roles",
          "PATCH organizations/:orgId/roles/:roleId", "DELETE organizations/:orgId/roles/:roleId",
          "POST organizations/:orgId/roles/:roleId/permissions",
          "DELETE organizations/:orgId/roles/:roleId/permissions/:permId"},
         BearerOrKey, {"policies", "context"})

InviteRoutes ==
  Routed({"GET organizations/:orgId/invites", "DELETE organizations/:orgId/invites/:inviteId"},
         Bearer, {"policies", "context"})

AuthInvites == {Route("POST auth/invites/accept", Bearer, {})}

ApiKeys ==
  Routed({"POST api-keys", "GET api-keys", "DELETE api-keys/:id"}, Bearer, {})

AdminPanel ==
  Routed({"GET admin/users", "GET admin/organizations"}, Bearer, {"super_admin"})
  \cup Routed({"PATCH admin/users/:id", "POST admin/cleanup"}, Bearer, {"super_admin", "fresh"})

AiAssistantAdmin ==
  Routed({"GET admin/ai/assistants", "GET admin/ai/assistants/:id"}, Bearer, {"super_admin"})
  \cup Routed({"POST admin/ai/assistants", "POST admin/ai/assistants/:slug/versions",
               "PATCH admin/ai/assistants/:id"}, Bearer, {"super_admin", "fresh"})

AiRuns ==
  Routed({"POST ai/runs", "GET ai/runs", "GET ai/runs/:id", "POST ai/runs/:id/cancel"}, Bearer, {})

AiRunStream == {Route("GET ai/runs/:id/stream", Bearer, {})}

AiApprovals == Routed({"GET ai/approvals", "POST ai/approvals/:id/decision"}, Bearer, {})

AiArtifacts ==
  Routed({"POST ai/conversations/:id/artifacts",
          "GET ai/conversations/:id/artifacts/:artifactId"}, Bearer, {})

AiConversations == Routed({"POST ai/conversations", "GET ai/conversations/:id"}, Bearer, {})

AiConversationControl ==
  Routed({"POST ai/conversations/:id/takeover", "POST ai/conversations/:id/release",
          "GET ai/conversations/:id/messages", "POST ai/conversations/:id/messages"}, Bearer, {})

Notifications ==
  Routed({"GET notifications", "GET notifications/unread-count", "POST notifications/read-all",
          "POST notifications/:id/read", "POST notifications/:id/archive"}, Bearer, {})

NotificationStream == {Route("GET notifications/stream", Bearer, {})}

NotificationPreferences ==
  Routed({"GET notifications/capabilities", "GET notifications/preferences",
          "PUT notifications/preferences", "PATCH notifications/settings"}, Bearer, {})

Telegram ==
  Routed({"POST notifications/telegram/link", "GET notifications/telegram/connection",
          "DELETE notifications/telegram/connection"}, Bearer, {})

TelegramWebhook == {Route("POST webhooks/telegram", None, {"secret"})}

Health ==
  Routed({"GET health", "GET health/startup", "GET health/ready", "GET health/live"}, None, {})

Metrics == {Route("GET metrics", None, {"secret"})}

\* Mounted as middleware, and never on a worker or, unasked, in production.
QueueBoard == {Route("GET admin/queues", None, {"board", "cookie"})}

Routes ==
  UNION {Auth, AuthAccount, AuthMail, OAuth, Organizations, Members, RoleRoutes, InviteRoutes, AuthInvites, ApiKeys,
         AdminPanel, AiAssistantAdmin, AiRuns, AiRunStream, AiApprovals, AiArtifacts,
         AiConversations, AiConversationControl, Notifications, NotificationStream,
         NotificationPreferences, Telegram, TelegramWebhook, Health, Metrics,
         QueueBoard}

\* The routes an API key may use, as the reviewed list has them.
ApiKeyAllowlist ==
  {"GET organizations/:id", "PATCH organizations/:id", "DELETE organizations/:id",
   "POST organizations/:orgId/members/invite", "DELETE organizations/:orgId/members/:userId",
   "POST organizations/:orgId/members/:userId/roles/:roleId",
   "DELETE organizations/:orgId/members/:userId/roles/:roleId",
   "GET organizations/:orgId/roles", "POST organizations/:orgId/roles",
   "PATCH organizations/:orgId/roles/:roleId", "DELETE organizations/:orgId/roles/:roleId",
   "POST organizations/:orgId/roles/:roleId/permissions",
   "DELETE organizations/:orgId/roles/:roleId/permissions/:permId",
   "GET auth/me"}

-----------------------------------------------------------------------------
(* The state.                                                              *)

VARIABLES
  dbRole,   \* users.systemRole
  moment,   \* the clock
  logins,   \* sessions created so far; each is named by its number
  session,  \* the session that is live; 0 when none is
  authAt,   \* its lastAuthAt
  bearer,   \* the access token the client holds
  keyLive,  \* an API key of the user exists, and its owner is a member of its organisation
  httpReq,  \* the request
  known     \* what has been true of the request's user at some moment since it arrived

routeVars == <<dbRole, moment, logins, session, authAt, bearer, keyLive, httpReq, known>>

SystemRoleNames == {"USER", "SUPER_ADMIN"}
Sids == 0 .. MaxLogins

\* AccessTokenPayload: the role and the organisation are as they were when it was minted.
AccessToken == [role : SystemRoleNames, sid : Sids, org : BOOLEAN]
NoToken == [role |-> "USER", sid |-> 0, org |-> FALSE]

\* A request: what it came with, and how far it is.
HttpRequest ==
  [pc : {"idle", "authenticate", "role", "guards", "handler"},
   route : Routes \cup {Route("none", None, {})},
   cred : {"none", "jwt", "api_key"}, token : AccessToken,
   cookie : Sids,                            \* the session of its refresh cookie; 0 without one
   origin : {"absent", "ours", "foreign"},
   ownOrg : BOOLEAN]                         \* the path names the principal's organisation

NoHttpRequest ==
  [pc |-> "idle", route |-> Route("none", None, {}), cred |-> "none", token |-> NoToken,
   cookie |-> 0, origin |-> "absent", ownOrg |-> FALSE]

RoutesTypeOK ==
  /\ dbRole \in SystemRoleNames /\ moment \in 0 .. LastMoment
  /\ logins \in Sids /\ session \in Sids /\ authAt \in 0 .. LastMoment
  /\ bearer \in AccessToken /\ keyLive \in BOOLEAN
  /\ httpReq \in HttpRequest
  /\ known \subseteq {"admin", "fresh"}

RoutesInit ==
  /\ dbRole \in SystemRoleNames
  /\ moment = 0 /\ logins = 0 /\ session = 0 /\ authAt = 0
  /\ bearer = NoToken /\ keyLive = FALSE
  /\ httpReq = NoHttpRequest /\ known = {}

At(pc) == httpReq.pc = pc
Goto(pc) == httpReq' = [httpReq EXCEPT !.pc = pc]
Asks(check) == check \in httpReq.route.checks
account == <<dbRole, logins, session, authAt, bearer, keyLive>>

-----------------------------------------------------------------------------
(* What handlers do to the account.  "cookie" is the session the refresh   *)
(* cookie of the request names, "token" the access token it carries.       *)

\* generateAccessToken.  The answer may be lost, and then the client keeps what it has.
Mint(role, sid, org) == bearer' \in {bearer, [role |-> role, sid |-> sid, org |-> org]}

\* createSession at a login or an OAuth callback; a registration is another account's.
SignIn(mints) ==
  /\ logins < MaxLogins
  /\ logins' = logins + 1 /\ session' = logins + 1 /\ authAt' = moment
  /\ IF mints THEN Mint(dbRole, logins + 1, FALSE) ELSE UNCHANGED bearer
  /\ UNCHANGED <<dbRole, keyLive>>

\* rotateRefreshToken: a new session, authenticated when the old one was.
Rotate(cookie) ==
  /\ logins < MaxLogins /\ session # 0 /\ cookie = session
  /\ logins' = logins + 1 /\ session' = logins + 1
  /\ Mint(dbRole, logins + 1, FALSE)
  /\ UNCHANGED <<dbRole, authAt, keyLive>>

\* The exchange mints with what the ticket holds of the callback: the session, and the role it
\* found then, here any role.
Exchange(cookie) ==
  /\ session # 0 /\ cookie = session
  /\ \E role \in SystemRoleNames : Mint(role, session, FALSE)
  /\ UNCHANGED <<dbRole, logins, session, authAt, keyLive>>

\* stepUp: of the session the token names, while it lives; the organisation is forgotten.
StepUp(token) ==
  /\ session # 0 /\ token.sid = session
  /\ authAt' = moment
  /\ Mint(dbRole, session, FALSE)
  /\ UNCHANGED <<dbRole, logins, session, keyLive>>

\* switchOrganization: role and session are copied from the token, whether or not they are
\* still true.
Switch(token) ==
  /\ Mint(token.role, token.sid, TRUE)
  /\ UNCHANGED <<dbRole, logins, session, authAt, keyLive>>

\* logout, revokeSession, revokeOtherSessions, resetPassword, or nothing to end.
EndSession(ended) ==
  /\ session' = IF ended THEN 0 ELSE session
  /\ UNCHANGED <<dbRole, logins, authAt, bearer, keyLive>>

SetKey(live) == keyLive' = live /\ UNCHANGED <<dbRole, logins, session, authAt, bearer>>

Handle(sig, token, cookie) ==
  CASE sig = "POST auth/login" -> SignIn(TRUE)
    [] sig \in {"GET auth/oauth/:provider/callback", "POST auth/oauth/:provider/callback"} ->
         SignIn(FALSE)
    [] sig = "POST auth/refresh" -> Rotate(cookie)
    [] sig = "POST auth/oauth/exchange" -> Exchange(cookie)
    [] sig = "POST auth/step-up" -> StepUp(token)
    [] sig = "POST organizations/:id/switch" -> Switch(token)
    [] sig = "POST auth/logout" -> EndSession(cookie = session)
    [] sig = "DELETE auth/sessions/:sessionId" -> \E own \in BOOLEAN : EndSession(own)
    [] sig = "DELETE auth/sessions" -> EndSession(cookie # 0 /\ cookie # session)
    [] sig = "POST auth/reset-password" -> EndSession(TRUE)
    [] sig = "POST api-keys" -> SetKey(TRUE)
    [] sig = "DELETE api-keys/:id" -> SetKey(FALSE)
    [] OTHER -> UNCHANGED account

Stateful ==
  {"POST auth/login", "GET auth/oauth/:provider/callback", "POST auth/refresh",
   "POST auth/oauth/exchange", "POST auth/step-up", "POST organizations/:id/switch",
   "POST auth/reset-password", "POST api-keys", "DELETE api-keys/:id"}

-----------------------------------------------------------------------------
(* The world around the request.                                           *)

Tick ==
  /\ moment < LastMoment /\ moment' = moment + 1
  /\ UNCHANGED <<account, httpReq>>

AccessTokenExpires ==
  /\ bearer # NoToken /\ bearer' = NoToken
  /\ UNCHANGED <<dbRole, moment, logins, session, authAt, keyLive, httpReq>>

\* Another request of the user is answered.
OtherRequest ==
  /\ \E sig \in Stateful :
       /\ sig \in {"POST auth/step-up", "POST organizations/:id/switch"} => bearer # NoToken
       /\ Handle(sig, bearer, session)
  /\ UNCHANGED <<moment, httpReq>>

\* An administrator changes the role; the deletion of the sessions that follows may fail.
ChangeRole ==
  /\ dbRole' \in SystemRoleNames \ {dbRole}
  /\ session' \in {0, session}
  /\ UNCHANGED <<moment, logins, authAt, bearer, keyLive, httpReq>>

-----------------------------------------------------------------------------
(* The request.                                                            *)

\* A route that asks for no more than a user, takes no key and leaves the account alone can
\* neither fail this module's property nor change what another request meets.
Eventful(r) ==
  \/ r.auth = BearerOrKey \/ r.checks # {}
  \/ r.sig \in Stateful \cup {"POST auth/oauth/:provider/callback", "DELETE auth/sessions",
                              "DELETE auth/sessions/:sessionId"}

\* Origin matters where it is checked, a credential and the cookie where they are read, the
\* path where it names an organisation.
Arrive ==
  /\ At("idle")
  /\ \E r \in Routes, c \in {"none", "jwt", "api_key"}, o \in {"absent", "ours", "foreign"},
        k \in {0, session, IF session > 1 THEN session - 1 ELSE 0}, own \in BOOLEAN :
       /\ Eventful(r)
       /\ o # "absent" => "origin" \in r.checks
       /\ k # 0 => "cookie" \in r.checks \/ r.sig = "DELETE auth/sessions"
       /\ ~own => {"context", "key_context"} \cap r.checks # {}
       /\ c # "none" => r.auth # None \/ "board" \in r.checks
       /\ c = "jwt" => bearer # NoToken
       /\ httpReq' = [pc |-> "authenticate", route |-> r, cred |-> c,
                      token |-> IF c = "jwt" THEN bearer ELSE NoToken,
                      cookie |-> k, origin |-> o, ownOrg |-> own]
  /\ UNCHANGED <<account, moment>>

\* Any guard's refusal, a failing dependency, or the answer.
SendResponse ==
  /\ ~At("idle") /\ httpReq' = NoHttpRequest
  /\ UNCHANGED <<account, moment>>

\* AuthenticationGuard: the types the route takes are tried in turn.
Credential ==
  \/ "Bearer" \in httpReq.route.auth /\ httpReq.cred = "jwt"
  \/ "ApiKey" \in httpReq.route.auth /\ httpReq.cred = "api_key" /\ keyLive

\* SystemRolesGuard, first half: the role the principal claims.
ClaimedRole == Asks("super_admin") => httpReq.token.role = "SUPER_ADMIN"

\* With @Auth(None) it asks nothing more, and the guards of the route are next.
Authenticate ==
  /\ At("authenticate")
  /\ \/ httpReq.route.auth = None /\ Goto("guards")
     \/ Credential /\ ClaimedRole /\ Goto("role")
  /\ UNCHANGED <<account, moment>>

\* Slip: the claim of the token is all that is asked.
ClaimIsEnough == TRUE

\* SystemRolesGuard, second half: getCurrentSystemRole reads the database.
CurrentRole == Asks("super_admin") => dbRole = "SUPER_ADMIN"

\* PoliciesGuard: the ability (module Ability) allows only a principal of some organisation.
Policies == Asks("policies") => httpReq.cred = "api_key" \/ httpReq.token.org

AuthorizeRequest ==
  /\ At("role")
  /\ CurrentRole /\ Policies
  /\ Goto("guards")
  /\ UNCHANGED <<account, moment>>

\* OriginCheckGuard: a request that names no origin passes.
OriginAllowed == httpReq.origin \in {"absent", "ours"}

\* RefreshTokenGuard: validateRefreshToken.
RefreshTokenValid == session # 0 /\ httpReq.cookie = session

\* Slip: the board asks for a session, of whoever it is.
AnySession == session # 0 /\ httpReq.cookie = session

\* verifyAccess: a live session, looked at and not touched, of a user who is SUPER_ADMIN now.
BoardSession == session # 0 /\ httpReq.cookie = session /\ dbRole = "SUPER_ADMIN"

\* The board is for browsers: no API key.
BoardAccess == httpReq.cred # "api_key" /\ BoardSession

\* Slip: a session that has been revoked may have been fresh.
FreshWhetherLive == httpReq.token.sid # 0 /\ moment - authAt <= Window

\* assertSessionFresh: the session of the token, live and recently authenticated.
SessionFresh ==
  /\ httpReq.token.sid # 0 /\ session = httpReq.token.sid
  /\ moment - authAt <= Window

\* Slip: findOne leaves the organisation of a key to the membership check.
MembersRead == Asks("context") => httpReq.ownOrg

\* assertOrgContext, and findOne's own check for keys: a JWT may read where its user is a member.
InContext ==
  /\ Asks("context") => httpReq.ownOrg
  /\ Asks("key_context") /\ httpReq.cred = "api_key" => httpReq.ownOrg

\* The guards of the route come after the global ones, and then the handler.
RouteGuards ==
  /\ At("guards")
  /\ Asks("origin") => OriginAllowed
  /\ Asks("refresh") => RefreshTokenValid
  /\ Asks("fresh") => SessionFresh
  /\ Asks("board") => BoardAccess
  /\ InContext
  /\ Goto("handler")
  /\ UNCHANGED <<account, moment>>

\* The rest of the handler commits.
Commit ==
  /\ At("handler")
  /\ Handle(httpReq.route.sig, httpReq.token, httpReq.cookie)
  /\ httpReq' = NoHttpRequest
  /\ UNCHANGED moment

-----------------------------------------------------------------------------
\* What the request's user can show for it now.
Facts(role, live, at, time, token) ==
  (IF role = "SUPER_ADMIN" THEN {"admin"} ELSE {})
  \cup (IF live # 0 /\ token.sid = live /\ time - at <= Window THEN {"fresh"} ELSE {})

Remember ==
  known' = IF httpReq'.pc = "idle" THEN {}
           ELSE known \cup Facts(dbRole', session', authAt', moment', httpReq'.token)

RoutesStep ==
  \/ Tick \/ AccessTokenExpires \/ OtherRequest \/ ChangeRole
  \/ Arrive \/ SendResponse \/ Authenticate \/ AuthorizeRequest \/ RouteGuards \/ Commit

RoutesNext == RoutesStep /\ Remember

RoutesSpec == RoutesInit /\ [][RoutesNext]_routeVars

-----------------------------------------------------------------------------
(* Properties.                                                             *)

\* A handler runs only for who may ask it, however the account changes while the request is on
\* its way: an administrator's route, and the queue board, for a user who was SUPER_ADMIN, by
\* the database, at some moment of the request; a route that wants re-authentication for a
\* session that lived and was fresh at one; a route of the refresh cookie never for a page of
\* another origin; an API key on the routes of the reviewed list, and within its own
\* organisation.
RoutesAreGuarded ==
  At("handler") =>
    /\ Asks("super_admin") \/ Asks("board") => "admin" \in known
    /\ Asks("fresh") => "fresh" \in known
    /\ Asks("cookie") /\ ~Asks("board") => httpReq.origin # "foreign"
    /\ httpReq.cred = "api_key" /\ httpReq.route.auth # None =>
         /\ httpReq.route.sig \in ApiKeyAllowlist
         /\ {"context", "key_context"} \cap httpReq.route.checks # {} => httpReq.ownOrg

\* A device that is signed out gets no token any more: a token is minted for a live session.
TokenNeedsSession ==
  [][bearer' \notin {bearer, NoToken} => session' # 0 /\ bearer'.sid = session']_routeVars
=============================================================================
