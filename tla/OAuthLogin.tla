----------------------------- MODULE OAuthLogin -----------------------------
(***************************************************************************)
(* Signing in, or linking an account, by an OAuth provider: the state that *)
(* is stored while the browser is away, the cookie that binds it to the    *)
(* browser, the rows a callback finds or creates, and the ticket by which  *)
(* the single-page application obtains its first access token.             *)
(*                                                                         *)
(* A flow is named by its state, and its browser nonce by the flow.  The   *)
(* provider is external: it may answer with any identity and any address.  *)
(***************************************************************************)
EXTENDS Integers, FiniteSets

CONSTANTS
  Browsers,     \* browsers that hold cookies
  Flows,        \* flows that are ever started
  OaRequests,   \* callback and exchange requests in flight
  Identities,   \* accounts at the providers
  OaEmails,     \* addresses the providers report
  NoFlow,       \* no browser, no flow, no identity
  MaxUsers,     \* bound: user rows
  MaxOaSessions \* bound: sessions opened

ASSUME OaAssumption ==
  /\ NoFlow \notin Browsers \cup Flows \cup Identities /\ MaxUsers \in Nat /\ MaxOaSessions \in Nat

VARIABLES
  flow,      \* oauth:state in Redis, and who started the flow
  jar,       \* the binding cookies of each browser: the flow whose nonce each holds
  refresh,   \* the refresh cookie of each browser: its session, or 0
  accountOf, \* oauth_accounts: the user of each identity; 0 when there is no row
  emailOf,   \* users: the address of each row; "" when there is no row
  sess,      \* sessions: the user and the identity each was opened for
  ticket,    \* oauth:ticket in Redis, by the session it is for
  opened,    \* sessions and links each flow has produced, by browser
  tokens,    \* access tokens exchanged for each ticket, by browser
  oaReq      \* what each request holds in memory

oaVars == <<flow, jar, refresh, accountOf, emailOf, sess, ticket, opened, tokens, oaReq>>

Providers == {"google", "github", "apple", "telegram"}

\* Telegram reports a telephone number and no address, the others an address or none.
ProfileEmails(provider) == IF provider = "telegram" THEN {""} ELSE OaEmails \cup {""}

OaUsers == 1 .. MaxUsers
OaSessions == 1 .. MaxOaSessions

FlowRecord == [state : {"none", "stored", "gone"}, provider : Providers, mode : {"login", "link"},
               browser : Browsers \cup {NoFlow}, user : OaUsers \cup {0}]

\* Apple posts its callback from another site, so it has a cookie of its own; the others share one.
Cookies == {"oauth_state", "oauth_state_apple"}
CookieOf(provider) == IF provider = "apple" THEN "oauth_state_apple" ELSE "oauth_state"

OaRecord == [pc : {"idle", "exchangeCode", "findAccount", "findEmail", "attach", "linkEmail",
                   "create", "session", "redirect", "ticket"},
             browser : Browsers \cup {NoFlow}, flow : Flows \cup {NoFlow}, identity : Identities \cup {NoFlow},
             email : OaEmails \cup {""}, user : OaUsers \cup {0}, session : OaSessions \cup {0}]

OaIdle == [pc |-> "idle", browser |-> NoFlow, flow |-> NoFlow, identity |-> NoFlow, email |-> "",
           user |-> 0, session |-> 0]

OaTypeOK ==
  /\ flow \in [Flows -> FlowRecord]
  /\ jar \in [Browsers -> [Cookies -> Flows \cup {NoFlow}]]
  /\ refresh \in [Browsers -> OaSessions \cup {0}]
  /\ accountOf \in [Identities -> OaUsers \cup {0}]
  /\ emailOf \in [OaUsers -> OaEmails \cup {""}]
  /\ sess \in [OaSessions -> [state : {"none", "live", "revoked"}, user : OaUsers \cup {0},
                              identity : Identities \cup {NoFlow}]]
  /\ ticket \in [OaSessions -> {"none", "issued", "gone"}]
  /\ opened \in [Flows -> [Browsers -> Nat]]
  /\ tokens \in [OaSessions -> [Browsers -> Nat]]
  /\ oaReq \in [OaRequests -> OaRecord]

OaInit ==
  /\ flow = [f \in Flows |-> [state |-> "none", provider |-> "google", mode |-> "login",
                              browser |-> NoFlow, user |-> 0]]
  /\ jar = [b \in Browsers |-> [c \in Cookies |-> NoFlow]]
  /\ refresh = [b \in Browsers |-> 0]
  /\ accountOf = [i \in Identities |-> 0]
  /\ emailOf = [u \in OaUsers |-> ""]
  /\ sess = [s \in OaSessions |-> [state |-> "none", user |-> 0, identity |-> NoFlow]]
  /\ ticket = [s \in OaSessions |-> "none"]
  /\ opened = [f \in Flows |-> [b \in Browsers |-> 0]]
  /\ tokens = [s \in OaSessions |-> [b \in Browsers |-> 0]]
  /\ oaReq = [p \in OaRequests |-> OaIdle]

oaRows == <<accountOf, emailOf>>
oaCookies == <<jar, refresh>>
oaCounts == <<opened, tokens>>

OaAt(p, pc) == oaReq[p].pc = pc
OaGo(p, r) == oaReq' = [oaReq EXCEPT ![p] = r]
OaEnd(p) == OaGo(p, OaIdle)
Count(f, k, b) == [f EXCEPT ![k][b] = @ + 1]

-----------------------------------------------------------------------------
(* The browser leaves.                                                     *)

StoreState(b, provider, mode, user) ==
  \E f \in Flows :
    /\ flow[f].state = "none"
    /\ flow' = [flow EXCEPT ![f] = [state |-> "stored", provider |-> provider, mode |-> mode,
                                    browser |-> b, user |-> user]]
    /\ jar' = [jar EXCEPT ![b][CookieOf(provider)] = f]

\* getAuthorizationURL, for anybody.
Authorize(b, provider) ==
  /\ StoreState(b, provider, "login", 0)
  /\ UNCHANGED <<refresh, oaRows, sess, ticket, oaCounts, oaReq>>

\* getLinkAuthorizationURL, for the user of a bearer token.
Link(b, provider, user) ==
  /\ emailOf[user] # ""
  /\ StoreState(b, provider, "link", user)
  /\ UNCHANGED <<refresh, oaRows, sess, ticket, oaCounts, oaReq>>

-----------------------------------------------------------------------------
(* The callback.                                                           *)

\* Slip: the state is read and left to expire.
PeekState(f) == flow[f].state = "stored" /\ UNCHANGED flow

\* GETDEL.
ConsumeState(f) ==
  /\ flow[f].state = "stored"
  /\ flow' = [flow EXCEPT ![f].state = "gone"]

\* The state of the flow comes back from some browser; it is spent before anything is checked.
Callback(p, b, f, provider) ==
  /\ OaAt(p, "idle")
  /\ ConsumeState(f)
  /\ IF flow[f].provider = provider /\ jar[b][CookieOf(provider)] = f
     THEN OaGo(p, [OaIdle EXCEPT !.pc = "exchangeCode", !.browser = b, !.flow = f])
     ELSE UNCHANGED oaReq
  /\ UNCHANGED <<oaCookies, oaRows, sess, ticket, oaCounts>>

\* The provider answers with a profile, or refuses; a login needs an address.
ExchangeCode(p) ==
  /\ OaAt(p, "exchangeCode")
  /\ \/ OaEnd(p)
     \/ \E i \in Identities, e \in ProfileEmails(flow[oaReq[p].flow].provider) :
          IF flow[oaReq[p].flow].mode = "login" /\ e = ""
          THEN OaEnd(p)
          ELSE OaGo(p, [oaReq[p] EXCEPT !.pc = "findAccount", !.identity = i, !.email = e])
  /\ UNCHANGED <<flow, oaCookies, oaRows, sess, ticket, oaCounts>>

\* The account of the identity: a link refuses one that exists, a login signs its user in.
FindAccount(p) ==
  LET r == oaReq[p]
      owner == accountOf[r.identity]
  IN /\ OaAt(p, "findAccount")
     /\ IF flow[r.flow].mode = "link"
        THEN IF owner # 0
             THEN OaEnd(p)
             ELSE OaGo(p, [r EXCEPT !.pc = "attach", !.user = flow[r.flow].user])
        ELSE OaGo(p, [r EXCEPT !.pc = IF owner # 0 THEN "session" ELSE "findEmail", !.user = owner])
     /\ UNCHANGED <<flow, oaCookies, oaRows, sess, ticket, oaCounts>>

\* No account: the user of the address, if there is one.
FindByEmail(p) ==
  LET r == oaReq[p] IN
  /\ OaAt(p, "findEmail")
  /\ OaGo(p, IF \E u \in OaUsers : emailOf[u] = r.email
             THEN [r EXCEPT !.pc = "linkEmail", !.user = CHOOSE u \in OaUsers : emailOf[u] = r.email]
             ELSE [r EXCEPT !.pc = "create"])
  /\ UNCHANGED <<flow, oaCookies, oaRows, sess, ticket, oaCounts>>

\* Slip: the account is upserted, and moves to the user of the second of two.
UpsertAccount(i) == TRUE

\* The unique index on provider and providerAccountId lets an insert through.
InsertAccount(i) == accountOf[i] = 0

\* attachProviderToUser: the insert and the update of the user are one transaction.
AttachProvider(p) ==
  LET r == oaReq[p] IN
  /\ OaAt(p, "attach")
  /\ IF InsertAccount(r.identity)
     THEN /\ accountOf' = [accountOf EXCEPT ![r.identity] = r.user]
          /\ opened' = Count(opened, r.flow, r.browser)
          /\ OaGo(p, [r EXCEPT !.pc = "redirect"])
     ELSE OaEnd(p) /\ UNCHANGED <<accountOf, opened>>
  /\ UNCHANGED <<flow, oaCookies, emailOf, sess, ticket, tokens>>

\* linkAndReturnUser: a second login by the same identity fails here, and does not sign in.
LinkByEmail(p) ==
  LET r == oaReq[p] IN
  /\ OaAt(p, "linkEmail")
  /\ IF InsertAccount(r.identity)
     THEN /\ accountOf' = [accountOf EXCEPT ![r.identity] = r.user]
          /\ OaGo(p, [r EXCEPT !.pc = "session"])
     ELSE OaEnd(p) /\ UNCHANGED accountOf
  /\ UNCHANGED <<flow, oaCookies, emailOf, sess, ticket, oaCounts>>

\* createOAuthUser inserts the user and the account together; both are unique.
CreateOAuthUser(p) ==
  LET r == oaReq[p] IN
  /\ OaAt(p, "create")
  /\ IF InsertAccount(r.identity) /\ ~ \E u \in OaUsers : emailOf[u] = r.email
     THEN \E u \in OaUsers :
            /\ emailOf[u] = ""
            /\ emailOf' = [emailOf EXCEPT ![u] = r.email]
            /\ accountOf' = [accountOf EXCEPT ![r.identity] = u]
            /\ OaGo(p, [r EXCEPT !.pc = "session", !.user = u])
     ELSE OaEnd(p) /\ UNCHANGED oaRows
  /\ UNCHANGED <<flow, oaCookies, sess, ticket, oaCounts>>

OpenSession(p) ==
  LET r == oaReq[p] IN
  /\ OaAt(p, "session")
  /\ \E s \in OaSessions :
       /\ sess[s].state = "none"
       /\ sess' = [sess EXCEPT ![s] = [state |-> "live", user |-> r.user, identity |-> r.identity]]
       /\ OaGo(p, [r EXCEPT !.pc = "redirect", !.session = s])
  /\ opened' = Count(opened, r.flow, r.browser)
  /\ UNCHANGED <<flow, oaCookies, oaRows, ticket, tokens>>

\* processCallback answers: the binding cookie goes, and a login leaves a refresh cookie and a
\* ticket, or no ticket when Redis fails.
Redirect(p) ==
  LET r == oaReq[p] IN
  /\ OaAt(p, "redirect")
  /\ jar' = [jar EXCEPT ![r.browser][CookieOf(flow[r.flow].provider)] = NoFlow]
  /\ IF r.session = 0 THEN UNCHANGED <<refresh, ticket>>
     ELSE /\ refresh' = [refresh EXCEPT ![r.browser] = r.session]
          /\ ticket' \in {ticket, [ticket EXCEPT ![r.session] = "issued"]}
  /\ OaEnd(p)
  /\ UNCHANGED <<flow, oaRows, sess, oaCounts>>

-----------------------------------------------------------------------------
(* The exchange.                                                           *)

\* The refresh cookie of the browser must name a live session ...
ValidateRefresh(p, b) ==
  LET s == refresh[b] IN
  /\ OaAt(p, "idle") /\ s # 0 /\ sess[s].state = "live"
  /\ OaGo(p, [OaIdle EXCEPT !.pc = "ticket", !.browser = b, !.session = s])
  /\ UNCHANGED <<flow, oaCookies, oaRows, sess, ticket, oaCounts>>

\* ... and the ticket, spent by being looked at, must be of that session and user.
ConsumeTicket(p, t) ==
  LET r == oaReq[p] IN
  /\ OaAt(p, "ticket") /\ ticket[t] = "issued"
  /\ ticket' = [ticket EXCEPT ![t] = "gone"]
  /\ tokens' = IF r.session = t THEN Count(tokens, t, r.browser) ELSE tokens
  /\ OaEnd(p)
  /\ UNCHANGED <<flow, oaCookies, oaRows, sess, opened>>

\* States and tickets expire; sessions are revoked; a request dies.
OaExpires ==
  /\ \/ \E f \in Flows : ConsumeState(f) /\ UNCHANGED <<sess, ticket>>
     \/ \E s \in OaSessions : /\ ticket[s] = "issued" /\ ticket' = [ticket EXCEPT ![s] = "gone"]
                              /\ UNCHANGED <<flow, sess>>
     \/ \E s \in OaSessions : /\ sess[s].state = "live"
                              /\ sess' = [sess EXCEPT ![s].state = "revoked"]
                              /\ UNCHANGED <<flow, ticket>>
  /\ UNCHANGED <<oaCookies, oaRows, oaCounts, oaReq>>

OaCrash(p) ==
  /\ ~OaAt(p, "idle") /\ OaEnd(p)
  /\ UNCHANGED <<flow, oaCookies, oaRows, sess, ticket, oaCounts>>

OaNext ==
  \/ OaExpires
  \/ \E b \in Browsers, provider \in Providers :
       \/ Authorize(b, provider)
       \/ \E u \in OaUsers : Link(b, provider, u)
       \/ \E p \in OaRequests, f \in Flows : Callback(p, b, f, provider)
  \/ \E p \in OaRequests :
       \/ ExchangeCode(p) \/ FindAccount(p) \/ FindByEmail(p) \/ AttachProvider(p)
       \/ LinkByEmail(p) \/ CreateOAuthUser(p) \/ OpenSession(p) \/ Redirect(p) \/ OaCrash(p)
       \/ \E b \in Browsers : ValidateRefresh(p, b)
       \/ \E t \in OaSessions : ConsumeTicket(p, t)

OaSpec == OaInit /\ [][OaNext]_oaVars

-----------------------------------------------------------------------------
(* Properties.                                                             *)

\* A flow signs in or links at most once, and only in the browser it was started in, however
\* often and from wherever its callback is delivered; and what it opened is exchanged for an
\* access token at most once, by that browser.
OAuthFlowOnce ==
  /\ \A f \in Flows :
       LET by == {b \in Browsers : opened[f][b] > 0} IN
       /\ by \subseteq {flow[f].browser}
       /\ \A b \in by : opened[f][b] = 1
  /\ \A s \in OaSessions :
       /\ Cardinality({b \in Browsers : tokens[s][b] > 0}) <= 1
       /\ \A b \in Browsers : tokens[s][b] <= 1

\* A login signs in the user its identity is linked to, when callbacks of the same identity or
\* of the same address race to find or create the rows.
SignsInTheLinkedUser ==
  \A s \in OaSessions : sess[s].state # "none" => accountOf[sess[s].identity] = sess[s].user

\* One login for one flow, and for the right user.
OAuthIsSound == OAuthFlowOnce /\ SignsInTheLinkedUser
=============================================================================
