------------------------------- MODULE Session -------------------------------
(***************************************************************************)
(* A browser and its sessions: the hand-over of the OAuth session to JWTs, *)
(* the renewal of expired access tokens by interceptors, the choice of the *)
(* tenant that every request names, and what the server makes of both.     *)
(* Tokens are kept per tab, the active tenant, the list to choose it from  *)
(* and Django's session cookie once per browser; each tab has several      *)
(* calls in flight, and pages change while they are.  A page that sends    *)
(* its tab to another document goes on until that document is there.       *)
(*                                                                         *)
(* Accounts are approved.  What a login does to memberships is the subject *)
(* of Accounts, TenantAccess and ProposalSync; here access changes freely. *)
(***************************************************************************)
EXTENDS Naturals, FiniteSets

CONSTANTS
    Users, Nobody,
    Staff,          \* users with is_staff
    Tenants, NoTenant,
    Usable,         \* Usable[u]: tenants that u may have access to
    Tabs,
    AdminTabs,      \* tabs of the admin panel, with tokens of their own
    Calls,          \* places for calls in flight
    TabOf,          \* the tab whose page makes them
    Volatile,       \* bound: users whose access or account may change
    TroubleBudget   \* bound: tokens and sessions that expire, calls that fail,
                    \* such changes

ASSUME SessionAssumption ==
    /\ Nobody \notin Users /\ NoTenant \notin Tenants
    /\ Staff \subseteq Users /\ Volatile \subseteq Users /\ AdminTabs \subseteq Tabs
    /\ Usable \in [Users -> SUBSET Tenants]
    /\ TabOf \in [Calls -> Tabs] /\ \A t \in Tabs : \E c \in Calls : TabOf[c] = t
    /\ TroubleBudget \in Nat

VARIABLES
    access,     \* access[u]: tenants where u has a usable membership
    enabled,    \* users whose account is active
    session,    \* user of the browser's Django session
    active,     \* localStorage: active_tenant_id
    pending,    \* localStorage: pending_tenants
    page,       \* page[t]: what tab t shows
    leaving,    \* leaving[t]: the document that t is being sent to
    choice,     \* choice[t]: the tenants its selector offers
    tokens,     \* tokens[t]: sessionStorage of t
    call,       \* call[c]: a request and its answer
    troubles,
    alone       \* history: tabs that came to Authentik with no tenant active, and
                \* that since alone chose tenants, on pages that stay

vars == <<access, enabled, session, active, pending, page, leaving, choice, tokens,
          call, troubles, alone>>
server == <<access, enabled>>

\* "select" is TenantSelectorPage until its effect ran, then "choose".
Pages == {"login", "authentik", "callback", "select", "choose", "app"}
Documents == {"none", "login", "authentik"}

\* A JWT: there or not, expired or not.
Token == {"none", "fresh", "stale"}
Tokens == [user: Users \cup {Nobody}, access: Token, refresh: Token]
NoTokens == [user |-> Nobody, access |-> "none", refresh |-> "none"]

\* `user` and `fresh`: the bearer token sent, which may expire on the way;
\* while "refreshing", the refresh token.  `asked`: the tenant to select.
Call == [pc: {"idle", "sent", "answered", "refreshing"},
         kind: {"exchange", "select", "tenants", "bucket", "admin"},
         user: Users \cup {Nobody}, fresh: BOOLEAN, tenant: Tenants \cup {NoTenant},
         asked: Tenants \cup {NoTenant}, retried: BOOLEAN,
         answer: {"none", "unauthorized", "refused", "ok"}, offer: SUBSET Tenants]
NoCall == [pc |-> "idle", kind |-> "bucket", user |-> Nobody, fresh |-> FALSE,
           tenant |-> NoTenant, asked |-> NoTenant, retried |-> FALSE,
           answer |-> "none", offer |-> {}]

\* The answer that a login waits for.
HandsOver(q) == q.pc = "answered" /\ q.kind = "exchange" /\ q.answer = "ok"

CallsOf(t) == {c \in Calls : TabOf[c] = t}

TypeOK ==
    /\ access \in [Users -> SUBSET Tenants] /\ \A u \in Users : access[u] \subseteq Usable[u]
    /\ enabled \subseteq Users /\ session \in Users \cup {Nobody}
    /\ active \in Tenants \cup {NoTenant} /\ pending \subseteq Tenants
    /\ page \in [Tabs -> Pages] /\ leaving \in [Tabs -> Documents]
    /\ choice \in [Tabs -> SUBSET Tenants]
    /\ tokens \in [Tabs -> Tokens]
    /\ \A t \in Tabs : /\ tokens[t].refresh # "none" => tokens[t].access # "none"
                       /\ tokens[t].access # "none" => tokens[t].user \in Users
    /\ call \in [Calls -> Call]
    /\ \A c \in Calls : call[c].pc = "refreshing" \/ HandsOver(call[c]) => call[c].user \in Users
    /\ troubles \in Nat
    /\ alone \subseteq Tabs \ AdminTabs

Init ==
    /\ access = Usable
    /\ enabled = Users /\ session = Nobody
    /\ active = NoTenant /\ pending = {}
    /\ page = [t \in Tabs |-> "login"] /\ leaving = [t \in Tabs |-> "none"]
    /\ choice = [t \in Tabs |-> {}]
    /\ tokens = [t \in Tabs |-> NoTokens]
    /\ call = [c \in Calls |-> NoCall]
    /\ troubles = TroubleBudget
    /\ alone = {}

-----------------------------------------------------------------------------
(* What the browser keeps *)

Trouble == troubles > 0 /\ troubles' = troubles - 1

\* The selector's list lives as long as the page.
Goes(t, p) == /\ page' = [page EXCEPT ![t] = p]
              /\ choice' = [choice EXCEPT ![t] = IF p = "choose" THEN @ ELSE {}]
GoesToChoose(t, offer) == /\ page' = [page EXCEPT ![t] = "choose"]
                          /\ choice' = [choice EXCEPT ![t] = offer]

\* Whoever leaves a user session leaves its tenant; admin tabs have none.
LeftTenant(t) == IF t \in AdminTabs THEN active ELSE NoTenant

KeepsRefresh(t) ==
    /\ tokens' = [tokens EXCEPT ![t] = [@ EXCEPT !.access = "none"]]
    /\ active' = LeftTenant(t)
Leaves(t) ==
    /\ tokens' = [tokens EXCEPT ![t] = NoTokens]
    /\ active' = LeftTenant(t)

\* window.location.href: the scripts go on until the tab arrives, which ends them.
Departs(t, d) == leaving' = [leaving EXCEPT ![t] = d]
KeepsScripts(t) == UNCHANGED call
Unloads(t) == call' = [c \in Calls |-> IF TabOf[c] = t THEN NoCall ELSE call[c]]

\* setActiveTenant
Chooses(t, a) ==
    /\ active' = a
    /\ alone' = IF leaving[t] = "none" THEN alone \cap {t} ELSE {}

\* The first interceptor: what a request is sent with, at the first time and again.
Stamped(q, own, t) ==
    [q EXCEPT !.pc = "sent", !.user = own.user, !.fresh = (own.access = "fresh"),
              !.tenant = IF q.kind = "bucket" /\ active # NoTenant THEN active ELSE q.tenant]

Sends(c, kind, asked) ==
    /\ call[c] = NoCall
    /\ call' = [call EXCEPT ![c] =
                  Stamped([NoCall EXCEPT !.kind = kind, !.asked = asked],
                          tokens[TabOf[c]], TabOf[c])]

-----------------------------------------------------------------------------
(* Pages *)

StartLogin(t) ==
    /\ page[t] = "login"
    /\ Leaves(t) /\ Departs(t, "authentik")
    /\ UNCHANGED <<server, session, pending, page, choice, call, troubles, alone>>

Arrives(t) ==
    /\ leaving[t] # "none"
    /\ Unloads(t) /\ Goes(t, leaving[t]) /\ Departs(t, "none")
    /\ alone' = IF leaving[t] = "authentik" /\ active = NoTenant /\ t \notin AdminTabs
                THEN alone \cup {t} ELSE alone
    /\ UNCHANGED <<server, session, active, pending, tokens, troubles>>

\* The pipeline ran; AuthCallback exchanges its session as soon as it shows.
AuthCallback(c, u) ==
    LET t == TabOf[c] IN
    /\ page[t] = "authentik" /\ u \in enabled
    /\ session' = u
    /\ Goes(t, "callback")
    /\ Sends(c, "exchange", NoTenant)
    /\ UNCHANGED <<server, active, pending, tokens, troubles, alone, leaving>>

\* OAuthExceptionRedirectMiddleware; Login logs out on auth_error.
OAuthFails(t) ==
    /\ page[t] = "authentik"
    /\ Leaves(t) /\ Goes(t, "login")
    /\ UNCHANGED <<server, session, pending, call, troubles, alone, leaving>>

\* TenantSelectorPage: a chosen tenant will do, else a list left by a callback,
\* else the user's tenants are asked for.
SelectorOpens(t) ==
    /\ page[t] = "select"
    /\ \/ active # NoTenant /\ Goes(t, "app") /\ UNCHANGED <<pending, call>>
       \/ /\ active = NoTenant /\ pending # {}
          /\ GoesToChoose(t, pending) /\ pending' = {}
          /\ UNCHANGED call
       \/ /\ active = NoTenant /\ pending = {} /\ GoesToChoose(t, {})
          /\ \E c \in CallsOf(t) : Sends(c, "tenants", NoTenant)
          /\ UNCHANGED pending
    /\ UNCHANGED <<server, session, active, tokens, troubles, alone, leaving>>

SelectTenant(c, a) ==
    LET t == TabOf[c] IN
    /\ page[t] = "choose" /\ a \in choice[t]
    /\ \A d \in CallsOf(t) : call[d].kind # "select"
    /\ Sends(c, "select", a)
    /\ UNCHANGED <<server, session, active, pending, page, leaving, choice, tokens, troubles,
                   alone>>

\* The pages of the application and of the admin panel load and save.
PageCalls(c) ==
    LET t == TabOf[c] IN
    /\ page[t] = "app"
    /\ \E kind \in IF t \in AdminTabs THEN {"admin"} ELSE {"bucket"} :
         Sends(c, kind, NoTenant)
    /\ UNCHANGED <<server, session, active, pending, page, leaving, choice, tokens, troubles,
                   alone>>

\* Within one document: calls go on.
SwitchTenant(t) ==
    /\ page[t] = "app" /\ t \notin AdminTabs /\ active # NoTenant
    /\ active' = NoTenant
    /\ Goes(t, "select")
    /\ UNCHANGED <<server, session, pending, tokens, call, troubles, alone, leaving>>

Logout(t) ==
    /\ page[t] = "app"
    /\ Leaves(t) /\ Goes(t, "login")
    /\ UNCHANGED <<server, session, pending, call, troubles, alone, leaving>>

\* Login sends a tab with an access token on.
Revisit(t) ==
    /\ page[t] = "login" /\ tokens[t].access # "none"
    /\ Goes(t, "app")
    /\ UNCHANGED <<server, session, active, pending, tokens, call, troubles, alone, leaving>>

-----------------------------------------------------------------------------
(* The server *)

\* JWTAuthentication, then, without a token, SessionAuthentication.
Who(q) == IF q.user = Nobody THEN IF session \in enabled THEN session ELSE Nobody
          ELSE IF q.fresh /\ q.user \in enabled THEN q.user ELSE Nobody

\* exchange_token, select_tenant, current_user, for the user they found.
Allowed(q, admin, u) ==
    CASE q.kind = "exchange" -> IF admin THEN u \in Staff ELSE access[u] # {}
      [] q.kind = "select"   -> q.asked \in access[u]
      [] OTHER               -> TRUE

\* What pages load and save, or fail to: of the answers only one that makes
\* the interceptor refresh changes anything modelled here.
OfPage(q) == q.kind \in {"bucket", "admin"}

Answer(q, admin) ==
    LET u == Who(q) IN
    IF OfPage(q) /\ (u # Nobody \/ q.retried) THEN NoCall
    ELSE IF u = Nobody
    THEN [q EXCEPT !.pc = "answered", !.answer = "unauthorized",
                   !.user = Nobody, !.fresh = FALSE]
    ELSE IF ~Allowed(q, admin, u)
    THEN [NoCall EXCEPT !.pc = "answered", !.answer = "refused", !.kind = q.kind]
    ELSE [NoCall EXCEPT !.pc = "answered", !.answer = "ok", !.kind = q.kind,
                        !.asked = q.asked,
                        !.user = IF q.kind = "exchange" THEN u ELSE Nobody,
                        !.offer = IF q.kind \in {"exchange", "tenants"}
                                  THEN access[u] ELSE {}]

\* The user's exchange ends the session, the administrator's prolongs it.
Serve(c) ==
    LET q == call[c]  admin == TabOf[c] \in AdminTabs  r == Answer(q, admin) IN
    /\ q.pc = "sent"
    /\ call' = [call EXCEPT ![c] = r]
    /\ session' = IF q.kind = "exchange" /\ r.answer = "ok" /\ ~admin THEN Nobody
                  ELSE session
    /\ UNCHANGED <<server, active, pending, page, leaving, choice, tokens, troubles, alone>>

-----------------------------------------------------------------------------
(* Answers *)

Done(c) == call' = [call EXCEPT ![c] = NoCall]

\* One tenant is chosen at once; of several, the user will choose.
Enters(t, offer) ==
    IF Cardinality(offer) = 1
    THEN /\ Chooses(t, CHOOSE a \in offer : TRUE) /\ Goes(t, "app")
         /\ UNCHANGED pending
    ELSE /\ pending' = offer /\ Goes(t, "select")
         /\ UNCHANGED <<active, alone>>

Exchanged(c) ==
    LET q == call[c]  t == TabOf[c] IN
    /\ HandsOver(q)
    /\ tokens' = [tokens EXCEPT ![t] =
                     [user |-> q.user, access |-> "fresh", refresh |-> "fresh"]]
    /\ IF t \in AdminTabs
       THEN Goes(t, "app") /\ UNCHANGED <<active, alone, pending>>
       ELSE Enters(t, q.offer)
    /\ Done(c)
    /\ UNCHANGED <<server, session, troubles, leaving>>

TenantSelected(c) ==
    LET q == call[c]  t == TabOf[c] IN
    /\ q.pc = "answered" /\ q.kind = "select" /\ q.answer = "ok"
    /\ Chooses(t, q.asked) /\ Goes(t, "app") /\ Done(c)
    /\ UNCHANGED <<server, session, pending, tokens, troubles, leaving>>

\* Without any tenant, to the login page, but with the tokens.
TenantsLoaded(c) ==
    LET q == call[c]  t == TabOf[c] IN
    /\ q.pc = "answered" /\ q.kind = "tenants" /\ q.answer = "ok"
    /\ IF Cardinality(q.offer) = 1
       THEN Chooses(t, CHOOSE a \in q.offer : TRUE) /\ Goes(t, "app")
       ELSE IF q.offer = {} THEN Goes(t, "login") /\ UNCHANGED <<active, alone>>
       ELSE GoesToChoose(t, q.offer) /\ UNCHANGED <<active, alone>>
    /\ Done(c)
    /\ UNCHANGED <<server, session, pending, tokens, troubles, leaving>>

\* Where an error leaves the page that made the call.
AfterError(q, t) ==
    CASE q.kind = "exchange" -> "login"
      [] q.kind = "tenants" /\ page[t] = "choose" -> "login"
      [] OTHER -> page[t]

\* The interceptor refreshes once per request, and not for adminAPI.exchangeToken.
AlwaysRefreshes(q, t) == q.answer = "unauthorized"
Refreshes(q, t) == /\ q.answer = "unauthorized" /\ ~q.retried
                   /\ ~(q.kind = "exchange" /\ t \in AdminTabs)

\* An error goes to the page, at a network failure without an answer.
Settles(c) ==
    LET q == call[c]  t == TabOf[c] IN
    /\ \/ /\ q.pc = "answered" /\ ~Refreshes(q, t) /\ UNCHANGED troubles
          /\ q.answer # "ok" /\ Goes(t, AfterError(q, t))
       \/ q.pc \in {"sent", "answered"} /\ ~OfPage(q) /\ Trouble /\ Goes(t, AfterError(q, t))
    /\ Done(c)
    /\ UNCHANGED <<server, session, active, pending, tokens, alone, leaving>>

Unauthorized(c) ==
    LET q == call[c]  t == TabOf[c] IN
    /\ q.pc = "answered" /\ Refreshes(q, t) /\ tokens[t].refresh # "none"
    /\ call' = [call EXCEPT ![c] =
                   [q EXCEPT !.pc = "refreshing", !.retried = TRUE, !.answer = "none",
                             !.user = tokens[t].user, !.fresh = (tokens[t].refresh = "fresh")]]
    /\ UNCHANGED <<server, session, active, pending, page, leaving, choice, tokens, troubles,
                   alone>>

\* TokenRefreshView rotates, but the old refresh token stays good; the
\* interceptor keeps it and takes the access token alone.
BlackLists(refresh) == "stale"
AfterRotation(refresh) == refresh

Renewed(c) ==
    LET q == call[c]  t == TabOf[c]
        own == [user |-> q.user, access |-> "fresh",
                refresh |-> AfterRotation(tokens[t].refresh)]
    IN
    /\ q.pc = "refreshing" /\ q.fresh
    /\ tokens' = [tokens EXCEPT ![t] = own]
    /\ call' = [call EXCEPT ![c] = Stamped(q, own, t)]
    /\ UNCHANGED <<server, session, active, pending, page, leaving, choice, troubles, alone>>

\* No refresh token, or it is refused: to the login page of its own document.
LoggedOut(c) ==
    LET q == call[c]  t == TabOf[c] IN
    /\ \/ q.pc = "answered" /\ Refreshes(q, t) /\ tokens[t].refresh = "none" /\ UNCHANGED troubles
       \/ q.pc = "refreshing" /\ ~q.fresh /\ UNCHANGED troubles
       \/ q.pc = "refreshing" /\ Trouble
    /\ Leaves(t) /\ Departs(t, "login") /\ Goes(t, AfterError(q, t)) /\ Done(c)
    /\ UNCHANGED <<server, session, pending, alone>>

-----------------------------------------------------------------------------
(* Time and administrators *)

AccessExpires(t) ==
    /\ tokens[t].access = "fresh"
    /\ Trouble
    /\ tokens' = [tokens EXCEPT ![t] = [@ EXCEPT !.access = "stale"]]
    /\ call' = [c \in Calls |-> IF TabOf[c] = t /\ call[c].pc = "sent"
                                THEN [call[c] EXCEPT !.fresh = FALSE] ELSE call[c]]
    /\ UNCHANGED <<server, session, active, pending, page, leaving, choice, alone>>

RefreshExpires(t) ==
    /\ tokens[t].refresh = "fresh"
    /\ Trouble
    /\ tokens' = [tokens EXCEPT ![t] = [@ EXCEPT !.refresh = "stale"]]
    /\ call' = [c \in Calls |-> IF TabOf[c] = t /\ call[c].pc = "refreshing"
                                THEN [call[c] EXCEPT !.fresh = FALSE] ELSE call[c]]
    /\ UNCHANGED <<server, session, active, pending, page, leaving, choice, alone>>

SessionExpires ==
    /\ session # Nobody /\ session' = Nobody
    /\ Trouble
    /\ UNCHANGED <<server, active, pending, page, leaving, choice, tokens, call, alone>>

\* Mappings, memberships and accounts change under way.
AccessChanges(u) ==
    /\ u \in Volatile /\ Trouble
    /\ \/ enabled' = enabled \ {u} /\ u \in enabled /\ UNCHANGED access
       \/ /\ \E a \in Usable[u] :
               access' = [access EXCEPT ![u] = IF a \in @ THEN @ \ {a} ELSE @ \cup {a}]
          /\ UNCHANGED enabled
    /\ UNCHANGED <<session, active, pending, page, leaving, choice, tokens, call, alone>>

CallStep(c) == /\ call[c].pc # "idle"
               /\ \/ Serve(c) \/ Exchanged(c) \/ TenantSelected(c) \/ TenantsLoaded(c)
                  \/ Settles(c) \/ Unauthorized(c) \/ Renewed(c) \/ LoggedOut(c)

Next ==
    \/ \E t \in Tabs : \/ StartLogin(t) \/ Arrives(t) \/ OAuthFails(t) \/ SelectorOpens(t)
                       \/ SwitchTenant(t) \/ Logout(t) \/ Revisit(t)
                       \/ AccessExpires(t) \/ RefreshExpires(t)
    \/ \E c \in Calls : \/ PageCalls(c) \/ CallStep(c)
                        \/ \E u \in Users : AuthCallback(c, u)
                        \/ \E a \in Tenants : SelectTenant(c, a)
    \/ SessionExpires
    \/ \E u \in Users : AccessChanges(u)

Spec == Init /\ [][Next]_vars

(***************************************************************************)
(* Fairness: the server answers or the browser gives up, and scripts run.  *)
(* Nobody needs to log in, choose or load a page.                          *)
(***************************************************************************)
FairSpec == Spec /\ \A c \in Calls : WF_call(CallStep(c))

-----------------------------------------------------------------------------
(* Properties *)

\* An expired access token never costs a session, however many calls of a tab
\* meet it at once: a tab gives a good refresh token up only when its user
\* leaves or the renewal itself fails on the way (api.ts:80-105).
SessionsLast ==
    [][\A t \in Tabs :
         tokens[t].refresh = "fresh" /\ tokens'[t].refresh # "fresh" =>
         Logout(t) \/ StartLogin(t) \/ RefreshExpires(t) \/ troubles' < troubles]_vars

\* A tab that came to Authentik with no tenant active, and where since then only
\* its own staying pages chose one, asks what it asks of buckets with a user's
\* token of a tenant that this user could use: no tenant, selector list or late
\* answer of an earlier user of the tab gets into it.
TenantIsOwn ==
    \A c \in Calls : call[c].pc = "sent" /\ call[c].kind = "bucket" /\
                     call[c].user \in Users /\
                     TabOf[c] \in alone /\ call[c].tenant # NoTenant =>
                     call[c].tenant \in Usable[call[c].user]

\* Every call ends, and frees its place again, also that of a user whose account
\* was disabled, whom every answer calls unauthorized and every refresh gives
\* another token.
CallsEnd == \A c \in Calls : []<>(call[c].pc = "idle")
=============================================================================
