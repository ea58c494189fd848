----------------------------- MODULE SessionProofs -----------------------------
(***************************************************************************)
(* Proofs about Session: its type invariant, that no request carries the   *)
(* tenant of another user, and that expired access tokens cost no session. *)
(***************************************************************************)
EXTENDS Session, FiniteSetTheorems, TLAPS

-----------------------------------------------------------------------------
(* Types *)

\* The tokens and calls that TypeOK speaks of.
GoodTokens(own) ==
    /\ own \in Tokens
    /\ own.refresh # "none" => own.access # "none"
    /\ own.access # "none" => own.user \in Users
GoodCall(q) == q \in Call /\ (q.pc = "refreshing" \/ HandsOver(q) => q.user \in Users)

\* What a request is stamped with is typed.
LEMMA StampedType ==
    ASSUME TypeOK, NEW q \in Call, NEW own \in Tokens, NEW t \in Tabs
    PROVE  Stamped(q, own, t) \in Call
BY SessionAssumption DEF TypeOK, Stamped, Call, Tokens

\* The one who is answered is a user or nobody.
LEMMA WhoType ==
    ASSUME TypeOK, NEW q \in Call
    PROVE  Who(q) \in Users \cup {Nobody}
BY DEF TypeOK, Who, Call

\* The answers there are.
Rejected(q) == [q EXCEPT !.pc = "answered", !.answer = "unauthorized",
                         !.user = Nobody, !.fresh = FALSE]
Forbidden(q) == [NoCall EXCEPT !.pc = "answered", !.answer = "refused", !.kind = q.kind]
Named(q, u) == IF q.kind = "exchange" THEN u ELSE Nobody
Offered(q, u) == IF q.kind \in {"exchange", "tenants"} THEN access[u] ELSE {}
Accepted(q, u) == [NoCall EXCEPT !.pc = "answered", !.answer = "ok", !.kind = q.kind,
                                 !.asked = q.asked, !.user = Named(q, u), !.offer = Offered(q, u)]

LEMMA AnswerCases ==
    ASSUME NEW q, NEW admin
    PROVE  \/ Answer(q, admin) = NoCall /\ OfPage(q)
           \/ Answer(q, admin) \in {Rejected(q), Forbidden(q)}
           \/ /\ Answer(q, admin) = Accepted(q, Who(q))
              /\ Who(q) # Nobody /\ Allowed(q, admin, Who(q))
BY DEF Answer, Rejected, Forbidden, Accepted, Named, Offered

\* Who a request is accepted for is named to a login only, and is offered tenants
\* that a login or selector asked for.
LEMMA AcceptedFields ==
    ASSUME TypeOK, NEW q \in Call, NEW u \in Users
    PROVE  /\ Accepted(q, u) \in Call
           /\ LET r == Accepted(q, u) IN
              /\ r.pc = "answered" /\ r.kind = q.kind /\ r.asked = q.asked /\ r.answer = "ok"
              /\ r.tenant = NoTenant
              /\ r.user = Named(q, u) /\ r.offer = Offered(q, u)
<1>1. Named(q, u) \in Users \cup {Nobody} /\ Offered(q, u) \in SUBSET Tenants
  BY DEF TypeOK, Named, Offered
<1> QED
  BY <1>1 DEF Accepted, NoCall, Call

LEMMA RefusalFields ==
    ASSUME NEW q \in Call
    PROVE  /\ Rejected(q) \in Call /\ Forbidden(q) \in Call
           /\ LET r == Rejected(q) IN
              /\ r.pc = "answered" /\ r.kind = q.kind /\ r.answer = "unauthorized"
              /\ r.user = Nobody /\ r.tenant = q.tenant /\ r.offer = q.offer
           /\ LET r == Forbidden(q) IN
              /\ r.pc = "answered" /\ r.kind = q.kind /\ r.answer = "refused"
              /\ r.user = Nobody /\ r.tenant = NoTenant /\ r.offer = {}
BY DEF Rejected, Forbidden, NoCall, Call

\* An answer is a call, and one that hands over names a user.
LEMMA AnswerType ==
    ASSUME TypeOK, NEW q \in Call, NEW admin \in BOOLEAN
    PROVE  GoodCall(Answer(q, admin))
<1>1. Who(q) # Nobody => Who(q) \in Users
  BY WhoType
<1>2. Who(q) \in Users => GoodCall(Accepted(q, Who(q)))
  BY AcceptedFields DEF GoodCall, HandsOver, Named
<1>3. GoodCall(Rejected(q)) /\ GoodCall(Forbidden(q))
  BY RefusalFields DEF GoodCall, HandsOver
<1>4. GoodCall(NoCall)
  BY DEF GoodCall, HandsOver, NoCall, Call
<1> QED
  BY <1>1, <1>2, <1>3, <1>4, AnswerCases

LEMMA TypeInit == Init => TypeOK
BY SessionAssumption DEF Init, TypeOK, HandsOver, Pages, Documents, Tokens, Token, NoTokens, NoCall, Call

\* Nothing but pages, tokens and calls has a type that is not obvious.
LEMMA TypeFrame ==
    ASSUME TypeOK, UNCHANGED <<access, enabled>>, session' \in Users \cup {Nobody},
           active' \in Tenants \cup {NoTenant}, pending' \subseteq Tenants,
           page' \in [Tabs -> Pages], leaving' \in [Tabs -> Documents],
           choice' \in [Tabs -> SUBSET Tenants], tokens' \in [Tabs -> Tokens], \A t \in Tabs : GoodTokens(tokens[t])',
           call' \in [Calls -> Call], \A c \in Calls : GoodCall(call[c])',
           troubles' \in Nat, alone' \subseteq Tabs \ AdminTabs
    PROVE  TypeOK'
BY DEF TypeOK, GoodTokens, GoodCall

\* The pieces that the actions are made of.
LEMMA GoesType ==
    ASSUME TypeOK, NEW t \in Tabs, NEW p \in Pages, Goes(t, p)
    PROVE  page' \in [Tabs -> Pages] /\ choice' \in [Tabs -> SUBSET Tenants]
BY DEF TypeOK, Goes

LEMMA DepartsType ==
    ASSUME TypeOK, NEW t \in Tabs, NEW d \in Documents, Departs(t, d)
    PROVE  leaving' \in [Tabs -> Documents]
BY DEF TypeOK, Departs

LEMMA OneTabType ==
    ASSUME TypeOK, NEW t \in Tabs, NEW own, GoodTokens(own), tokens' = [tokens EXCEPT ![t] = own]
    PROVE  tokens' \in [Tabs -> Tokens] /\ \A s \in Tabs : GoodTokens(tokens[s])'
<1>1. \A s \in Tabs : GoodTokens(tokens[s])
  BY DEF TypeOK, GoodTokens
<1>2. own \in Tokens /\ tokens \in [Tabs -> Tokens]
  BY DEF TypeOK, GoodTokens
<1> QED
  BY <1>1, <1>2

LEMMA LeavesType ==
    ASSUME TypeOK, NEW t \in Tabs, Leaves(t)
    PROVE  /\ tokens' \in [Tabs -> Tokens] /\ \A s \in Tabs : GoodTokens(tokens[s])'
           /\ active' \in Tenants \cup {NoTenant}
<1>1. GoodTokens(NoTokens)
  BY DEF GoodTokens, NoTokens, Tokens, Token
<1>2. tokens' = [tokens EXCEPT ![t] = NoTokens]
  BY DEF Leaves
<1>3. active' \in Tenants \cup {NoTenant}
  BY DEF TypeOK, Leaves, LeftTenant
<1> QED
  BY <1>1, <1>2, <1>3, OneTabType

LEMMA OneCallType ==
    ASSUME TypeOK, NEW c \in Calls, NEW q, GoodCall(q), call' = [call EXCEPT ![c] = q]
    PROVE  call' \in [Calls -> Call] /\ \A d \in Calls : GoodCall(call[d])'
BY DEF TypeOK, GoodCall

LEMMA NoCallGood == GoodCall(NoCall)
BY DEF GoodCall, HandsOver, NoCall, Call

LEMMA UnloadsType ==
    ASSUME TypeOK, NEW t \in Tabs, Unloads(t)
    PROVE  call' \in [Calls -> Call] /\ \A d \in Calls : GoodCall(call[d])'
BY NoCallGood DEF TypeOK, GoodCall, Unloads

LEMMA SendsType ==
    ASSUME TypeOK, NEW c \in Calls, NEW kind \in {"exchange", "select", "tenants", "bucket", "admin"},
           NEW asked \in Tenants \cup {NoTenant}, Sends(c, kind, asked)
    PROVE  call' \in [Calls -> Call] /\ \A d \in Calls : GoodCall(call[d])'
<1> DEFINE q == [NoCall EXCEPT !.kind = kind, !.asked = asked]
           r == Stamped(q, tokens[TabOf[c]], TabOf[c])
<1>1. q \in Call
  BY DEF NoCall, Call
<1>2. TabOf[c] \in Tabs /\ tokens[TabOf[c]] \in Tokens
  BY SessionAssumption DEF TypeOK
<1>3. r \in Call
  BY <1>1, <1>2, StampedType
<1>4. r.pc = "sent"
  BY <1>1 DEF Stamped, Call
<1>5. GoodCall(r)
  BY <1>3, <1>4 DEF GoodCall, HandsOver
<1>6. call' = [call EXCEPT ![c] = r]
  BY DEF Sends
<1> QED
  BY <1>5, <1>6, OneCallType

\* Steps of pages.
LEMMA TypePages ==
    ASSUME TypeOK, NEW t \in Tabs,
           \/ StartLogin(t) \/ Arrives(t) \/ OAuthFails(t) \/ SelectorOpens(t)
           \/ SwitchTenant(t) \/ Logout(t) \/ Revisit(t)
    PROVE  TypeOK'
<1> USE DEF TypeOK, GoodTokens, GoodCall, server
<1>1. CASE StartLogin(t)
  BY <1>1, LeavesType, DepartsType, TypeFrame DEF StartLogin, Documents
<1>7. CASE Arrives(t)
  <2>1. leaving[t] \in Pages
    BY <1>7 DEF Arrives, Documents, Pages
  <2>2. alone' \subseteq Tabs \ AdminTabs
    BY <1>7 DEF Arrives
  <2> QED
    BY <1>7, <2>1, <2>2, UnloadsType, GoesType, DepartsType, TypeFrame DEF Arrives, Documents
<1>2. CASE OAuthFails(t)
  BY <1>2, LeavesType, GoesType, TypeFrame DEF OAuthFails, Pages
<1>3. CASE SelectorOpens(t)
  <2>1. CASE Goes(t, "app") /\ UNCHANGED <<pending, call>>
    BY <1>3, <2>1, GoesType, TypeFrame DEF SelectorOpens, Pages
  <2>2. CASE GoesToChoose(t, pending) /\ pending' = {} /\ UNCHANGED call
    BY <1>3, <2>2, TypeFrame DEF SelectorOpens, GoesToChoose, Pages
  <2>3. CASE /\ GoesToChoose(t, {}) /\ UNCHANGED pending
             /\ \E c \in CallsOf(t) : Sends(c, "tenants", NoTenant)
    BY <1>3, <2>3, SendsType, TypeFrame DEF SelectorOpens, GoesToChoose, Pages, CallsOf
  <2> QED
    BY <1>3, <2>1, <2>2, <2>3 DEF SelectorOpens
<1>4. CASE SwitchTenant(t)
  BY <1>4, GoesType, TypeFrame DEF SwitchTenant, Pages
<1>5. CASE Logout(t)
  BY <1>5, LeavesType, GoesType, TypeFrame DEF Logout, Pages
<1>6. CASE Revisit(t)
  BY <1>6, GoesType, TypeFrame DEF Revisit, Pages
<1> QED
  BY <1>1, <1>2, <1>3, <1>4, <1>5, <1>6, <1>7

\* Requests and what the server answers.
LEMMA TypeSends ==
    ASSUME TypeOK, NEW c \in Calls,
           \/ \E u \in Users : AuthCallback(c, u)
           \/ \E a \in Tenants : SelectTenant(c, a)
           \/ PageCalls(c) \/ Serve(c)
    PROVE  TypeOK'
<1> USE DEF TypeOK, GoodTokens, GoodCall, server
<1>0. TabOf[c] \in Tabs
  BY SessionAssumption
<1>1. ASSUME NEW u \in Users, AuthCallback(c, u) PROVE TypeOK'
  BY <1>0, <1>1, SendsType, GoesType, TypeFrame DEF AuthCallback, Pages
<1>2. ASSUME NEW a \in Tenants, SelectTenant(c, a) PROVE TypeOK'
  BY <1>2, SendsType, TypeFrame DEF SelectTenant
<1>3. CASE PageCalls(c)
  BY <1>3, SendsType, TypeFrame DEF PageCalls
<1>4. CASE Serve(c)
  <2> DEFINE r == Answer(call[c], TabOf[c] \in AdminTabs)
  <2>1. GoodCall(r)
    <3>1. call[c] \in Call /\ (TabOf[c] \in AdminTabs) \in BOOLEAN
      OBVIOUS
    <3> QED
      BY <3>1, AnswerType
  <2>3. session' \in Users \cup {Nobody}
    BY <1>4 DEF Serve
  <2>4. call' = [call EXCEPT ![c] = r]
    BY <1>4 DEF Serve
  <2> HIDE DEF r
  <2>5. call' \in [Calls -> Call] /\ \A d \in Calls : GoodCall(call[d])'
    BY <2>1, <2>4, OneCallType
  <2> QED
    BY <1>4, <2>3, <2>5, TypeFrame DEF Serve
<1> QED
  BY <1>1, <1>2, <1>3, <1>4

LEMMA DoneType ==
    ASSUME TypeOK, NEW c \in Calls, Done(c)
    PROVE  call' \in [Calls -> Call] /\ \A d \in Calls : GoodCall(call[d])'
BY OneCallType, NoCallGood DEF Done

\* Where the pages go after an answer is a page.
LEMMA AfterErrorType ==
    ASSUME TypeOK, NEW q, NEW t \in Tabs
    PROVE  AfterError(q, t) \in Pages
BY DEF TypeOK, AfterError, Pages

\* The one tenant of an offer is a tenant.
LEMMA OnlyOne ==
    ASSUME NEW S, Cardinality(S) = 1
    PROVE  (CHOOSE a \in S : TRUE) \in S
<1>1. S # {}
  BY FS_EmptySet
<1> QED
  BY <1>1

\* Who leaves, answers and goes on.
LEMMA TypeAnswers ==
    ASSUME TypeOK, NEW c \in Calls,
           \/ Exchanged(c) \/ TenantSelected(c) \/ TenantsLoaded(c) \/ Settles(c)
           \/ Unauthorized(c) \/ Renewed(c) \/ LoggedOut(c)
    PROVE  TypeOK'
<1> USE DEF TypeOK, GoodTokens, GoodCall, server
<1> DEFINE q == call[c]
           t == TabOf[c]
<1>0. t \in Tabs /\ q \in Call
  BY SessionAssumption
<1>1. CASE Exchanged(c)
  <2>1. q.user \in Users /\ q.offer \subseteq Tenants
    BY <1>0, <1>1 DEF Exchanged, Call
  <2>2. tokens' \in [Tabs -> Tokens] /\ \A s \in Tabs : GoodTokens(tokens[s])'
    <3>1. GoodTokens([user |-> q.user, access |-> "fresh", refresh |-> "fresh"])
      BY <2>1 DEF Tokens, Token
    <3>2. tokens' = [tokens EXCEPT ![t] = [user |-> q.user, access |-> "fresh", refresh |-> "fresh"]]
      BY <1>1 DEF Exchanged
    <3> HIDE DEF GoodTokens
    <3> QED
      BY <1>0, <3>1, <3>2, OneTabType
  <2>3. call' \in [Calls -> Call] /\ \A d \in Calls : GoodCall(call[d])'
    BY <1>1, DoneType DEF Exchanged
  <2>4. CASE t \in AdminTabs
    BY <1>0, <1>1, <2>2, <2>3, <2>4, GoesType, TypeFrame DEF Exchanged, Pages
  <2>5. CASE t \notin AdminTabs /\ Cardinality(q.offer) = 1
    <3>1. (CHOOSE a \in q.offer : TRUE) \in Tenants
      BY <2>1, <2>5, OnlyOne
    <3> QED
      BY <1>0, <1>1, <2>2, <2>3, <2>5, <3>1, GoesType, TypeFrame DEF Exchanged, Enters, Chooses, Pages
  <2>6. CASE t \notin AdminTabs /\ Cardinality(q.offer) # 1
    BY <1>0, <1>1, <2>1, <2>2, <2>3, <2>6, GoesType, TypeFrame DEF Exchanged, Enters, Pages
  <2> QED
    BY <2>4, <2>5, <2>6
<1>2. CASE TenantSelected(c)
  <2>1. q.asked \in Tenants \cup {NoTenant}
    BY <1>0 DEF Call
  <2> QED
    BY <1>0, <1>2, <2>1, DoneType, GoesType, TypeFrame DEF TenantSelected, Chooses, Pages
<1>3. CASE TenantsLoaded(c)
  <2>1. q.offer \subseteq Tenants
    BY <1>0 DEF Call
  <2>2. call' \in [Calls -> Call] /\ \A d \in Calls : GoodCall(call[d])'
    BY <1>3, DoneType DEF TenantsLoaded
  <2>3. CASE Cardinality(q.offer) = 1
    <3>1. (CHOOSE a \in q.offer : TRUE) \in Tenants
      BY <2>1, <2>3, OnlyOne
    <3> QED
      BY <1>0, <1>3, <2>2, <2>3, <3>1, GoesType, TypeFrame DEF TenantsLoaded, Chooses, Pages
  <2>4. CASE Cardinality(q.offer) # 1 /\ q.offer = {}
    BY <1>0, <1>3, <2>2, <2>4, GoesType, TypeFrame DEF TenantsLoaded, Pages
  <2>5. CASE Cardinality(q.offer) # 1 /\ q.offer # {}
    BY <1>0, <1>3, <2>1, <2>2, <2>5, TypeFrame DEF TenantsLoaded, GoesToChoose, Pages
  <2> QED
    BY <2>3, <2>4, <2>5
<1>4. CASE Settles(c)
  <2>1. Goes(t, AfterError(q, t)) /\ troubles' \in Nat
    BY <1>4 DEF Settles, Trouble
  <2> QED
    BY <1>0, <1>4, <2>1, AfterErrorType, DoneType, GoesType, TypeFrame DEF Settles
<1>5. CASE Unauthorized(c)
  <2> DEFINE r == [q EXCEPT !.pc = "refreshing", !.retried = TRUE, !.answer = "none",
                           !.user = tokens[t].user, !.fresh = (tokens[t].refresh = "fresh")]
  <2>1. tokens[t].user \in Users
    <3>1. tokens[t].refresh # "none"
      BY <1>5 DEF Unauthorized
    <3>2. tokens[t].access # "none"
      BY <1>0, <3>1
    <3> QED
      BY <1>0, <3>2
  <2>2. GoodCall(r)
    BY <1>0, <2>1 DEF Call, HandsOver
  <2> QED
    BY <1>5, <2>2, OneCallType, TypeFrame DEF Unauthorized
<1>6. CASE Renewed(c)
  <2> DEFINE own == [user |-> q.user, access |-> "fresh",
                     refresh |-> AfterRotation(tokens[t].refresh)]
             r == Stamped(q, own, t)
  <2>1. q.user \in Users /\ tokens[t] \in Tokens
    BY <1>0, <1>6 DEF Renewed
  <2>2. GoodTokens(own)
    BY <2>1 DEF AfterRotation, Tokens, Token
  <2>3. r \in Call
    BY <1>0, <2>2, StampedType
  <2>4. GoodCall(r)
    BY <1>0, <2>3 DEF Stamped, HandsOver, Call
  <2>5. tokens' = [tokens EXCEPT ![t] = own] /\ call' = [call EXCEPT ![c] = r]
    BY <1>6 DEF Renewed
  <2> HIDE DEF own, r
  <2>6. call' \in [Calls -> Call] /\ \A d \in Calls : GoodCall(call[d])'
    BY <2>4, <2>5, OneCallType
  <2>7. tokens' \in [Tabs -> Tokens] /\ \A s \in Tabs : GoodTokens(tokens[s])'
    <3> HIDE DEF GoodTokens
    <3> QED
      BY <1>0, <2>2, <2>5, OneTabType
  <2> QED
    BY <1>6, <2>6, <2>7, TypeFrame DEF Renewed
<1>7. CASE LoggedOut(c)
  <2>1. troubles' \in Nat
    BY <1>7 DEF LoggedOut, Trouble
  <2> QED
    BY <1>0, <1>7, <2>1, LeavesType, DoneType, AfterErrorType, GoesType, DepartsType, TypeFrame
       DEF LoggedOut, Documents
<1> QED
  BY <1>1, <1>2, <1>3, <1>4, <1>5, <1>6, <1>7

\* Time and administrators.
LEMMA TypeTroubles ==
    ASSUME TypeOK,
           \/ \E t \in Tabs : AccessExpires(t) \/ RefreshExpires(t)
           \/ SessionExpires \/ \E u \in Users : AccessChanges(u)
    PROVE  TypeOK'
<1> USE DEF TypeOK, server, Trouble
<1>1. ASSUME NEW t \in Tabs, AccessExpires(t) PROVE TypeOK'
  <2>1. \A c \in Calls : GoodCall(call[c])'
    <3> TAKE c \in Calls
    <3>1. call[c] \in Call /\ GoodCall(call[c])
      BY DEF GoodCall
    <3>2. call'[c] \in {call[c], [call[c] EXCEPT !.fresh = FALSE]}
      BY <1>1 DEF AccessExpires
    <3> QED
      BY <3>1, <3>2 DEF GoodCall, HandsOver, Call
  <2>2. \A s \in Tabs : GoodTokens(tokens[s])'
    <3> DEFINE own == [tokens[t] EXCEPT !.access = "stale"]
    <3>1. tokens[t] \in Tokens /\ GoodTokens(tokens[t]) /\ tokens[t].access # "none"
      BY <1>1 DEF GoodTokens, AccessExpires
    <3>2. GoodTokens(own)
      BY <3>1 DEF GoodTokens, Tokens, Token
    <3>3. tokens' = [tokens EXCEPT ![t] = own]
      BY <1>1 DEF AccessExpires
    <3> HIDE DEF own
    <3> QED
      BY <3>2, <3>3, OneTabType
  <2> QED
    BY <1>1, <2>1, <2>2, TypeFrame DEF AccessExpires, GoodTokens, GoodCall, Tokens, Token
<1>2. ASSUME NEW t \in Tabs, RefreshExpires(t) PROVE TypeOK'
  <2>1. \A c \in Calls : GoodCall(call[c])'
    <3> TAKE c \in Calls
    <3>1. call[c] \in Call /\ GoodCall(call[c])
      BY DEF GoodCall
    <3>2. call'[c] \in {call[c], [call[c] EXCEPT !.fresh = FALSE]}
      BY <1>2 DEF RefreshExpires
    <3> QED
      BY <3>1, <3>2 DEF GoodCall, HandsOver, Call
  <2>2. \A s \in Tabs : GoodTokens(tokens[s])'
    <3> DEFINE own == [tokens[t] EXCEPT !.refresh = "stale"]
    <3>1. tokens[t] \in Tokens /\ GoodTokens(tokens[t]) /\ tokens[t].refresh # "none"
      BY <1>2 DEF GoodTokens, RefreshExpires
    <3>2. GoodTokens(own)
      BY <3>1 DEF GoodTokens, Tokens, Token
    <3>3. tokens' = [tokens EXCEPT ![t] = own]
      BY <1>2 DEF RefreshExpires
    <3> HIDE DEF own
    <3> QED
      BY <3>2, <3>3, OneTabType
  <2> QED
    BY <1>2, <2>1, <2>2, TypeFrame DEF RefreshExpires, GoodTokens, GoodCall
<1>3. CASE SessionExpires
  BY <1>3 DEF SessionExpires
<1>4. ASSUME NEW u \in Users, AccessChanges(u) PROVE TypeOK'
  BY <1>4, SessionAssumption DEF AccessChanges
<1> QED
  BY <1>1, <1>2, <1>3, <1>4

\* Every step keeps the types.
LEMMA TypeStep == TypeOK /\ [Next]_vars => TypeOK'
<1> SUFFICES ASSUME TypeOK, [Next]_vars PROVE TypeOK'
  OBVIOUS
<1>1. CASE UNCHANGED vars
  BY <1>1 DEF vars, TypeOK
<1> QED
  BY <1>1, TypePages, TypeSends, TypeAnswers, TypeTroubles DEF Next, CallStep

\* The tables of the browser and of the server are always typed: whoever has a
\* refresh token has an access token and is a user.
THEOREM SessionTypeCorrect == Spec => []TypeOK
BY TypeInit, TypeStep, PTL DEF Spec

-----------------------------------------------------------------------------
(***************************************************************************)
(* What a tab that alone chooses holds belongs to one user from a login to *)
(* the next, also when it has no tokens but calls that a logout left       *)
(* running.  Alone that is not inductive: it needs to know which calls a   *)
(* page may have waiting, and what a page that departs may still do.       *)
(***************************************************************************)

Waits(t) == page[t] \in {"authentik", "callback"}
Inside(t) == page[t] \in {"select", "choose", "app"}

\* The calls of a login are the tab's only ones; a selector waits for one answer
\* at a time, and offers nothing while it has asked what to offer.
Follows(c) ==
    LET t == TabOf[c]  Others == CallsOf(t) \ {c} IN
    /\ call[c].pc = "idle" => call[c] = NoCall
    /\ call[c].kind = "exchange" => /\ page[t] = "callback"
                                    /\ call[c].pc \in {"sent", "answered"}
                                    /\ \A d \in Others : call[d] = NoCall
    /\ call[c].kind \in {"tenants", "select"} => /\ page[t] = "choose"
                                                 /\ \A d \in Others : OfPage(call[d])
    /\ call[c].kind = "tenants" => choice[t] = {}
    /\ Waits(t) /\ call[c].kind # "exchange" => call[c] = NoCall

\* A renewal that will be refused has the tab's refresh token, or one it gave up.
RefusedRightly(c) ==
    call[c].pc = "refreshing" /\ ~call[c].fresh => tokens[TabOf[c]].refresh # "fresh"

\* Only the answer to a login brings a refresh token, and only who departs is
\* inside without a user.
Rests(t) ==
    /\ Waits(t) => leaving[t] = "none" /\ tokens[t].refresh = "none"
    /\ leaving[t] # "none" => tokens[t].refresh = "none"
    /\ leaving[t] = "none" /\ Inside(t) => tokens[t].user \in Users

\* A call of a tab that is u's; and of one that stays, with what it brings.
OwnCall(q, u) ==
    /\ q.kind # "exchange" /\ q.user \in {u, Nobody}
    /\ q.tenant \in Usable[u] \cup {NoTenant}
Staying(q, u) ==
    /\ q.pc = "sent" => q.user = u
    /\ q.kind = "tenants" => q.offer \subseteq Usable[u]
    /\ q.kind = "select" /\ q.answer = "ok" => q.asked \in Usable[u]

\* Tab t is u's, and so is the tenant.
Own(t, u) ==
    /\ tokens[t].user \in {u, Nobody}
    /\ active \in Usable[u] \cup {NoTenant}
    /\ \A c \in CallsOf(t) : /\ OwnCall(call[c], u)
                             /\ leaving[t] = "none" => Staying(call[c], u)

\* Until a login is handed over, the tab may turn out to be anybody's.
Blank(t) ==
    /\ active = NoTenant
    /\ \A c \in CallsOf(t) :
         /\ call[c].kind # "exchange" => call[c] = NoCall
         /\ call[c].tenant = NoTenant
         /\ HandsOver(call[c]) => call[c].offer \subseteq Usable[call[c].user]

OneUsers(t) ==
    /\ leaving[t] = "authentik" => active = NoTenant
    /\ \/ Blank(t) /\ ~Inside(t)
       \/ ~Waits(t) /\ \E u \in Users : Own(t, u)

TabInv(t) ==
    /\ Rests(t)
    /\ \A c \in CallsOf(t) : Follows(c) /\ RefusedRightly(c)
    /\ t \in alone => OneUsers(t)

Tabwise == \A t \in Tabs : TabInv(t)

LEMMA IdleCall ==
    /\ NoCall.pc = "idle" /\ NoCall.kind = "bucket" /\ NoCall.answer = "none"
    /\ NoCall.user = Nobody /\ NoCall.tenant = NoTenant
    /\ OfPage(NoCall) /\ ~HandsOver(NoCall)
    /\ \A u \in Users : OwnCall(NoCall, u) /\ Staying(NoCall, u)
BY DEF NoCall, OfPage, HandsOver, OwnCall, Staying

\* What a step of another tab leaves alone in s: other tabs choose only when s is
\* not alone any more.
Untouched(s) ==
    /\ page'[s] = page[s] /\ leaving'[s] = leaving[s]
    /\ choice'[s] = choice[s] /\ tokens'[s] = tokens[s]
    /\ \A c \in CallsOf(s) : call'[c] = call[c]
    /\ s \in alone' => s \in alone /\ active' \in {active, NoTenant}
Elsewhere(t) == \A s \in Tabs \ {t} : Untouched(s)

LEMMA UntouchedKeeps ==
    ASSUME NEW s \in Tabs, TabInv(s), Untouched(s)
    PROVE  TabInv(s)'
<1>1. \A c \in CallsOf(s) : Follows(c)' /\ RefusedRightly(c)'
  BY DEF TabInv, Untouched, Follows, Waits, RefusedRightly, CallsOf
<1>2. Rests(s)'
  BY DEF TabInv, Untouched, Rests, Waits, Inside
<1>3. ASSUME s \in alone' PROVE OneUsers(s)'
  <2>1. OneUsers(s) /\ active' \in {active, NoTenant}
    BY <1>3 DEF TabInv, Untouched
  <2>2. Blank(s) => Blank(s)'
    BY <2>1 DEF Untouched, Blank, HandsOver
  <2>3. ASSUME NEW u \in Users, Own(s, u) PROVE Own(s, u)'
    BY <2>1, <2>3 DEF Untouched, Own
  <2> QED
    BY <2>1, <2>2, <2>3 DEF OneUsers, Untouched, Waits, Inside
<1> QED
  BY <1>1, <1>2, <1>3 DEF TabInv

\* So it is enough that a step keeps the invariant of the tab it is about.
LEMMA OneTab ==
    ASSUME Tabwise, NEW t \in Tabs, Elsewhere(t), TabInv(t)'
    PROVE  Tabwise'
BY UntouchedKeeps DEF Tabwise, Elsewhere

\* A tab that alone chooses and has a user's tokens is this user's.
LEMMA OwnerKnown ==
    ASSUME TypeOK, NEW t \in Tabs, TabInv(t), t \in alone, ~Waits(t), tokens[t].user \in Users
    PROVE  Own(t, tokens[t].user)
<1>1. CASE Blank(t)
  <2>1. \A c \in CallsOf(t) : call[c].kind # "exchange"
    BY DEF TabInv, Follows, Waits, CallsOf
  <2>2. \A c \in CallsOf(t) : call[c] = NoCall
    BY <1>1, <2>1 DEF Blank
  <2> QED
    BY <1>1, <2>2, IdleCall DEF Own, Blank
<1>2. CASE \E u \in Users : Own(t, u)
  <2>1. PICK u \in Users : Own(t, u)
    BY <1>2
  <2>2. tokens[t].user # Nobody
    BY SessionAssumption
  <2>3. u = tokens[t].user
    BY <2>1, <2>2 DEF Own
  <2> QED
    BY <2>1, <2>3
<1> QED
  BY <1>1, <1>2 DEF TabInv, OneUsers

\* A call that is neither idle nor a login's is of a tab with an owner.
LEMMA OwnerExists ==
    ASSUME NEW t \in Tabs, TabInv(t), t \in alone, NEW c \in CallsOf(t),
           call[c].pc # "idle", call[c].kind # "exchange"
    PROVE  ~Waits(t) /\ \E u \in Users : Own(t, u)
<1>1. ~Blank(t)
  BY IdleCall DEF Blank
<1> QED
  BY <1>1 DEF TabInv, OneUsers

\* The calls of a page that is none of a selector's or a login's are of pages.
LEMMA CallsOfPages ==
    ASSUME TypeOK, NEW t \in Tabs, TabInv(t), page[t] \in {"login", "select", "app", "authentik"}
    PROVE  \A c \in CallsOf(t) : OfPage(call[c])
<1> SUFFICES ASSUME NEW c \in CallsOf(t) PROVE OfPage(call[c])
  OBVIOUS
<1>1. call[c] \in Call /\ TabOf[c] = t /\ Follows(c)
  BY DEF TypeOK, CallsOf, TabInv
<1> QED
  BY <1>1 DEF Follows, Call, OfPage

LEMMA TabwiseInit == Init => Tabwise
<1> SUFFICES ASSUME Init, NEW t \in Tabs PROVE TabInv(t)
  BY DEF Tabwise
<1>1. \A c \in CallsOf(t) : Follows(c) /\ RefusedRightly(c)
  BY DEF Init, Follows, RefusedRightly, NoCall, CallsOf
<1> QED
  BY <1>1 DEF Init, TabInv, Rests, Waits, Inside

-----------------------------------------------------------------------------
(* Leaving and arriving *)

LEMMA LeavesElsewhere ==
    ASSUME TypeOK, NEW t \in Tabs, Leaves(t), UNCHANGED alone,
           \A s \in Tabs \ {t} : /\ page'[s] = page[s] /\ choice'[s] = choice[s]
                                 /\ leaving'[s] = leaving[s]
                                 /\ \A c \in CallsOf(s) : call'[c] = call[c]
    PROVE  Elsewhere(t)
BY DEF TypeOK, Elsewhere, Untouched, Leaves, LeftTenant

\* Who gives up tokens and tenant leaves at most some calls of the user there was.
LEMMA LeavesOneUsers ==
    ASSUME TypeOK, NEW t \in Tabs, TabInv(t), t \in alone, Leaves(t),
           \A c \in CallsOf(t) : call'[c] = call[c] \/ call'[c] = NoCall,
           ~Waits(t)', Inside(t)' => Inside(t) /\ \A c \in CallsOf(t) : call[c].kind # "exchange",
           leaving'[t] # "none" \/ leaving'[t] = leaving[t]
    PROVE  OneUsers(t)'
<1>1. active' = NoTenant /\ tokens'[t].user = Nobody
  BY DEF TypeOK, Leaves, LeftTenant, NoTokens
<1>2. Blank(t) => Blank(t)'
  BY <1>1, IdleCall DEF Blank
<1>3. ASSUME NEW u \in Users, Own(t, u) PROVE Own(t, u)'
  BY <1>1, <1>3, IdleCall DEF Own
<1> QED
  BY <1>1, <1>2, <1>3 DEF TabInv, OneUsers

LEMMA TabStartLogin ==
    ASSUME TypeOK, Tabwise, NEW t \in Tabs, StartLogin(t)
    PROVE  Tabwise'
<1>1. /\ TabInv(t) /\ page[t] = "login" /\ leaving'[t] = "authentik" /\ tokens'[t] = NoTokens
      /\ UNCHANGED <<page, choice, call, alone>> /\ \A s \in Tabs \ {t} : leaving'[s] = leaving[s]
  BY DEF TypeOK, Tabwise, StartLogin, Leaves, Departs
<1>2. \A c \in CallsOf(t) : Follows(c)' /\ RefusedRightly(c)'
  BY <1>1 DEF TabInv, Follows, Waits, RefusedRightly, NoTokens, CallsOf
<1>3. t \in alone' => OneUsers(t)'
  BY <1>1, LeavesOneUsers DEF StartLogin, Waits, Inside
<1>4. Rests(t)'
  BY <1>1 DEF Rests, Waits, NoTokens
<1>5. Elsewhere(t)
  BY <1>1, LeavesElsewhere DEF StartLogin
<1> QED
  BY <1>2, <1>3, <1>4, <1>5, OneTab DEF TabInv

\* A tab that arrives has no calls; at Authentik, with no tenant active, it may be
\* anybody's.
LEMMA TabArrives ==
    ASSUME TypeOK, Tabwise, NEW t \in Tabs, Arrives(t)
    PROVE  Tabwise'
<1>1. /\ TabInv(t) /\ leaving[t] \in {"login", "authentik"} /\ page'[t] = leaving[t]
      /\ leaving'[t] = "none" /\ UNCHANGED <<active, tokens>>
      /\ \A c \in CallsOf(t) : call'[c] = NoCall
  BY DEF TypeOK, Documents, Tabwise, Arrives, Goes, Departs, Unloads, CallsOf
<1>2. \A c \in CallsOf(t) : Follows(c)' /\ RefusedRightly(c)'
  BY <1>1, IdleCall DEF Follows, RefusedRightly, CallsOf
<1>3. Rests(t)'
  BY <1>1 DEF TabInv, Rests, Waits, Inside
<1>4. ASSUME t \in alone' PROVE OneUsers(t)'
  <2>1. CASE active = NoTenant
    BY <1>1, <2>1, IdleCall DEF OneUsers, Blank, Inside
  <2>2. CASE active # NoTenant
    <3>1. t \in alone /\ leaving[t] = "login"
      BY <1>1, <1>4, <2>2 DEF Arrives, TabInv, OneUsers
    <3>2. PICK u \in Users : Own(t, u)
      BY <2>2, <3>1 DEF TabInv, OneUsers, Blank, Tabwise
    <3>3. Own(t, u)'
      BY <1>1, <3>2, IdleCall DEF Own
    <3> QED
      BY <1>1, <3>1, <3>3 DEF OneUsers, Waits
  <2> QED
    BY <2>1, <2>2
<1>5. Elsewhere(t)
  BY DEF TypeOK, Elsewhere, Untouched, Arrives, Goes, Departs, Unloads, CallsOf
<1> QED
  BY <1>2, <1>3, <1>4, <1>5, OneTab DEF TabInv

\* An error ends a call, and of the other pages at most a selector.
LEMMA ErrorPage ==
    ASSUME TypeOK, NEW t \in Tabs, TabInv(t), NEW c \in CallsOf(t), call[c].pc # "idle"
    PROVE  /\ call[c].kind = "exchange" => AfterError(call[c], t) = "login" /\ page[t] = "callback"
           /\ call[c].kind # "exchange" =>
                 /\ ~Waits(t)
                 /\ \/ AfterError(call[c], t) = page[t]
                    \/ AfterError(call[c], t) = "login" /\ call[c].kind = "tenants"
<1>1. Follows(c) /\ TabOf[c] = t /\ call[c] # NoCall
  BY IdleCall DEF TabInv, CallsOf
<1> QED
  BY <1>1 DEF Follows, Waits, AfterError

LEMMA ErrorFollows ==
    ASSUME TypeOK, NEW t \in Tabs, TabInv(t), NEW c \in CallsOf(t), call[c].pc # "idle",
           call'[c] = NoCall, \A d \in CallsOf(t) \ {c} : call'[d] = call[d],
           page'[t] = AfterError(call[c], t), choice'[t] \in {choice[t], {}}
    PROVE  \A d \in CallsOf(t) : Follows(d)'
<1> SUFFICES ASSUME NEW d \in CallsOf(t) PROVE Follows(d)'
  OBVIOUS
<1>1. Follows(c) /\ Follows(d) /\ TabOf[d] = t /\ TabOf[c] = t
  BY DEF TabInv, CallsOf
<1>2. CASE call'[d] = NoCall
  BY <1>1, <1>2, IdleCall DEF Follows
<1>3. CASE d # c /\ call[d] # NoCall
  <2>1. call[c].kind # "exchange" /\ (call[c].kind = "tenants" => OfPage(call[d]))
    BY <1>1, <1>3 DEF Follows
  <2>2. call'[d] = call[d] /\ \A e \in CallsOf(t) : call'[e] = call[e] \/ call'[e] = NoCall
    BY <1>3
  <2>3. page'[t] = page[t] \/ (OfPage(call[d]) /\ page'[t] = "login")
    BY <2>1, ErrorPage
  <2> QED
    BY <1>1, <2>2, <2>3, IdleCall DEF Follows, OfPage, Waits
<1> QED
  BY <1>2, <1>3

LEMMA TabLoggedOut ==
    ASSUME TypeOK, Tabwise, NEW c \in Calls, LoggedOut(c)
    PROVE  Tabwise'
<1>0. PICK t \in Tabs : t = TabOf[c]
  BY SessionAssumption
<1>1. c \in CallsOf(t) /\ TabInv(t) /\ call[c].pc # "idle"
  BY <1>0 DEF CallsOf, Tabwise, LoggedOut
<1>2. /\ Leaves(t) /\ call'[c] = NoCall /\ \A d \in Calls \ {c} : call'[d] = call[d]
      /\ alone' = alone /\ leaving'[t] = "login" /\ tokens'[t] = NoTokens
      /\ page'[t] = AfterError(call[c], t) /\ choice'[t] \in {choice[t], {}}
      /\ \A s \in Tabs \ {t} : /\ page'[s] = page[s] /\ choice'[s] = choice[s]
                               /\ leaving'[s] = leaving[s]
  BY <1>0 DEF TypeOK, LoggedOut, Leaves, Departs, Goes, Done
<1>3. \A d \in CallsOf(t) : Follows(d)'
  BY <1>1, <1>2, ErrorFollows DEF CallsOf
<1>4. \A d \in CallsOf(t) : RefusedRightly(d)'
  BY <1>2 DEF RefusedRightly, CallsOf, NoTokens
<1>5. ~Waits(t)' /\ (Inside(t)' => Inside(t) /\ page'[t] = page[t])
  BY <1>1, <1>2, ErrorPage DEF Waits, Inside
<1>6. Rests(t)'
  BY <1>2, <1>5 DEF Rests, NoTokens
<1>7. t \in alone' => OneUsers(t)'
  <2>1. Inside(t) => \A d \in CallsOf(t) : call[d].kind # "exchange"
    BY <1>1 DEF TabInv, Follows, Inside, CallsOf
  <2> QED
    BY <1>1, <1>2, <1>5, <2>1, LeavesOneUsers DEF CallsOf
<1>8. Elsewhere(t)
  BY <1>1, <1>2, LeavesElsewhere DEF CallsOf
<1> QED
  BY <1>1, <1>3, <1>4, <1>6, <1>7, <1>8, OneTab DEF TabInv

LEMMA TabOAuthFails ==
    ASSUME TypeOK, Tabwise, NEW t \in Tabs, OAuthFails(t)
    PROVE  Tabwise'
<1>1. /\ TabInv(t) /\ Waits(t) /\ Leaves(t) /\ page'[t] = "login" /\ tokens'[t] = NoTokens
      /\ leaving' = leaving /\ UNCHANGED <<call, alone>>
  BY DEF TypeOK, Tabwise, OAuthFails, Waits, Leaves, Goes
<1>2. \A c \in CallsOf(t) : call[c] = NoCall
  BY <1>1 DEF TabInv, Follows, Waits, OAuthFails, CallsOf
<1>3. \A c \in CallsOf(t) : Follows(c)' /\ RefusedRightly(c)'
  BY <1>1, <1>2, IdleCall DEF Follows, RefusedRightly, CallsOf
<1>4. Rests(t)'
  BY <1>1 DEF TabInv, Rests, Waits, Inside, NoTokens
<1>5. t \in alone' => OneUsers(t)'
  BY <1>1, LeavesOneUsers DEF Waits, Inside
<1>6. Elsewhere(t)
  BY <1>1, LeavesElsewhere DEF OAuthFails, TypeOK, Goes
<1> QED
  BY <1>1, <1>3, <1>4, <1>5, <1>6, OneTab DEF TabInv

\* Logging out leaves the calls, which go on as the user's who left.
LEMMA TabLogout ==
    ASSUME TypeOK, Tabwise, NEW t \in Tabs, Logout(t)
    PROVE  Tabwise'
<1>1. /\ TabInv(t) /\ page[t] = "app" /\ page'[t] = "login" /\ Leaves(t) /\ tokens'[t] = NoTokens
      /\ leaving' = leaving /\ UNCHANGED <<call, alone>>
  BY DEF TypeOK, Tabwise, Logout, Leaves, Goes
<1>2. \A c \in CallsOf(t) : OfPage(call[c])
  BY <1>1, CallsOfPages
<1>3. \A c \in CallsOf(t) : Follows(c)' /\ RefusedRightly(c)'
  BY <1>1, <1>2 DEF TabInv, Follows, Waits, RefusedRightly, NoTokens, OfPage, CallsOf
<1>4. Rests(t)'
  BY <1>1 DEF TabInv, Rests, Waits, Inside, NoTokens
<1>5. t \in alone' => OneUsers(t)'
  BY <1>1, LeavesOneUsers DEF Waits, Inside
<1>6. Elsewhere(t)
  BY <1>1, LeavesElsewhere DEF Logout, TypeOK, Goes
<1> QED
  BY <1>1, <1>3, <1>4, <1>5, <1>6, OneTab DEF TabInv

\* A login sends the one call of the tab.
LEMMA TabAuthCallback ==
    ASSUME TypeOK, Tabwise, NEW c \in Calls, NEW v \in Users, AuthCallback(c, v)
    PROVE  Tabwise'
<1> DEFINE q == Stamped([NoCall EXCEPT !.kind = "exchange", !.asked = NoTenant],
                        tokens[TabOf[c]], TabOf[c])
<1>0. PICK t \in Tabs : t = TabOf[c]
  BY SessionAssumption
<1>1. c \in CallsOf(t) /\ TabInv(t) /\ page[t] = "authentik"
  BY <1>0 DEF CallsOf, Tabwise, AuthCallback
<1>2. \A d \in CallsOf(t) : call[d] = NoCall
  BY <1>1 DEF TabInv, Follows, Waits, CallsOf
<1>3. q.pc = "sent" /\ q.kind = "exchange" /\ q.tenant = NoTenant
  BY DEF Stamped, NoCall
<1>4. call' = [call EXCEPT ![c] = q]
  BY DEF AuthCallback, Sends
<1> HIDE DEF q
<1>5. page'[t] = "callback" /\ UNCHANGED <<tokens, active, alone, leaving>>
  BY <1>0 DEF TypeOK, AuthCallback, Goes
<1>6. call'[c] = q /\ \A d \in CallsOf(t) \ {c} : call'[d] = NoCall
  BY <1>1, <1>2, <1>4 DEF TypeOK, CallsOf
<1>7. \A d \in CallsOf(t) : Follows(d)' /\ RefusedRightly(d)'
  BY <1>3, <1>5, <1>6, IdleCall DEF Follows, RefusedRightly, CallsOf
<1>8. Rests(t)'
  BY <1>1, <1>5 DEF TabInv, Rests, Waits, Inside
<1>9. ASSUME t \in alone' PROVE OneUsers(t)'
  <2>1. Blank(t) /\ leaving[t] = "none"
    BY <1>1, <1>5, <1>9 DEF TabInv, OneUsers, Rests, Waits
  <2> QED
    BY <1>3, <1>5, <1>6, <2>1, IdleCall DEF OneUsers, Blank, HandsOver, Inside
<1>10. Elsewhere(t)
  BY <1>0, <1>4, <1>5 DEF TypeOK, Elsewhere, Untouched, AuthCallback, Goes, CallsOf
<1> QED
  BY <1>7, <1>8, <1>9, <1>10, OneTab DEF TabInv
-----------------------------------------------------------------------------
(* Requests, and pages that change inside *)

\* A tab inside that alone chooses has an owner, and the owner's tokens if it stays.
LEMMA InsideOwned ==
    ASSUME TypeOK, NEW t \in Tabs, TabInv(t), t \in alone, Inside(t)
    PROVE  ~Waits(t) /\ \E u \in Users : Own(t, u) /\ (leaving[t] = "none" => tokens[t].user = u)
<1>1. PICK u \in Users : Own(t, u)
  BY DEF TabInv, OneUsers
<1>2. leaving[t] = "none" => tokens[t].user = u
  BY <1>1, SessionAssumption DEF TabInv, Rests, Own
<1> QED
  BY <1>1, <1>2 DEF Waits, Inside

\* What an owned tab sends is its owner's, and for a tenant of the owner.
LEMMA SendsOwn ==
    ASSUME TypeOK, NEW t \in Tabs, NEW c \in CallsOf(t), NEW u \in Users, Own(t, u),
           leaving[t] = "none" => tokens[t].user = u, NEW kind, NEW asked, kind # "exchange",
           Sends(c, kind, asked), UNCHANGED <<tokens, active, leaving>>
    PROVE  Own(t, u)'
<1> DEFINE q == Stamped([NoCall EXCEPT !.kind = kind, !.asked = asked], tokens[t], t)
<1>1. /\ q.kind = kind /\ q.pc = "sent" /\ q.user = tokens[t].user
      /\ q.offer = {} /\ q.answer = "none" /\ q.tenant \in {active, NoTenant}
  BY DEF Stamped, NoCall
<1>2. TabOf[c] = t /\ c \in Calls
  BY DEF CallsOf
<1>3. call' = [call EXCEPT ![c] = q]
  BY <1>2 DEF Sends
<1> HIDE DEF q
<1>4. call'[c] = q /\ \A d \in Calls \ {c} : call'[d] = call[d]
  BY <1>2, <1>3 DEF TypeOK
<1>5. OwnCall(q, u) /\ (leaving[t] = "none" => Staying(q, u))
  BY <1>1 DEF Own, OwnCall, Staying
<1> QED
  BY <1>4, <1>5 DEF Own, CallsOf

\* A page inside sends a call: any page its own, and a selector one at a time.
LEMMA TabSends ==
    ASSUME TypeOK, Tabwise, NEW t \in Tabs, NEW c \in CallsOf(t), Inside(t),
           NEW kind, NEW asked, Sends(c, kind, asked),
           \A d \in CallsOf(t) : call[d].kind \notin {"tenants", "select"},
           \/ kind \in {"bucket", "admin"}
           \/ kind = "tenants" /\ page'[t] = "choose" /\ choice'[t] = {}
           \/ kind = "select" /\ page'[t] = "choose",
           page'[t] \in {"app", "choose"},
           \A s \in Tabs \ {t} : page'[s] = page[s] /\ choice'[s] = choice[s],
           UNCHANGED <<tokens, active, alone, leaving>>
    PROVE  Tabwise'
<1>1. TabInv(t) /\ c \in Calls /\ TabOf[c] = t
  BY DEF Tabwise, CallsOf
<1>2. /\ call'[c].kind = kind /\ call'[c].pc = "sent"
      /\ \A d \in Calls \ {c} : call'[d] = call[d]
  BY <1>1 DEF TypeOK, Sends, Stamped, NoCall
<1>3. \A d \in CallsOf(t) : OfPage(call[d])
  <2> SUFFICES ASSUME NEW d \in CallsOf(t) PROVE OfPage(call[d])
    OBVIOUS
  <2>1. call[d] \in Call /\ Follows(d) /\ TabOf[d] = t
    BY <1>1 DEF TypeOK, CallsOf, TabInv
  <2> QED
    BY <2>1 DEF Follows, Inside, Call, OfPage
<1>4. \A d \in CallsOf(t) \ {c} : OfPage(call'[d]) /\ (call'[d].pc = "idle" => call'[d] = NoCall)
  BY <1>1, <1>2, <1>3 DEF CallsOf, TabInv, Follows, OfPage
<1>5. \A d \in CallsOf(t) : Follows(d)'
  BY <1>2, <1>4 DEF Follows, Waits, CallsOf, OfPage
<1>6. \A d \in CallsOf(t) : RefusedRightly(d)'
  BY <1>1, <1>2 DEF RefusedRightly, CallsOf, TabInv
<1>7. Rests(t)'
  BY <1>1 DEF TabInv, Rests, Waits, Inside
<1>8. ASSUME t \in alone' PROVE OneUsers(t)'
  <2>1. PICK u \in Users : Own(t, u) /\ (leaving[t] = "none" => tokens[t].user = u)
    BY <1>1, <1>8, InsideOwned
  <2>2. Own(t, u)'
    BY <2>1, SendsOwn
  <2> QED
    BY <1>1, <1>8, <2>2 DEF TabInv, OneUsers, Waits
<1>9. Elsewhere(t)
  BY <1>2 DEF Elsewhere, Untouched, CallsOf
<1> QED
  BY <1>5, <1>6, <1>7, <1>8, <1>9, OneTab DEF TabInv

LEMMA TabPageCalls ==
    ASSUME TypeOK, Tabwise, NEW c \in Calls, PageCalls(c)
    PROVE  Tabwise'
<1>0. PICK t \in Tabs : t = TabOf[c]
  BY SessionAssumption
<1>1. c \in CallsOf(t) /\ TabInv(t) /\ page[t] = "app"
  BY <1>0 DEF CallsOf, Tabwise, PageCalls
<1>2. PICK kind \in {"bucket", "admin"} : Sends(c, kind, NoTenant)
  BY DEF PageCalls
<1>3. \A d \in CallsOf(t) : call[d].kind \notin {"tenants", "select"}
  BY <1>1, CallsOfPages DEF OfPage
<1>4. UNCHANGED <<page, choice, tokens, active, alone, leaving>>
  BY DEF PageCalls
<1> QED
  BY <1>1, <1>2, <1>3, <1>4, TabSends DEF Inside

LEMMA TabSelectTenant ==
    ASSUME TypeOK, Tabwise, NEW c \in Calls, NEW a \in Tenants, SelectTenant(c, a)
    PROVE  Tabwise'
<1>0. PICK t \in Tabs : t = TabOf[c]
  BY SessionAssumption
<1>1. c \in CallsOf(t) /\ TabInv(t) /\ page[t] = "choose" /\ choice[t] # {}
  BY <1>0 DEF CallsOf, Tabwise, SelectTenant
<1>2. Sends(c, "select", a)
  BY DEF SelectTenant
<1>3. \A d \in CallsOf(t) : call[d].kind \notin {"tenants", "select"}
  BY <1>0, <1>1 DEF SelectTenant, TabInv, Follows, CallsOf
<1>4. UNCHANGED <<page, choice, tokens, active, alone, leaving>>
  BY DEF SelectTenant
<1> QED
  BY <1>1, <1>2, <1>3, <1>4, TabSends DEF Inside

\* Without a request: the tab goes to another page, inside or the first, and
\* perhaps an answer ends.
LEMMA TabMoves ==
    ASSUME TypeOK, Tabwise, NEW t \in Tabs, NEW p \in {"select", "choose", "app", "login"},
           ~Waits(t), Inside(t) \/ tokens[t].user \in Users, NEW c \in CallsOf(t),
           \A d \in CallsOf(t) : OfPage(call[d]) \/ (d = c /\ call'[c] = NoCall),
           \A d \in Calls : call'[d] = call[d] \/ (d = c /\ call'[c] = NoCall),
           page' = [page EXCEPT ![t] = p], \A s \in Tabs \ {t} : choice'[s] = choice[s],
           UNCHANGED <<tokens, leaving>>,
           \/ active' \in {active, NoTenant} /\ alone' = alone
           \/ /\ alone' \subseteq alone \cap {t}
              /\ t \in alone' => /\ leaving[t] = "none"
                                 /\ \A u \in Users : Own(t, u) => active' \in Usable[u]
    PROVE  Tabwise'
<1>1. TabInv(t) /\ page'[t] = p
  BY DEF TypeOK, Tabwise
<1>2. \A d \in CallsOf(t) : call'[d] = NoCall \/ (OfPage(call[d]) /\ call'[d] = call[d])
  BY DEF CallsOf
<1>3. \A d \in CallsOf(t) : Follows(d)' /\ RefusedRightly(d)'
  BY <1>1, <1>2, IdleCall DEF TabInv, Follows, Waits, RefusedRightly, OfPage, CallsOf
<1>4. Rests(t)'
  BY <1>1 DEF TabInv, Rests, Waits, Inside
<1>5. ASSUME t \in alone' PROVE OneUsers(t)'
  <2>0. t \in alone
    BY <1>5
  <2>1. \E u \in Users : Own(t, u)
    BY <1>1, <2>0, InsideOwned, OwnerKnown
  <2>2. PICK u \in Users : Own(t, u)
    BY <2>1
  <2>3. active' \in Usable[u] \cup {NoTenant} /\ (leaving[t] = "authentik" => active' = NoTenant)
    BY <1>1, <1>5, <2>2 DEF Own, TabInv, OneUsers
  <2>4. Own(t, u)'
    BY <1>2, <2>2, <2>3, IdleCall DEF Own
  <2> QED
    BY <1>1, <2>3, <2>4 DEF OneUsers, Waits
<1>6. \A s \in Tabs \ {t} : \A d \in CallsOf(s) : call'[d] = call[d]
  BY DEF CallsOf
<1>7. Elsewhere(t)
  BY <1>6 DEF TypeOK, Elsewhere, Untouched
<1> QED
  BY <1>3, <1>4, <1>5, <1>7, OneTab DEF TabInv

\* Selector and application.
LEMMA TabPages ==
    ASSUME TypeOK, Tabwise, NEW t \in Tabs, SelectorOpens(t) \/ SwitchTenant(t) \/ Revisit(t)
    PROVE  Tabwise'
<1>0. /\ TabInv(t) /\ page[t] \in {"select", "app", "login"} /\ ~Waits(t)
      /\ UNCHANGED <<tokens, leaving, alone>>
  BY DEF Tabwise, SelectorOpens, SwitchTenant, Revisit, Waits
<1>1. Inside(t) \/ tokens[t].user \in Users
  BY DEF TypeOK, Inside, SelectorOpens, SwitchTenant, Revisit
<1>2. \A d \in CallsOf(t) : OfPage(call[d])
  BY <1>0, CallsOfPages
<1>3. PICK c \in CallsOf(t) : TRUE
  BY SessionAssumption DEF CallsOf
<1>4. \A s \in Tabs \ {t} : choice'[s] = choice[s]
  BY DEF TypeOK, SelectorOpens, SwitchTenant, Revisit, Goes, GoesToChoose
<1>5. CASE SwitchTenant(t)
  BY <1>0, <1>1, <1>2, <1>3, <1>4, <1>5, TabMoves DEF SwitchTenant, Goes
<1>6. CASE Revisit(t)
  BY <1>0, <1>1, <1>2, <1>3, <1>4, <1>6, TabMoves DEF Revisit, Goes
<1>7. CASE SelectorOpens(t) /\ Goes(t, "app") /\ UNCHANGED call
  BY <1>0, <1>1, <1>2, <1>3, <1>4, <1>7, TabMoves DEF SelectorOpens, Goes
<1>8. CASE SelectorOpens(t) /\ GoesToChoose(t, pending) /\ UNCHANGED call
  BY <1>0, <1>1, <1>2, <1>3, <1>4, <1>8, TabMoves DEF SelectorOpens, GoesToChoose
<1>9. ASSUME SelectorOpens(t), GoesToChoose(t, {}), NEW b \in CallsOf(t), Sends(b, "tenants", NoTenant)
      PROVE  Tabwise'
  <2>1. page'[t] = "choose" /\ choice'[t] = {} /\ UNCHANGED <<tokens, active, alone, leaving>>
    BY <1>9 DEF TypeOK, SelectorOpens, GoesToChoose
  <2>2. \A s \in Tabs \ {t} : page'[s] = page[s]
    BY <1>9 DEF TypeOK, GoesToChoose
  <2>3. \A d \in CallsOf(t) : call[d].kind \notin {"tenants", "select"}
    BY <1>2 DEF OfPage
  <2> QED
    BY <1>4, <1>9, <2>1, <2>2, <2>3, TabSends DEF SelectorOpens, Inside
<1> QED
  BY <1>5, <1>6, <1>7, <1>8, <1>9 DEF SelectorOpens
-----------------------------------------------------------------------------
(* Answers *)

\* A step that changes one call of t and, perhaps, the page and the tokens of t.
LEMMA OneCallElsewhere ==
    ASSUME TypeOK, NEW c \in Calls, NEW q, call' = [call EXCEPT ![c] = q], leaving' = leaving,
           \A s \in Tabs \ {TabOf[c]} :
              page'[s] = page[s] /\ choice'[s] = choice[s] /\ tokens'[s] = tokens[s],
           \/ UNCHANGED <<active, alone>>
           \/ alone' \subseteq alone \cap {TabOf[c]}
    PROVE  Elsewhere(TabOf[c])
BY DEF TypeOK, Elsewhere, Untouched, CallsOf

\* A call is answered as the call it is, and only a login is told a user.
LEMMA AnswerShape ==
    ASSUME TypeOK, NEW q \in Call, NEW admin \in BOOLEAN, q.pc = "sent"
    PROVE  LET r == Answer(q, admin) IN
           /\ (r = NoCall /\ OfPage(q)) \/ (r.kind = q.kind /\ r.pc = "answered")
           /\ q.kind # "exchange" => r.user = Nobody
           /\ r.tenant \in {q.tenant, NoTenant}
<1> SUFFICES ASSUME NEW r, r = Answer(q, admin)
             PROVE  /\ (r = NoCall /\ OfPage(q)) \/ (r.kind = q.kind /\ r.pc = "answered")
                    /\ q.kind # "exchange" => r.user = Nobody
                    /\ r.tenant \in {q.tenant, NoTenant}
  OBVIOUS
<1>1. \/ r = NoCall /\ OfPage(q)
      \/ r \in {Rejected(q), Forbidden(q)}
      \/ r = Accepted(q, Who(q)) /\ Who(q) \in Users
  BY AnswerCases, WhoType
<1>2. NoCall.user = Nobody /\ NoCall.tenant = NoTenant
  BY IdleCall
<1>3. CASE r = NoCall /\ OfPage(q)
  BY <1>2, <1>3
<1>4. CASE r \in {Rejected(q), Forbidden(q)}
  BY <1>4, RefusalFields
<1>5. CASE r = Accepted(q, Who(q)) /\ Who(q) \in Users
  BY <1>5, AcceptedFields DEF Named
<1> QED
  BY <1>1, <1>3, <1>4, <1>5

\* The server answers the owner of a tab with what this user may use.
LEMMA AnswerOwn ==
    ASSUME TypeOK, NEW q \in Call, NEW admin \in BOOLEAN, NEW u \in Users,
           Staying(q, u), q.kind # "exchange", q.pc = "sent"
    PROVE  Staying(Answer(q, admin), u)
<1>1. q.user = u /\ u # Nobody
  BY SessionAssumption DEF Staying
<1>2. Who(q) \in {u, Nobody}
  BY <1>1 DEF Who
<1>3. access[u] \subseteq Usable[u]
  BY DEF TypeOK
<1>4. CASE Answer(q, admin) = NoCall
  BY <1>4, IdleCall
<1>5. CASE Answer(q, admin) \in {Rejected(q), Forbidden(q)}
  BY <1>5, RefusalFields DEF Staying
<1>6. CASE /\ Answer(q, admin) = Accepted(q, Who(q))
           /\ Who(q) # Nobody /\ Allowed(q, admin, Who(q))
  <2>1. q.kind = "select" => q.asked \in access[u]
    BY <1>2, <1>6 DEF Allowed
  <2>2. Offered(q, u) \subseteq Usable[u]
    BY <1>3 DEF Offered
  <2> QED
    BY <1>2, <1>3, <1>6, <2>1, <2>2, AcceptedFields DEF Staying
<1> QED
  BY <1>4, <1>5, <1>6, AnswerCases

\* It answers a login with what the user it found may use.
LEMMA AnswerBlank ==
    ASSUME TypeOK, NEW q \in Call, NEW admin \in BOOLEAN, q.kind = "exchange", q.pc = "sent"
    PROVE  LET r == Answer(q, admin) IN HandsOver(r) => r.offer \subseteq Usable[r.user]
<1>1. CASE Answer(q, admin) \in {Rejected(q), Forbidden(q)}
  BY <1>1, RefusalFields DEF HandsOver
<1>2. CASE Answer(q, admin) = Accepted(q, Who(q)) /\ Who(q) # Nobody
  <2>1. Who(q) \in Users
    BY <1>2, WhoType
  <2>2. access[Who(q)] \subseteq Usable[Who(q)]
    BY <2>1 DEF TypeOK
  <2> QED
    BY <1>2, <2>1, <2>2, AcceptedFields DEF Named, Offered
<1> QED
  BY <1>1, <1>2, AnswerCases DEF OfPage

LEMMA TabServe ==
    ASSUME TypeOK, Tabwise, NEW c \in Calls, Serve(c)
    PROVE  Tabwise'
<1> DEFINE r == Answer(call[c], TabOf[c] \in AdminTabs)
<1>0. PICK t \in Tabs : t = TabOf[c]
  BY SessionAssumption
<1>1. c \in CallsOf(t) /\ TabInv(t) /\ call[c] \in Call /\ call[c].pc = "sent"
  BY <1>0 DEF CallsOf, Tabwise, TypeOK, Serve
<1>2. /\ call' = [call EXCEPT ![c] = r]
      /\ UNCHANGED <<page, choice, tokens, active, alone, leaving>>
  BY DEF Serve
<1>3. (TabOf[c] \in AdminTabs) \in BOOLEAN
  OBVIOUS
<1>4. /\ (r = NoCall /\ OfPage(call[c])) \/ (r.kind = call[c].kind /\ r.pc = "answered")
      /\ call[c].kind # "exchange" => r.user = Nobody
      /\ r.tenant \in {call[c].tenant, NoTenant}
  BY <1>1, <1>3, AnswerShape
<1>5. call[c].kind = "exchange" /\ HandsOver(r) => r.offer \subseteq Usable[r.user]
  BY <1>1, <1>3, AnswerBlank
<1>6. \A u \in Users : Staying(call[c], u) /\ call[c].kind # "exchange" => Staying(r, u)
  BY <1>1, <1>3, AnswerOwn
<1> HIDE DEF r
<1>7. call'[c] = r /\ \A d \in Calls \ {c} : call'[d] = call[d]
  BY <1>2 DEF TypeOK
<1>8. \A d \in CallsOf(t) : Follows(d)'
  <2> SUFFICES ASSUME NEW d \in CallsOf(t) PROVE Follows(d)'
    OBVIOUS
  <2>1. Follows(c) /\ Follows(d) /\ call[c] # NoCall /\ TabOf[d] = t /\ TabOf[c] = t
    BY <1>1, IdleCall DEF TabInv, CallsOf
  <2>2. \A e \in CallsOf(t) \ {c} : call'[e] = call[e]
    BY <1>7 DEF CallsOf
  <2>3. CASE d = c
    BY <1>2, <1>4, <1>7, <2>1, <2>2, <2>3, IdleCall DEF Follows, Waits
  <2>4. CASE d # c
    BY <1>2, <1>4, <1>7, <2>1, <2>2, <2>4, IdleCall DEF Follows, OfPage, Waits
  <2> QED
    BY <2>3, <2>4
<1>9. \A d \in CallsOf(t) : RefusedRightly(d)'
  BY <1>1, <1>2, <1>4, <1>7, IdleCall DEF RefusedRightly, CallsOf, TabInv
<1>10. Rests(t)'
  BY <1>1, <1>2 DEF TabInv, Rests, Waits, Inside
<1>11. ASSUME t \in alone' PROVE OneUsers(t)'
  <2>0. t \in alone /\ OneUsers(t)
    BY <1>1, <1>2, <1>11 DEF TabInv
  <2>1. CASE call[c].kind = "exchange"
    <3>1. Blank(t)
      BY <1>1, <2>0, <2>1 DEF TabInv, Follows, Waits, OneUsers, CallsOf
    <3>2. call[c].tenant = NoTenant /\ ~OfPage(call[c])
      BY <1>1, <2>1, <3>1 DEF Blank, OfPage
    <3>3. \A d \in CallsOf(t) : call'[d] = r \/ call'[d] = call[d]
      BY <1>7 DEF CallsOf
    <3>4. Blank(t)'
      BY <1>2, <1>4, <1>5, <2>1, <3>1, <3>2, <3>3 DEF Blank, HandsOver
    <3> QED
      BY <1>2, <2>0, <2>1, <3>4, <1>1 DEF OneUsers, Inside, TabInv, Follows, CallsOf
  <2>2. CASE call[c].kind # "exchange"
    <3>1. PICK u \in Users : Own(t, u) /\ ~Waits(t)
      BY <1>1, <2>0, <2>2, OwnerExists
    <3>2. OwnCall(r, u) /\ (leaving[t] = "none" => Staying(r, u))
      <4>1. OwnCall(call[c], u) /\ (leaving[t] = "none" => Staying(call[c], u))
        BY <1>1, <3>1 DEF Own
      <4>2. r.kind # "exchange"
        BY <1>4, <2>2, IdleCall
      <4> QED
        BY <1>4, <1>6, <2>2, <4>1, <4>2 DEF OwnCall
    <3>3. Own(t, u)'
      BY <1>2, <1>7, <3>1, <3>2 DEF Own, CallsOf
    <3> QED
      BY <1>2, <2>0, <3>1, <3>3 DEF OneUsers, Waits
  <2> QED
    BY <2>1, <2>2
<1>12. Elsewhere(t)
  BY <1>0, <1>2, OneCallElsewhere
<1> QED
  BY <1>8, <1>9, <1>10, <1>11, <1>12, OneTab DEF TabInv

\* The answer to a login makes the tab its user's, with a tenant that is, too.
LEMMA TabExchanged ==
    ASSUME TypeOK, Tabwise, NEW c \in Calls, Exchanged(c)
    PROVE  Tabwise'
<1>0. PICK t \in Tabs : t = TabOf[c]
  BY SessionAssumption
<1>1. /\ c \in CallsOf(t) /\ TabInv(t) /\ HandsOver(call[c]) /\ page[t] = "callback"
      /\ leaving[t] = "none" /\ \A d \in CallsOf(t) \ {c} : call[d] = NoCall
  <2>1. c \in CallsOf(t) /\ TabInv(t) /\ HandsOver(call[c])
    BY <1>0 DEF CallsOf, Tabwise, Exchanged
  <2> QED
    BY <1>0, <2>1 DEF TabInv, Follows, Rests, Waits, HandsOver
<1>2. PICK u \in Users : u = call[c].user
  BY <1>1 DEF TypeOK
<1>3. call' = [call EXCEPT ![c] = NoCall] /\ leaving' = leaving
  BY DEF Exchanged, Done
<1>4. \A d \in CallsOf(t) : call'[d] = NoCall
  BY <1>1, <1>3 DEF TypeOK, CallsOf
<1>5. /\ tokens'[t].user = u /\ page'[t] \in {"app", "select"}
      /\ \A s \in Tabs \ {t} : page'[s] = page[s] /\ choice'[s] = choice[s] /\ tokens'[s] = tokens[s]
  BY <1>0, <1>2 DEF TypeOK, Exchanged, Enters, Goes
<1>6. \/ UNCHANGED <<active, alone>>
      \/ /\ alone' = alone \cap {t}
         /\ call[c].offer \subseteq Usable[u] => active' \in Usable[u]
  <2>1. CASE t \in AdminTabs \/ Cardinality(call[c].offer) # 1
    BY <1>0, <2>1 DEF Exchanged, Enters
  <2>2. CASE t \notin AdminTabs /\ Cardinality(call[c].offer) = 1
    <3>1. (CHOOSE a \in call[c].offer : TRUE) \in call[c].offer
      BY <2>2, OnlyOne
    <3> QED
      BY <1>0, <1>1, <2>2, <3>1 DEF Exchanged, Enters, Chooses
  <2> QED
    BY <2>1, <2>2
<1>7. ASSUME t \in alone' PROVE OneUsers(t)'
  <2>1. Blank(t)
    BY <1>1, <1>6, <1>7 DEF TabInv, OneUsers, Waits
  <2>2. active' \in Usable[u] \cup {NoTenant}
    BY <1>1, <1>2, <1>6, <2>1 DEF Blank
  <2>3. Own(t, u)'
    BY <1>4, <1>5, <2>2, IdleCall DEF Own
  <2> QED
    BY <1>1, <1>3, <1>5, <2>3 DEF OneUsers, Waits
<1>8. \A d \in CallsOf(t) : Follows(d)' /\ RefusedRightly(d)'
  BY <1>4, <1>5, IdleCall DEF Follows, RefusedRightly, CallsOf
<1>9. Rests(t)'
  BY <1>1, <1>3, <1>5 DEF Rests, Waits
<1>10. Elsewhere(t)
  BY <1>0, <1>3, <1>5, <1>6, OneCallElsewhere
<1> QED
  BY <1>7, <1>8, <1>9, <1>10, OneTab DEF TabInv

\* So does the answer to a selector, of a page that stays.
LEMMA TabSelected ==
    ASSUME TypeOK, Tabwise, NEW c \in Calls, TenantSelected(c) \/ TenantsLoaded(c)
    PROVE  Tabwise'
<1> DEFINE q == call[c]
<1>0. PICK t \in Tabs : t = TabOf[c]
  BY SessionAssumption
<1>1. c \in CallsOf(t) /\ TabInv(t) /\ q.kind \in {"tenants", "select"} /\ q.pc = "answered"
  BY <1>0 DEF CallsOf, Tabwise, TenantSelected, TenantsLoaded
<1>2. page[t] = "choose" /\ \A d \in CallsOf(t) : OfPage(call[d]) \/ d = c
  BY <1>1 DEF TabInv, Follows, CallsOf
<1>3. call'[c] = NoCall /\ \A d \in Calls \ {c} : call'[d] = call[d]
  BY DEF TypeOK, TenantSelected, TenantsLoaded, Done
<1>4. UNCHANGED <<tokens, leaving>>
  BY DEF TenantSelected, TenantsLoaded
<1>5. Inside(t) /\ ~Waits(t)
  BY <1>2 DEF Inside, Waits
<1>6. \A s \in Tabs \ {t} : choice'[s] = choice[s]
  BY <1>0 DEF TypeOK, TenantSelected, TenantsLoaded, Goes, GoesToChoose
<1>7. \E p \in {"app", "login", "choose"} : page' = [page EXCEPT ![t] = p]
  BY <1>0 DEF TenantSelected, TenantsLoaded, Goes, GoesToChoose
<1>8. ASSUME NEW a, Chooses(t, a), \A u \in Users : Staying(q, u) => a \in Usable[u]
      PROVE  /\ alone' \subseteq alone \cap {t}
             /\ t \in alone' => /\ leaving[t] = "none"
                                /\ \A u \in Users : Own(t, u) => active' \in Usable[u]
  BY <1>1, <1>8 DEF Chooses, Own
<1>9. \/ active' = active /\ alone' = alone
      \/ /\ alone' \subseteq alone \cap {t}
         /\ t \in alone' => /\ leaving[t] = "none"
                            /\ \A u \in Users : Own(t, u) => active' \in Usable[u]
  <2>1. CASE TenantSelected(c)
    <3>1. Chooses(t, q.asked) /\ \A u \in Users : Staying(q, u) => q.asked \in Usable[u]
      BY <1>0, <2>1 DEF TenantSelected, Staying
    <3> QED
      BY <1>8, <3>1
  <2>2. CASE TenantsLoaded(c) /\ Cardinality(q.offer) = 1
    <3>1. (CHOOSE a \in q.offer : TRUE) \in q.offer
      BY <2>2, OnlyOne
    <3>2. Chooses(t, CHOOSE a \in q.offer : TRUE) /\ q.kind = "tenants"
      BY <1>0, <2>2 DEF TenantsLoaded
    <3>3. \A u \in Users : Staying(q, u) => (CHOOSE a \in q.offer : TRUE) \in Usable[u]
      BY <3>1, <3>2 DEF Staying
    <3> QED
      BY <1>8, <3>2, <3>3
  <2>3. CASE TenantsLoaded(c) /\ Cardinality(q.offer) # 1
    BY <2>3 DEF TenantsLoaded
  <2> QED
    BY <2>1, <2>2, <2>3
<1> HIDE DEF q
<1> QED
  BY <1>1, <1>2, <1>3, <1>4, <1>5, <1>6, <1>7, <1>9, TabMoves

\* An error, or a call that nobody hears of again.
LEMMA TabSettles ==
    ASSUME TypeOK, Tabwise, NEW c \in Calls, Settles(c)
    PROVE  Tabwise'
<1>0. PICK t \in Tabs : t = TabOf[c]
  BY SessionAssumption
<1>1. c \in CallsOf(t) /\ TabInv(t) /\ call[c].pc # "idle"
  BY <1>0 DEF CallsOf, Tabwise, Settles
<1>2. /\ call' = [call EXCEPT ![c] = NoCall] /\ UNCHANGED <<tokens, active, alone, leaving>>
      /\ Goes(t, AfterError(call[c], t))
  BY <1>0 DEF Settles, Done
<1>3. call'[c] = NoCall /\ \A d \in Calls \ {c} : call'[d] = call[d]
  BY <1>2 DEF TypeOK
<1>4. /\ page'[t] = AfterError(call[c], t) /\ choice'[t] \in {choice[t], {}}
      /\ \A s \in Tabs \ {t} : page'[s] = page[s] /\ choice'[s] = choice[s]
  BY <1>2 DEF TypeOK, Goes
<1>5. \A d \in CallsOf(t) : Follows(d)'
  BY <1>1, <1>3, <1>4, ErrorFollows DEF CallsOf
<1>6. \A d \in CallsOf(t) : RefusedRightly(d)'
  BY <1>1, <1>2, <1>3, IdleCall DEF RefusedRightly, CallsOf, TabInv
<1>7. ~Waits(t)' /\ (Inside(t)' => Inside(t))
  BY <1>1, <1>4, ErrorPage DEF Waits, Inside
<1>8. Rests(t)'
  BY <1>1, <1>2, <1>7 DEF TabInv, Rests
<1>9. ASSUME t \in alone' PROVE OneUsers(t)'
  <2>1. OneUsers(t)
    BY <1>1, <1>2, <1>9 DEF TabInv
  <2>2. Blank(t) => Blank(t)'
    BY <1>2, <1>3, IdleCall DEF Blank, CallsOf
  <2>3. \A u \in Users : Own(t, u) => Own(t, u)'
    BY <1>2, <1>3, IdleCall DEF Own, CallsOf
  <2> QED
    BY <1>2, <1>7, <2>1, <2>2, <2>3 DEF OneUsers
<1>10. Elsewhere(t)
  BY <1>0, <1>2, <1>4, OneCallElsewhere
<1> QED
  BY <1>5, <1>6, <1>8, <1>9, <1>10, OneTab DEF TabInv

\* A step that changes one call, neither idle nor a login's, of a tab that keeps
\* its page, and its user where there is one.
LEMMA TabCallGoesOn ==
    ASSUME TypeOK, Tabwise, NEW c \in Calls, NEW q, call' = [call EXCEPT ![c] = q],
           call[c].pc # "idle", call[c].kind # "exchange",
           q.kind = call[c].kind, q.pc # "idle",
           UNCHANGED <<page, leaving, choice, active, alone>>, NEW own,
           tokens' = [tokens EXCEPT ![TabOf[c]] = own],
           tokens[TabOf[c]].user \in Users => own.user \in Users,
           own.refresh = tokens[TabOf[c]].refresh,
           q.pc = "refreshing" /\ ~q.fresh => own.refresh # "fresh",
           \A u \in Users : Own(TabOf[c], u) =>
              /\ OwnCall(q, u) /\ own.user \in {u, Nobody}
              /\ leaving[TabOf[c]] = "none" => Staying(q, u)
    PROVE  Tabwise'
<1>0. PICK t \in Tabs : t = TabOf[c]
  BY SessionAssumption
<1>1. c \in CallsOf(t) /\ TabInv(t)
  BY <1>0 DEF CallsOf, Tabwise
<1>2. call'[c] = q /\ \A d \in Calls \ {c} : call'[d] = call[d]
  BY DEF TypeOK
<1>3. tokens'[t] = own /\ \A s \in Tabs \ {t} : tokens'[s] = tokens[s]
  BY <1>0 DEF TypeOK
<1>4. call[c] # NoCall
  BY IdleCall
<1>5. ~Waits(t) /\ \A d \in CallsOf(t) : call[d].kind # "exchange"
  BY <1>1, <1>4 DEF TabInv, Follows, Waits, CallsOf
<1>6. \A d \in CallsOf(t) : Follows(d)'
  BY <1>1, <1>2, <1>4, <1>5 DEF Follows, OfPage, CallsOf, TabInv, Waits
<1>7. \A d \in CallsOf(t) : RefusedRightly(d)'
  BY <1>0, <1>1, <1>2, <1>3 DEF RefusedRightly, CallsOf, TabInv
<1>8. Rests(t)'
  BY <1>0, <1>1, <1>3, <1>5 DEF TabInv, Rests, Waits, Inside
<1>9. ASSUME t \in alone' PROVE OneUsers(t)'
  <2>1. PICK u \in Users : Own(t, u)
    BY <1>1, <1>9, OwnerExists
  <2>2. Own(t, u)'
    BY <1>0, <1>2, <1>3, <2>1 DEF Own, CallsOf
  <2> QED
    BY <1>1, <1>5, <1>9, <2>2 DEF TabInv, OneUsers, Waits
<1>10. Elsewhere(t)
  BY <1>0, <1>3, OneCallElsewhere
<1> QED
  BY <1>6, <1>7, <1>8, <1>9, <1>10, OneTab DEF TabInv

LEMMA TabUnauthorized ==
    ASSUME TypeOK, Tabwise, NEW c \in Calls, Unauthorized(c)
    PROVE  Tabwise'
<1> DEFINE t == TabOf[c]
           own == tokens[t]
           q == [call[c] EXCEPT !.pc = "refreshing", !.retried = TRUE, !.answer = "none",
                                !.user = own.user, !.fresh = (own.refresh = "fresh")]
<1>0. t \in Tabs /\ c \in CallsOf(t) /\ TabInv(t) /\ call[c] \in Call /\ own \in Tokens
  BY SessionAssumption DEF CallsOf, Tabwise, TypeOK
<1>1. call[c].pc = "answered" /\ own.refresh # "none"
  BY DEF Unauthorized
<1>2. own.user \in Users
  BY <1>0, <1>1 DEF TypeOK
<1>3. call[c].kind # "exchange"
  BY <1>0, <1>1 DEF TabInv, Follows, Rests, Waits
<1>4. /\ q.kind = call[c].kind /\ q.pc = "refreshing" /\ q.user = own.user
      /\ q.fresh = (own.refresh = "fresh") /\ q.tenant = call[c].tenant
      /\ q.offer = call[c].offer /\ q.answer = "none"
  BY <1>0 DEF Call
<1>5. /\ call' = [call EXCEPT ![c] = q]
      /\ UNCHANGED <<page, leaving, choice, tokens, active, alone>>
  BY DEF Unauthorized
<1>6. tokens' = [tokens EXCEPT ![t] = own]
  BY <1>0, <1>5 DEF TypeOK
<1> HIDE DEF q
<1>7. ASSUME NEW u \in Users, Own(t, u)
      PROVE  /\ OwnCall(q, u) /\ own.user \in {u, Nobody}
             /\ leaving[t] = "none" => Staying(q, u)
  <2>1. own.user \in {u, Nobody} /\ OwnCall(call[c], u)
    BY <1>0, <1>7 DEF Own
  <2>2. leaving[t] = "none" => Staying(call[c], u)
    BY <1>0, <1>7 DEF Own
  <2> QED
    BY <1>3, <1>4, <2>1, <2>2 DEF OwnCall, Staying
<1> HIDE DEF own
<1> QED
  BY <1>1, <1>3, <1>4, <1>5, <1>6, <1>7, TabCallGoesOn DEF own

LEMMA TabRenewed ==
    ASSUME TypeOK, Tabwise, NEW c \in Calls, Renewed(c)
    PROVE  Tabwise'
<1> DEFINE t == TabOf[c]
           own == [user |-> call[c].user, access |-> "fresh",
                   refresh |-> AfterRotation(tokens[t].refresh)]
           q == Stamped(call[c], own, t)
<1>0. t \in Tabs /\ c \in CallsOf(t) /\ TabInv(t) /\ call[c] \in Call /\ call[c].user \in Users
  BY SessionAssumption DEF CallsOf, Tabwise, TypeOK, Renewed
<1>1. call[c].pc = "refreshing" /\ call[c].kind # "exchange"
  BY <1>0 DEF Renewed, TabInv, Follows
<1>2. own.user = call[c].user /\ own.refresh = tokens[t].refresh
  BY DEF AfterRotation
<1>3. /\ q.kind = call[c].kind /\ q.pc = "sent" /\ q.user = own.user
      /\ q.tenant \in {call[c].tenant, active} /\ q.asked = call[c].asked
      /\ q.offer = call[c].offer /\ q.answer = call[c].answer
  BY <1>0 DEF Stamped, Call
<1>4. /\ call' = [call EXCEPT ![c] = q] /\ tokens' = [tokens EXCEPT ![t] = own]
      /\ UNCHANGED <<page, leaving, choice, active, alone>>
  BY DEF Renewed
<1> HIDE DEF q, own
<1>5. ASSUME NEW u \in Users, Own(t, u)
      PROVE  /\ OwnCall(q, u) /\ own.user \in {u, Nobody}
             /\ leaving[t] = "none" => Staying(q, u)
  <2>1. OwnCall(call[c], u) /\ active \in Usable[u] \cup {NoTenant}
    BY <1>0, <1>5 DEF Own
  <2>2. leaving[t] = "none" => Staying(call[c], u)
    BY <1>0, <1>5 DEF Own
  <2>3. call[c].user = u
    BY <1>0, <2>1, SessionAssumption DEF OwnCall
  <2> QED
    BY <1>1, <1>2, <1>3, <2>1, <2>2, <2>3 DEF OwnCall, Staying
<1> QED
  BY <1>0, <1>1, <1>2, <1>3, <1>4, <1>5, TabCallGoesOn

-----------------------------------------------------------------------------
(* Time and administrators *)

LEMMA TabExpires ==
    ASSUME TypeOK, Tabwise, NEW t \in Tabs, AccessExpires(t) \/ RefreshExpires(t)
    PROVE  Tabwise'
<1>1. tokens[t] \in Tokens /\ TabInv(t)
  BY DEF TypeOK, Tabwise
<1>2. UNCHANGED <<page, leaving, choice, active, alone>>
  BY DEF AccessExpires, RefreshExpires
<1>3. /\ tokens'[t].user = tokens[t].user
      /\ \/ tokens'[t].refresh = tokens[t].refresh
         \/ tokens[t].refresh = "fresh" /\ tokens'[t].refresh = "stale"
      /\ \A s \in Tabs \ {t} : tokens'[s] = tokens[s]
  BY <1>1 DEF TypeOK, Tokens, AccessExpires, RefreshExpires
<1>4. ASSUME NEW d \in CallsOf(t)
      PROVE  \/ call'[d] = call[d]
             \/ /\ call[d].pc \in {"sent", "refreshing"} /\ call'[d].pc = call[d].pc
                /\ call'[d].kind = call[d].kind /\ call'[d].user = call[d].user
                /\ call'[d].tenant = call[d].tenant /\ call'[d].offer = call[d].offer
                /\ call'[d].answer = call[d].answer /\ call'[d].asked = call[d].asked
                /\ call[d].pc = "refreshing" => tokens'[t].refresh = "stale"
  <2>1. call[d] \in Call /\ d \in Calls
    BY DEF CallsOf, TypeOK
  <2>2. CASE AccessExpires(t)
    <3>1. \/ call'[d] = call[d]
          \/ call[d].pc = "sent" /\ call'[d] = [call[d] EXCEPT !.fresh = FALSE]
      BY <2>1, <2>2 DEF AccessExpires
    <3> QED
      BY <2>1, <3>1 DEF Call
  <2>3. CASE RefreshExpires(t)
    <3>1. \/ call'[d] = call[d]
          \/ call[d].pc = "refreshing" /\ call'[d] = [call[d] EXCEPT !.fresh = FALSE]
      BY <2>1, <2>3 DEF RefreshExpires
    <3>2. tokens'[t].refresh = "stale"
      BY <1>1, <2>3 DEF TypeOK, Tokens, RefreshExpires
    <3> QED
      BY <2>1, <3>1, <3>2 DEF Call
  <2> QED
    BY <2>2, <2>3
<1>5. \A d \in CallsOf(t) : Follows(d)'
  <2> SUFFICES ASSUME NEW d \in CallsOf(t) PROVE Follows(d)'
    OBVIOUS
  <2>1. \A e \in CallsOf(t) : /\ call'[e].kind = call[e].kind /\ call'[e].pc = call[e].pc
                              /\ call[e] = NoCall => call'[e] = NoCall
    BY <1>4, IdleCall
  <2>2. Follows(d) /\ TabOf[d] = t
    BY <1>1 DEF TabInv, CallsOf
  <2>3. call[d].pc = "idle" => call'[d] = call[d]
    BY <1>4
  <2> QED
    BY <1>2, <2>1, <2>2, <2>3 DEF Follows, OfPage, Waits
<1>6. \A d \in CallsOf(t) : RefusedRightly(d)'
  BY <1>1, <1>3, <1>4 DEF RefusedRightly, CallsOf, TabInv
<1>7. Rests(t)'
  BY <1>1, <1>2, <1>3 DEF TabInv, Rests, Waits, Inside
<1>8. ASSUME t \in alone' PROVE OneUsers(t)'
  <2>1. OneUsers(t)
    BY <1>1, <1>2, <1>8 DEF TabInv
  <2>2. ASSUME Blank(t) PROVE Blank(t)'
    <3>1. \A d \in CallsOf(t) : call'[d].kind = call[d].kind /\ call'[d].tenant = call[d].tenant
      BY <1>4
    <3>2. \A d \in CallsOf(t) : call[d] = NoCall => call'[d] = NoCall
      BY <1>4, IdleCall
    <3>3. \A d \in CallsOf(t) : HandsOver(call'[d]) => call'[d] = call[d]
      BY <1>4 DEF HandsOver
    <3> QED
      BY <1>2, <2>2, <3>1, <3>2, <3>3 DEF Blank
  <2>3. ASSUME NEW u \in Users, Own(t, u) PROVE Own(t, u)'
    BY <1>2, <1>3, <1>4, <2>3 DEF Own, OwnCall, Staying
  <2> QED
    BY <1>2, <2>1, <2>2, <2>3 DEF OneUsers, Inside, Waits
<1>9. \A s \in Tabs \ {t} : \A d \in CallsOf(s) : call'[d] = call[d]
  BY DEF CallsOf, AccessExpires, RefreshExpires
<1>10. Elsewhere(t)
  BY <1>2, <1>3, <1>9 DEF Elsewhere, Untouched
<1> QED
  BY <1>5, <1>6, <1>7, <1>8, <1>10, OneTab DEF TabInv

LEMMA TabwiseStep == TypeOK /\ Tabwise /\ [Next]_vars => Tabwise'
<1> SUFFICES ASSUME TypeOK, Tabwise, [Next]_vars PROVE Tabwise'
  OBVIOUS
<1>1. ASSUME UNCHANGED <<active, page, leaving, choice, tokens, call, alone>> PROVE Tabwise'
  BY <1>1, UntouchedKeeps DEF Tabwise, Untouched
<1>2. CASE UNCHANGED vars
  BY <1>1, <1>2 DEF vars
<1>3. CASE SessionExpires \/ \E u \in Users : AccessChanges(u)
  BY <1>1, <1>3 DEF SessionExpires, AccessChanges
<1>4. ASSUME NEW t \in Tabs,
             \/ StartLogin(t) \/ Arrives(t) \/ OAuthFails(t) \/ SelectorOpens(t)
             \/ SwitchTenant(t) \/ Logout(t) \/ Revisit(t)
             \/ AccessExpires(t) \/ RefreshExpires(t)
      PROVE  Tabwise'
  BY <1>4, TabStartLogin, TabArrives, TabOAuthFails, TabPages, TabLogout, TabExpires
<1>5. ASSUME NEW c \in Calls, CallStep(c) PROVE Tabwise'
  BY <1>5, TabServe, TabExchanged, TabSelected, TabSettles, TabUnauthorized, TabRenewed,
     TabLoggedOut DEF CallStep
<1> QED
  BY <1>2, <1>3, <1>4, <1>5, TabAuthCallback, TabSelectTenant, TabPageCalls DEF Next

LEMMA TabwiseHolds == Spec => [](TypeOK /\ Tabwise)
<1>1. Init => TypeOK /\ Tabwise
  BY TypeInit, TabwiseInit
<1>2. TypeOK /\ Tabwise /\ [Next]_vars => (TypeOK /\ Tabwise)'
  BY TypeStep, TabwiseStep
<1> QED
  BY <1>1, <1>2, PTL DEF Spec

-----------------------------------------------------------------------------
(* What follows *)

\* A tab that came to Authentik with no tenant active, and that since then alone
\* chose tenants on pages that stay, asks of buckets, with a user's token, only in
\* a tenant that this user could use.
THEOREM TenantsAreOwn == Spec => []TenantIsOwn
<1>1. TypeOK /\ Tabwise => TenantIsOwn
  <2> SUFFICES ASSUME TypeOK, Tabwise, NEW c \in Calls, call[c].pc = "sent",
                      call[c].kind = "bucket", call[c].user \in Users,
                      TabOf[c] \in alone, call[c].tenant # NoTenant
               PROVE  call[c].tenant \in Usable[call[c].user]
    BY DEF TenantIsOwn
  <2>1. TabOf[c] \in Tabs /\ c \in CallsOf(TabOf[c]) /\ TabInv(TabOf[c])
    BY SessionAssumption DEF CallsOf, Tabwise
  <2>2. PICK u \in Users : Own(TabOf[c], u)
    BY <2>1, OwnerExists
  <2>3. OwnCall(call[c], u)
    BY <2>1, <2>2 DEF Own
  <2> QED
    BY <2>3, SessionAssumption DEF OwnCall
<1> QED
  BY <1>1, TabwiseHolds, PTL

\* A tab gives a good refresh token up only when its user leaves, the token
\* expires or the renewal itself fails on the way.
THEOREM SessionsOutlastTokens == Spec => SessionsLast
<1> DEFINE Kept == \A t \in Tabs :
             tokens[t].refresh = "fresh" /\ tokens'[t].refresh # "fresh" =>
             Logout(t) \/ StartLogin(t) \/ RefreshExpires(t) \/ troubles' < troubles
<1>1. TypeOK /\ Tabwise /\ [Next]_vars => [Kept]_vars
  <2> SUFFICES ASSUME TypeOK, Tabwise, Next, NEW t \in Tabs, tokens[t].refresh = "fresh",
                      tokens'[t].refresh # "fresh"
               PROVE  Logout(t) \/ StartLogin(t) \/ RefreshExpires(t) \/ troubles' < troubles
    OBVIOUS
  <2>1. tokens[t] \in Tokens /\ TabInv(t)
    BY DEF TypeOK, Tabwise
  <2>2. ASSUME NEW s \in Tabs, StartLogin(s) \/ Logout(s) \/ RefreshExpires(s) PROVE s = t
    BY <2>2 DEF TypeOK, StartLogin, Logout, RefreshExpires, Leaves
  <2>3. ASSUME NEW s \in Tabs, OAuthFails(s) PROVE FALSE
    <3>1. s = t
      BY <2>3 DEF TypeOK, OAuthFails, Leaves
    <3> QED
      BY <2>1, <2>3, <3>1 DEF OAuthFails, TabInv, Rests, Waits
  <2>4. ASSUME NEW s \in Tabs, AccessExpires(s) PROVE FALSE
    BY <2>1, <2>4 DEF TypeOK, Tokens, AccessExpires
  <2>5. ASSUME NEW c \in Calls, Exchanged(c) PROVE FALSE
    BY <2>5 DEF TypeOK, Exchanged
  <2>6. ASSUME NEW c \in Calls, Renewed(c) PROVE FALSE
    BY <2>6 DEF TypeOK, Renewed, AfterRotation
  <2>7. ASSUME NEW c \in Calls, LoggedOut(c) PROVE troubles' < troubles
    <3>1. TabOf[c] = t
      BY <2>7 DEF TypeOK, LoggedOut, Leaves
    <3>2. call[c].pc = "refreshing" => call[c].fresh
      BY <2>1, <3>1 DEF TabInv, RefusedRightly, CallsOf
    <3>3. Trouble
      BY <2>7, <3>1, <3>2 DEF LoggedOut
    <3> QED
      BY <3>3 DEF Trouble, TypeOK
  <2>8. tokens' # tokens
    OBVIOUS
  <2> QED
    BY <2>2, <2>3, <2>4, <2>5, <2>6, <2>7, <2>8
       DEF Next, CallStep, Arrives, SelectorOpens, SwitchTenant, Revisit, PageCalls, Serve,
           TenantSelected, TenantsLoaded, Settles, Unauthorized, AuthCallback, SelectTenant,
           SessionExpires, AccessChanges
<1>2. Spec => [][Kept]_vars
  BY <1>1, TabwiseHolds, PTL DEF Spec
<1> QED
  BY <1>2 DEF SessionsLast
=============================================================================
