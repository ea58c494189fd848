-------------------------- MODULE TenantAccessProofs --------------------------
(***************************************************************************)
(* Proofs about TenantAccess: its type invariant, and that it implements   *)
(* the abstract AccessGate.                                                *)
(***************************************************************************)
EXTENDS TenantAccess, TLAPS

-----------------------------------------------------------------------------
(* Rows *)

\* Every row the code writes is a membership, and only a missing one has no role.
GoodRow(row) ==
    row \in Membership /\ (row.role = "none" => row = NoMembership)

IdleLogins == \A l \in Logins : login[l].user = Nobody => login[l] = NoLogin
IdleRefreshes ==
    \A f \in Refreshers : refresh[f].tenant = NoTenant => refresh[f] = NoRefresh

\* TypeOK says of each membership that it is a good row.
LEMMA RowsAreGood ==
    TypeOK <=>
        /\ mappings \subseteq Mapping
        /\ member \in [Users -> [Tenants -> Membership]]
        /\ \A u \in Users, t \in Tenants : GoodRow(member[u][t])
        /\ claims \in [Users -> SUBSET Groups]
        /\ upstream \in [Users -> [Synced -> UpstreamRole]]
        /\ login \in [Logins -> Login] /\ IdleLogins
        /\ refresh \in [Refreshers -> Refresh] /\ IdleRefreshes
        /\ faults \in Nat
        /\ unsettled \subseteq Users
BY DEF TypeOK, GoodRow, IdleLogins, IdleRefreshes

\* The operators that make a new row from an old one keep it a good row.
LEMMA NewRows ==
    ASSUME NEW row \in Membership, GoodRow(row)
    PROVE  /\ GoodRow(Revoked(row)) /\ GoodRow(Cleared(row)) /\ GoodRow(Deactivated(row))
           /\ \A role \in Role : GoodRow(Upserted(row, role))
           /\ \A left : row.role # "none" => GoodRow(FallBack(row, left))
<1> USE DEF Membership, NoMembership, Row, Role, GoodRow
<1>1. GoodRow(Revoked(row))
  BY DEF Revoked
<1>2. GoodRow(Cleared(row)) /\ GoodRow(Deactivated(row))
  <2>1. CASE row = NoMembership
    <3>1. Cleared(row) = NoMembership /\ Deactivated(row) = NoMembership
      BY <2>1 DEF Cleared, Deactivated
    <3> QED
      BY <3>1
  <2>2. CASE row.role # "none"
    BY <2>2 DEF Cleared, Deactivated
  <2> QED
    BY <2>1, <2>2
<1>4. \A role \in Role : GoodRow(Upserted(row, role))
  BY DEF Upserted
<1>5. ASSUME NEW left, row.role # "none"
      PROVE  GoodRow(FallBack(row, left))
  BY <1>5 DEF FallBack
<1> QED
  BY <1>1, <1>2, <1>4, <1>5

\* So does the removal of a mapping.
LEMMA RemovalRow ==
    ASSUME NEW u, NEW m, NEW row \in Membership, GoodRow(row)
    PROVE  GoodRow(AfterRemoval(u, m, row))
<1>1. row.active => row.role # "none"
  BY DEF GoodRow, NoMembership, Row
<1> QED
  BY <1>1, NewRows DEF AfterRemoval

-----------------------------------------------------------------------------
(* Type correctness *)

Rows ==
    /\ member \in [Users -> [Tenants -> Membership]]
    /\ \A u \in Users, t \in Tenants : GoodRow(member[u][t])

\* The rows of a typed state.
LEMMA TypeIsRows == TypeOK => Rows
BY RowsAreGood DEF Rows

\* Replacing one row by a good one keeps the table good.
LEMMA OneRow ==
    ASSUME Rows, NEW u \in Users, NEW t \in Tenants, NEW row, GoodRow(row),
           member' = [member EXCEPT ![u][t] = row]
    PROVE  Rows'
BY DEF Rows, GoodRow

\* Reconciling keeps it good.
LEMMA ReconciledRows ==
    ASSUME Rows, NEW u \in Users, NEW authorized, ReconcileAccess(u, authorized)
    PROVE  Rows'
<1> DEFINE New(t) == IF t \in authorized THEN Cleared(member[u][t]) ELSE Revoked(member[u][t])
<1>1. \A t \in Tenants : GoodRow(New(t))
  BY NewRows DEF Rows
<1>2. member' = [member EXCEPT ![u] = [t \in Tenants |-> New(t)]]
  BY DEF ReconcileAccess, Rows
<1> HIDE DEF New
<1>3. [t \in Tenants |-> New(t)] \in [Tenants -> Membership]
  BY <1>1 DEF GoodRow
<1> QED
  BY <1>1, <1>2, <1>3 DEF Rows

\* One row of each user, in a tenant t: the shape of a deletion and of the end
\* of a refresh.
LEMMA OneColumn ==
    ASSUME Rows, NEW t \in Tenants, NEW new,
           \A u \in Users : GoodRow(new[u]),
           member' = [u \in Users |-> [member[u] EXCEPT ![t] = new[u]]]
    PROVE  Rows'
<1>1. ASSUME NEW u \in Users
      PROVE  /\ member'[u] \in [Tenants -> Membership]
             /\ \A s \in Tenants : GoodRow(member'[u][s])
  BY DEF Rows, GoodRow
<1> QED
  BY <1>1 DEF Rows

\* What a visit leaves of the logins.
LEMMA LoginType ==
    ASSUME TypeOK, NEW l \in Logins, NEW m \in login[l].todo
    PROVE  /\ m \in Mapping /\ login[l].user \in Users
           /\ Visited(l, m) \in [Logins -> Login]
           /\ Matched(l, m) \in [Logins -> Login]
           /\ \A k \in Logins : Visited(l, m)[k].user = login[k].user
           /\ \A k \in Logins : Matched(l, m)[k].user = login[k].user
           /\ \A k \in Logins \ {l} : /\ Visited(l, m)[k] = login[k]
                                      /\ Matched(l, m)[k] = login[k]
<1>0. login[l] \in Login
  BY DEF TypeOK
<1>1. m \in Mapping /\ m.tenant \in Tenants
  BY <1>0 DEF Login, Mapping
<1>2. login[l].user \in Users
  BY <1>0 DEF TypeOK, Login, NoLogin
<1>3. Visited(l, m) \in [Logins -> Login]
  BY DEF TypeOK, Login, Visited
<1>4. Matched(l, m) \in [Logins -> Login]
  BY <1>1 DEF TypeOK, Login, Matched
<1>5. \A k \in Logins : Visited(l, m)[k].user = login[k].user
  BY DEF TypeOK, Login, Visited
<1>6. \A k \in Logins : Matched(l, m)[k].user = login[k].user
  BY DEF TypeOK, Login, Matched
<1>7. \A k \in Logins \ {l} : Visited(l, m)[k] = login[k] /\ Matched(l, m)[k] = login[k]
  BY DEF TypeOK, Login, Visited, Matched
<1> QED
  BY <1>1, <1>2, <1>3, <1>4, <1>5, <1>6, <1>7

\* So a visit leaves the logins typed.
LEMMA VisitType ==
    ASSUME TypeOK, NEW l \in Logins, NEW m \in login[l].todo,
           login' = Visited(l, m) \/ login' = Matched(l, m)
    PROVE  login' \in [Logins -> Login] /\ IdleLogins'
<1>1. \A k \in Logins : login'[k].user = login[k].user
  BY LoginType
<1>2. login[l].user # Nobody
  BY LoginType, ConstantsAssumption DEF ConstantsAssumption
<1>3. ASSUME NEW k \in Logins, login'[k].user = Nobody
      PROVE  login'[k] = NoLogin
  BY <1>1, <1>2, <1>3, LoginType DEF TypeOK
<1> QED
  BY <1>3, LoginType DEF IdleLogins

\* Types hold at the start.
LEMMA TypeInit == Init => TypeOK
BY ConstantsAssumption
DEF Init, TypeOK, Membership, NoMembership, Row, Login, NoLogin, Refresh,
    NoRefresh, ConstantsAssumption

\* A login's steps keep the types.
LEMMA TypeLogin ==
    ASSUME TypeOK, NEW l \in Logins, LoginStep(l)
    PROVE  TypeOK'
<1>0. Rows /\ login[l] \in Login
  BY TypeIsRows DEF TypeOK
<1>1. ASSUME NEW u \in Users, NEW G \in SUBSET Groups, LoginBegins(l, u, G)
      PROVE  TypeOK'
  <2>1. BestOf(Claimed(G)) \in SUBSET Mapping
    BY DEF TypeOK, BestOf, Claimed
  <2>2. login' \in [Logins -> Login]
    BY <1>1, <2>1 DEF TypeOK, LoginBegins, Login
  <2>3. ASSUME NEW k \in Logins, login'[k].user = Nobody
        PROVE  login'[k] = NoLogin
    BY <1>1, <2>3, ConstantsAssumption
    DEF LoginBegins, TypeOK, InProgress, ConstantsAssumption
  <2>4. claims' \in [Users -> SUBSET Groups]
    BY <1>1 DEF TypeOK, LoginBegins
  <2> QED
    BY <1>1, <2>2, <2>3, <2>4 DEF TypeOK, LoginBegins, IdleLogins
<1>2. ASSUME NEW m \in login[l].todo,
             \/ VisitManaged(l, m) \/ VisitSynced(l, m) \/ VisitAbsent(l, m)
             \/ VisitFails(l, m) \/ VisitConflicts(l, m)
      PROVE  TypeOK'
  <2> DEFINE u == login[l].user  t == m.tenant
  <2>0. m \in Mapping /\ t \in Tenants /\ m.role \in Role /\ u \in Users
    BY LoginType DEF Mapping
  <2>1. CASE VisitManaged(l, m)
    <3>1. GoodRow(Upserted(member[u][t], m.role))
      BY <1>0, <2>0, NewRows DEF Rows
    <3>2. member' = [member EXCEPT ![u][t] = Upserted(member[u][t], m.role)]
      BY <2>1 DEF VisitManaged
    <3>3. Rows'
      BY <1>0, <2>0, <3>1, <3>2, OneRow
    <3> QED
      BY <2>1, <3>3, VisitType DEF VisitManaged, Rows, GoodRow, TypeOK, IdleLogins
  <2>2. CASE VisitSynced(l, m)
    <3>1. LoginRole(upstream[u][t]) \in Role
      BY DEF LoginRole, Role
    <3>2. GoodRow(Upserted(member[u][t], LoginRole(upstream[u][t])))
      BY <1>0, <2>0, <3>1, NewRows DEF Rows
    <3>3. member' = [member EXCEPT ![u][t] =
                       Upserted(member[u][t], LoginRole(upstream[u][t]))]
      BY <2>2 DEF VisitSynced
    <3>4. Rows'
      BY <1>0, <2>0, <3>2, <3>3, OneRow
    <3> QED
      BY <2>2, <3>4, VisitType DEF VisitSynced, Rows, GoodRow, TypeOK, IdleLogins
  <2>3. CASE VisitAbsent(l, m)
    BY <2>3, VisitType DEF VisitAbsent, TypeOK, IdleLogins
  <2>4. CASE VisitFails(l, m)
    BY <2>4, VisitType DEF VisitFails, Fault, TypeOK, IdleLogins
  <2>5. CASE VisitConflicts(l, m)
    <3>1. login' \in [Logins -> Login]
      <4>1. Visited(l, m)[l] \in Login
        BY LoginType
      <4>2. [Visited(l, m)[l] EXCEPT !.calm = FALSE] \in Login
        BY <4>1 DEF Login
      <4> QED
        BY <2>5, <4>2, LoginType DEF VisitConflicts
    <3>2. \A k \in Logins : login'[k].user = login[k].user
      BY <2>5, LoginType DEF VisitConflicts, Login
    <3>3. \A k \in Logins \ {l} : login'[k] = login[k]
      BY <2>5, LoginType DEF VisitConflicts
    <3>4. IdleLogins'
      BY <2>0, <3>2, <3>3, ConstantsAssumption DEF IdleLogins, TypeOK, ConstantsAssumption
    <3> QED
      BY <2>5, <3>1, <3>4 DEF VisitConflicts, Fault, TypeOK, IdleLogins
  <2> QED
    BY <1>2, <2>1, <2>2, <2>3, <2>4, <2>5
<1>3. NoLogin \in Login
  BY DEF NoLogin, Login
<1>4. CASE LoginReconciles(l)
  <2>1. login[l].user \in Users
    BY <1>0, <1>4 DEF LoginReconciles, Login
  <2>2. Rows'
    BY <1>0, <1>4, <2>1, ReconciledRows DEF LoginReconciles
  <2> QED
    BY <1>3, <1>4, <2>1, <2>2 DEF LoginReconciles, Rows, GoodRow, TypeOK, IdleLogins
<1>5. CASE LoginDies(l)
  BY <1>0, <1>3, <1>5 DEF LoginDies, Fault, TypeOK, Login, IdleLogins
<1> QED
  BY <1>1, <1>2, <1>4, <1>5 DEF LoginStep

\* A refused login keeps them.
LEMMA TypeRefused ==
    ASSUME TypeOK, NEW u \in Users, NEW G \in SUBSET Groups, LoginRefused(u, G)
    PROVE  TypeOK'
<1>1. Rows'
  BY TypeIsRows, ReconciledRows DEF LoginRefused
<1>2. login' \in [Logins -> Login]
  BY DEF LoginRefused, TypeOK, Login
<1>3. IdleLogins'
  BY ConstantsAssumption
  DEF LoginRefused, TypeOK, IdleLogins, InProgress, ConstantsAssumption
<1>4. claims' \in [Users -> SUBSET Groups]
  BY DEF LoginRefused, TypeOK
<1> QED
  BY <1>1, <1>2, <1>3, <1>4 DEF LoginRefused, Rows, GoodRow, TypeOK, IdleLogins

\* A mapping change marks the logins in progress and leaves them typed.
LEMMA DisturbedType ==
    ASSUME TypeOK, login' = Disturbed
    PROVE  login' \in [Logins -> Login] /\ IdleLogins'
<1>1. NoLogin \in Login
  BY DEF NoLogin, Login
<1>2. login' \in [Logins -> Login]
  BY <1>1 DEF TypeOK, Disturbed, Login
<1>3. ASSUME NEW l \in Logins, login'[l].user = Nobody
      PROVE  login'[l] = NoLogin
  BY <1>3 DEF TypeOK, Disturbed, Login
<1> QED
  BY <1>2, <1>3 DEF IdleLogins

\* Administrators' steps keep the types.
LEMMA TypeAdmin ==
    ASSUME TypeOK, AdminStep
    PROVE  TypeOK'
<1>1. ASSUME NEW g \in Groups, NEW t \in Tenants, NEW role \in Role,
             CreateMapping(g, t, role)
      PROVE  TypeOK'
  <2>1. mappings' \subseteq Mapping
    BY <1>1 DEF CreateMapping, TypeOK, Mapping
  <2> QED
    BY <1>1, <2>1, DisturbedType DEF CreateMapping, TypeOK, IdleLogins
<1>2. ASSUME NEW m \in mappings, DeleteMapping(m)
      PROVE  TypeOK'
  <2> DEFINE new == [u \in Users |-> AfterRemoval(u, m, member[u][m.tenant])]
  <2>1. m.tenant \in Tenants
    BY DEF TypeOK, Mapping
  <2>2. \A u \in Users : GoodRow(new[u])
    BY <2>1, TypeIsRows, RemovalRow DEF Rows
  <2>3. member' = [u \in Users |-> [member[u] EXCEPT ![m.tenant] = new[u]]]
    BY <1>2 DEF DeleteMapping
  <2> HIDE DEF new
  <2>4. Rows'
    BY <2>1, <2>2, <2>3, TypeIsRows, OneColumn
  <2>5. mappings' \subseteq Mapping
    BY <1>2 DEF DeleteMapping, TypeOK
  <2> QED
    BY <1>2, <2>4, <2>5, DisturbedType DEF DeleteMapping, Rows, GoodRow, TypeOK, IdleLogins
<1> QED
  BY <1>1, <1>2 DEF AdminStep

\* The refresh's steps keep the types.
LEMMA TypeRefresh ==
    ASSUME TypeOK, NEW f \in Refreshers, RefreshStep(f)
    PROVE  TypeOK'
<1>0. Rows /\ refresh[f] \in Refresh
  BY TypeIsRows DEF TypeOK
<1>1. ASSUME NEW t \in Synced, RefreshBegins(f, t)
      PROVE  TypeOK'
  <2>1. refresh' \in [Refreshers -> Refresh] /\ IdleRefreshes'
    BY <1>1, ConstantsAssumption
    DEF RefreshBegins, TypeOK, Refresh, IdleRefreshes, ConstantsAssumption
  <2>2. faults' \in Nat
    BY <1>1 DEF RefreshBegins, Fault, TypeOK
  <2> QED
    BY <1>1, <2>1, <2>2 DEF RefreshBegins, TypeOK, IdleRefreshes
<1>2. ASSUME NEW u \in Users, refresh' = [refresh EXCEPT ![f].todo = @ \ {u}],
             u \in refresh[f].todo
      PROVE  /\ refresh' \in [Refreshers -> Refresh] /\ IdleRefreshes'
             /\ refresh[f].tenant \in Synced
  <2>1. refresh' \in [Refreshers -> Refresh]
    BY <1>2 DEF TypeOK, Refresh
  <2>2. refresh[f].tenant \in Synced
    <3>1. NoRefresh.todo = {}
      BY DEF NoRefresh
    <3>2. refresh[f] # NoRefresh
      BY <1>2, <3>1
    <3>3. refresh[f].tenant # NoTenant
      BY <3>2 DEF TypeOK
    <3> QED
      BY <1>0, <3>3 DEF Refresh
  <2>3. IdleRefreshes'
    BY <1>2, <2>2, ConstantsAssumption
    DEF TypeOK, Refresh, IdleRefreshes, ConstantsAssumption
  <2> QED
    BY <2>1, <2>2, <2>3
<1>3. ASSUME NEW u \in Users, RefreshUser(f, u)
      PROVE  TypeOK'
  <2> DEFINE t == refresh[f].tenant
  <2>0. t \in Synced /\ t \in Tenants
    BY <1>2, <1>3, ConstantsAssumption DEF RefreshUser, ConstantsAssumption
  <2>1. CASE UpstreamHas(u, t)
    <3> DEFINE role == ImportedRole(upstream[u][t], refresh[f].buckets)
    <3>1. role \in Role
      BY DEF ImportedRole, Role
    <3> HIDE DEF role
    <3>2. GoodRow(Upserted(member[u][t], role))
      BY <1>0, <2>0, <3>1, NewRows DEF Rows
    <3>3. member' = [member EXCEPT ![u][t] = Upserted(member[u][t], role)]
      BY <1>3, <2>1 DEF RefreshUser, role
    <3>4. Rows'
      BY <1>0, <2>0, <3>2, <3>3, OneRow
    <3> QED
      BY <1>2, <1>3, <3>4 DEF RefreshUser, Rows, GoodRow, TypeOK, IdleRefreshes
  <2>2. CASE ~UpstreamHas(u, t)
    BY <1>2, <1>3, <2>2 DEF RefreshUser, TypeOK, IdleRefreshes
  <2> QED
    BY <2>1, <2>2
<1>4. ASSUME NEW u \in Users, RefreshUserFails(f, u)
      PROVE  TypeOK'
  <2>1. refresh' \in [Refreshers -> Refresh] /\ IdleRefreshes'
    BY <1>2, <1>4 DEF RefreshUserFails
  <2> QED
    BY <1>4, <2>1 DEF RefreshUserFails, Fault, TypeOK, IdleRefreshes
<1>5. NoRefresh \in Refresh
  BY DEF NoRefresh, Refresh
<1>6. ASSUME refresh' = [refresh EXCEPT ![f] = NoRefresh]
      PROVE  refresh' \in [Refreshers -> Refresh] /\ IdleRefreshes'
  BY <1>5, <1>6 DEF TypeOK, IdleRefreshes
<1>7. CASE RefreshEnds(f)
  <2> DEFINE t == refresh[f].tenant
             new == [u \in Users |-> IF u \in refresh[f].listed THEN member[u][t]
                                     ELSE Deactivated(member[u][t])]
  <2>1. t \in Tenants
    BY <1>0, <1>7, ConstantsAssumption DEF RefreshEnds, Refresh, ConstantsAssumption
  <2>2. \A u \in Users : GoodRow(new[u])
    BY <1>0, <2>1, NewRows DEF Rows
  <2>3. member' = [u \in Users |-> [member[u] EXCEPT ![t] = new[u]]]
    BY <1>0, <1>7, <2>1 DEF RefreshEnds, Rows
  <2> HIDE DEF new
  <2>4. Rows'
    BY <1>0, <2>1, <2>2, <2>3, OneColumn
  <2> QED
    BY <1>6, <1>7, <2>4 DEF RefreshEnds, Rows, GoodRow, TypeOK, IdleRefreshes
<1>8. CASE RefreshDies(f)
  BY <1>6, <1>8 DEF RefreshDies, Fault, TypeOK, IdleRefreshes
<1> QED
  BY <1>1, <1>3, <1>4, <1>7, <1>8 DEF RefreshStep

\* Every step keeps them.
LEMMA TypeStep == TypeOK /\ [Next]_vars => TypeOK'
<1> SUFFICES ASSUME TypeOK, [Next]_vars PROVE TypeOK'
  OBVIOUS
<1>1. ASSUME NEW u \in Users, NEW t \in Synced, UpstreamChanges(u, t)
      PROVE  TypeOK'
  BY <1>1 DEF UpstreamChanges, TypeOK
<1>2. CASE UNCHANGED vars
  BY <1>2 DEF vars, TypeOK
<1> QED
  BY <1>1, <1>2, TypeLogin, TypeRefused, TypeAdmin, TypeRefresh DEF Next

\* TypeOK holds in every reachable state.
THEOREM AccessTypeCorrect == Spec => []TypeOK
BY TypeInit, TypeStep, PTL DEF Spec

-----------------------------------------------------------------------------
(***************************************************************************)
(* TenantAccess implements AccessGate: under the refinement mapping of     *)
(* TenantAccess, its initial state is one of the gate's and each of its    *)
(* steps is a step of the gate or a stutter.                               *)
(***************************************************************************)

-----------------------------------------------------------------------------
(* The standing of a row *)

\* What the row operators do to the standing.
LEMMA StandingOfNew ==
    ASSUME NEW row \in Membership, GoodRow(row)
    PROVE  /\ StandingOf(row) \in Gate!Standing
           /\ StandingOf(Revoked(row)) = Gate!Decided(StandingOf(row), FALSE)
           /\ StandingOf(Cleared(row)) = Gate!Decided(StandingOf(row), TRUE)
           /\ StandingOf(Deactivated(row)) = StandingOf(row)
           /\ \A role \in Role : StandingOf(Upserted(row, role)) =
                IF row.role = "none" THEN "good" ELSE StandingOf(row)
           /\ \A left : row.role # "none" =>
                StandingOf(FallBack(row, left)) = StandingOf(row)
<1> USE DEF StandingOf, Row
<1>1. StandingOf(row) \in Gate!Standing
  BY DEF Gate!Standing
<1>2. StandingOf(Revoked(row)) = Gate!Decided(StandingOf(row), FALSE)
  BY DEF Gate!Decided, Revoked
<1>3. StandingOf(Cleared(row)) = Gate!Decided(StandingOf(row), TRUE)
  BY DEF Gate!Decided, Cleared
<1>4. StandingOf(Deactivated(row)) = StandingOf(row)
  BY DEF Deactivated
<1>5. ASSUME NEW role \in Role
      PROVE  StandingOf(Upserted(row, role)) =
                IF row.role = "none" THEN "good" ELSE StandingOf(row)
  BY DEF Upserted, Role, GoodRow, NoMembership
<1>6. ASSUME NEW left, row.role # "none"
      PROVE  StandingOf(FallBack(row, left)) = StandingOf(row)
  BY <1>6 DEF FallBack
<1> QED
  BY <1>1, <1>2, <1>3, <1>4, <1>5, <1>6

\* The removal of a mapping leaves the standing or withdraws it.
LEMMA StandingAfterRemoval ==
    ASSUME NEW u, NEW m, NEW row \in Membership, GoodRow(row)
    PROVE  StandingOf(AfterRemoval(u, m, row)) \in
             {StandingOf(row), Gate!Decided(StandingOf(row), FALSE)}
<1>1. row.active => row.role # "none"
  BY DEF GoodRow, NoMembership, Row
<1> QED
  BY <1>1, StandingOfNew DEF AfterRemoval

-----------------------------------------------------------------------------
(* What steps do to the presentations *)

\* Logins that keep their user and what they offer present the same.
LEMMA SamePresentations ==
    ASSUME \A l \in Logins : login'[l].user = login[l].user /\ Offers(l)' = Offers(l)
    PROVE  Presentations' = Presentations
<1>1. ASSUME NEW u \in Users
      PROVE  PresentedBy(u)' = PresentedBy(u)
  BY DEF PresentedBy, InProgress
<1> QED
  BY <1>1 DEF Presentations

\* A login that offers less, or ends, takes from its own user's presentations.
LEMMA FewerPresentations ==
    ASSUME NEW l \in Logins, NEW u \in Users, login[l].user = u,
           \A k \in Logins \ {l} : login'[k].user = login[k].user /\ Offers(k)' = Offers(k),
           \/ login'[l].user = Nobody
           \/ login'[l].user = u /\ Offers(l)' \subseteq Offers(l)
    PROVE  \E P \in SUBSET Presentations[u] :
             Presentations' = [Presentations EXCEPT ![u] = P]
<1>1. PresentedBy(u)' \subseteq PresentedBy(u)
  BY ConstantsAssumption DEF PresentedBy, InProgress, ConstantsAssumption
<1>2. ASSUME NEW v \in Users \ {u}
      PROVE  PresentedBy(v)' = PresentedBy(v)
  <2>1. InProgress(v)' = InProgress(v) /\ l \notin InProgress(v)
    BY ConstantsAssumption DEF InProgress, ConstantsAssumption
  <2> QED
    BY <2>1 DEF PresentedBy, InProgress
<1>3. Presentations' = [Presentations EXCEPT ![u] = PresentedBy(u)']
  BY <1>2 DEF Presentations
<1> QED
  BY <1>1, <1>3 DEF Presentations

-----------------------------------------------------------------------------
(* Every step is one of the gate's *)

\* Unchanged rows have unchanged standings.
LEMMA SameStandings == member' = member => Standings' = Standings
BY DEF Standings

\* Writing a membership in an admitted tenant enters it or changes nothing.
LEMMA UpsertIsEnter ==
    ASSUME TypeOK, NEW u \in Users, NEW t \in Tenants, NEW role \in Role,
           t \in Presentations[u] \cup Synced,
           member' = [member EXCEPT ![u][t] = Upserted(member[u][t], role)],
           Presentations' = Presentations, mappings' = mappings
    PROVE  Gate!Enter(u, t) \/ UNCHANGED Gate!vars
<1> DEFINE row == member[u][t]  new == StandingOf(Upserted(row, role))
<1>0. Rows
  BY TypeIsRows
<1>1. Standings' = [Standings EXCEPT ![u][t] = new]
  BY <1>0 DEF Standings, Rows
<1>2. OpenTenants' = OpenTenants
  BY DEF OpenTenants
<1>3. Standings[u][t] = StandingOf(row) /\ new = IF row.role = "none" THEN "good" ELSE StandingOf(row)
  BY <1>0, StandingOfNew DEF Standings, Rows
<1>4. CASE row.role = "none"
  <2>1. Standings[u][t] = "none" /\ new = "good"
    BY <1>3, <1>4 DEF StandingOf
  <2> QED
    BY <1>1, <1>2, <2>1 DEF Gate!Enter
<1>5. CASE row.role # "none"
  <2>1. Standings' = Standings
    BY <1>1, <1>3, <1>5 DEF Standings
  <2> QED
    BY <1>2, <2>1 DEF Gate!vars
<1> QED
  BY <1>4, <1>5

\* Reconciling with presented tenants settles the user's memberships.
LEMMA ReconcileIsSettle ==
    ASSUME TypeOK, NEW u \in Users, NEW T \in SUBSET Presentations[u],
           ReconcileAccess(u, T), mappings' = mappings,
           \E P \in SUBSET Presentations[u] :
             Presentations' = [Presentations EXCEPT ![u] = P]
    PROVE  Gate!Settle(u, T)
<1>0. Rows
  BY TypeIsRows
<1>1. ASSUME NEW v \in Users, NEW t \in Tenants
      PROVE  StandingOf(member'[v][t]) =
               IF v = u THEN Gate!Decided(StandingOf(member[u][t]), t \in T)
               ELSE StandingOf(member[v][t])
  <2>1. CASE v = u /\ t \in T
    <3>1. member'[v][t] = Cleared(member[u][t])
      BY <1>0, <2>1 DEF ReconcileAccess, Rows
    <3>2. StandingOf(member'[v][t]) = Gate!Decided(StandingOf(member[u][t]), TRUE)
      BY <1>0, <3>1, StandingOfNew DEF Rows
    <3> QED
      BY <2>1, <3>2 DEF Gate!Decided
  <2>2. CASE v = u /\ t \notin T
    <3>1. member'[v][t] = Revoked(member[u][t])
      BY <1>0, <2>2 DEF ReconcileAccess, Rows
    <3>2. StandingOf(member'[v][t]) = Gate!Decided(StandingOf(member[u][t]), FALSE)
      BY <1>0, <3>1, StandingOfNew DEF Rows
    <3> QED
      BY <2>2, <3>2 DEF Gate!Decided
  <2>3. CASE v # u
    BY <1>0, <2>3 DEF ReconcileAccess, Rows
  <2> QED
    BY <2>1, <2>2, <2>3
<1>2. Standings' = [Standings EXCEPT ![u] =
                      [t \in Tenants |-> Gate!Decided(Standings[u][t], t \in T)]]
  BY <1>1 DEF Standings
<1> QED
  BY <1>2 DEF Gate!Settle, OpenTenants

\* A login that forgets tenants without writing rows.
LEMMA FewerIsForget ==
    ASSUME NEW u \in Users, member' = member, mappings' = mappings,
           \E P \in SUBSET Presentations[u] :
             Presentations' = [Presentations EXCEPT ![u] = P]
    PROVE  Gate!Forget(u)
BY SameStandings DEF Gate!Forget, OpenTenants

\* What the two ways of visiting a mapping do to what is offered.
LEMMA OffersOfVisit ==
    ASSUME TypeOK, NEW l \in Logins, NEW m \in login[l].todo
    PROVE  /\ m.tenant \in Offers(l)
           /\ login' = Matched(l, m) =>
                \A k \in Logins : login'[k].user = login[k].user /\ Offers(k)' = Offers(k)
           /\ login' = Visited(l, m) =>
                /\ \A k \in Logins \ {l} : Offers(k)' = Offers(k)
                /\ Offers(l)' \subseteq Offers(l)
<1>1. login \in [Logins -> Login]
  BY DEF TypeOK
<1>2. m.tenant \in Offers(l)
  BY DEF Offers
<1>3. ASSUME login' = Matched(l, m)
      PROVE  \A k \in Logins : login'[k].user = login[k].user /\ Offers(k)' = Offers(k)
  <2>1. Offers(l)' = Offers(l)
    <3>1. /\ login'[l].todo = login[l].todo \ {m}
          /\ login'[l].matched = login[l].matched \cup {m.tenant}
      BY <1>1, <1>3 DEF Matched, Login
    <3> QED
      BY <3>1 DEF Offers
  <2> QED
    BY <1>3, <2>1, LoginType DEF Offers
<1>4. ASSUME login' = Visited(l, m)
      PROVE  /\ \A k \in Logins \ {l} : Offers(k)' = Offers(k)
             /\ Offers(l)' \subseteq Offers(l)
  <2>1. login'[l].todo = login[l].todo \ {m} /\ login'[l].matched = login[l].matched
    BY <1>1, <1>4 DEF Visited, Login
  <2> QED
    BY <1>4, <2>1, LoginType DEF Offers
<1> QED
  BY <1>2, <1>3, <1>4

GateStep == [Gate!Next]_Gate!vars

\* What a login in progress offers, its user has presented, and offers are tenants.
LEMMA OffersPresented ==
    ASSUME TypeOK, NEW l \in Logins, login[l].user \in Users
    PROVE  /\ Offers(l) \subseteq Presentations[login[l].user]
           /\ Offers(l) \subseteq Tenants
<1>1. login[l] \in Login
  BY DEF TypeOK
<1> QED
  BY <1>1 DEF Offers, Presentations, PresentedBy, InProgress, Login, Mapping

\* A login that starts presents tenants that are open.
LEMMA BeginsIsPresent ==
    ASSUME TypeOK, NEW l \in Logins, NEW u \in Users, NEW G \in SUBSET Groups,
           LoginBegins(l, u, G)
    PROVE  GateStep
<1> DEFINE T == {m.tenant : m \in BestOf(Claimed(G))}
<1>1. T \subseteq OpenTenants /\ T \in SUBSET Tenants
  BY DEF BestOf, Claimed, OpenTenants, TypeOK, Mapping
<1>2. login'[l] = [user |-> u, todo |-> BestOf(Claimed(G)), matched |-> {},
                   calm |-> InProgress(u) = {}]
  BY DEF LoginBegins
<1>3. Offers(l)' = T /\ login'[l].user = u
  BY <1>2 DEF Offers
<1>4. ASSUME NEW k \in Logins \ {l}
      PROVE  login'[k].user = login[k].user /\ Offers(k)' = Offers(k)
  <2>1. /\ login'[k].user = login[k].user /\ login'[k].todo = login[k].todo
        /\ login'[k].matched = login[k].matched
    BY DEF LoginBegins, TypeOK, Login
  <2> QED
    BY <2>1 DEF Offers
<1>5. login[l].user = Nobody
  BY DEF LoginBegins, NoLogin
<1>6. ASSUME NEW v \in Users
      PROVE  PresentedBy(v)' = IF v = u THEN PresentedBy(v) \cup T ELSE PresentedBy(v)
  <2>1. InProgress(v)' = IF v = u THEN InProgress(v) \cup {l} ELSE InProgress(v)
    BY <1>3, <1>4, <1>5, ConstantsAssumption DEF InProgress, ConstantsAssumption
  <2>2. l \notin InProgress(v) /\ InProgress(v) \subseteq Logins
    BY <1>5, ConstantsAssumption DEF InProgress, ConstantsAssumption
  <2> HIDE DEF T
  <2> QED
    BY <1>3, <1>4, <2>1, <2>2 DEF PresentedBy
<1> HIDE DEF T
<1>7. Presentations' = [Presentations EXCEPT ![u] = @ \cup T]
  BY <1>6 DEF Presentations
<1>8. Standings' = Standings /\ OpenTenants' = OpenTenants
  BY SameStandings DEF LoginBegins, OpenTenants
<1>9. Gate!Present(u, T)
  BY <1>1, <1>7, <1>8 DEF Gate!Present
<1> QED
  BY <1>1, <1>9 DEF GateStep, Gate!Next

\* The steps of a login.
LEMMA LoginIsGateStep ==
    ASSUME TypeOK, NEW l \in Logins, LoginStep(l)
    PROVE  GateStep
<1> DEFINE u == login[l].user
<1>0. login[l] \in Login
  BY DEF TypeOK
<1>1. ASSUME NEW m \in login[l].todo, VisitManaged(l, m) \/ VisitSynced(l, m)
      PROVE  GateStep
  <2> DEFINE t == m.tenant
  <2>0. u \in Users /\ t \in Tenants /\ m.role \in Role
    BY LoginType DEF Mapping
  <2>1. t \in Presentations[u]
    BY <2>0, OffersOfVisit, OffersPresented
  <2>2. Presentations' = Presentations /\ mappings' = mappings
    BY <1>1, OffersOfVisit, SamePresentations DEF VisitManaged, VisitSynced
  <2>3. PICK role \in Role : member' = [member EXCEPT ![u][t] = Upserted(member[u][t], role)]
    <3>1. CASE VisitManaged(l, m)
      BY <2>0, <3>1 DEF VisitManaged
    <3>2. CASE VisitSynced(l, m)
      <4>1. LoginRole(upstream[u][t]) \in Role
        BY DEF LoginRole, Role
      <4> QED
        BY <3>2, <4>1 DEF VisitSynced
    <3> QED
      BY <1>1, <3>1, <3>2
  <2> HIDE DEF u, t
  <2>4. Gate!Enter(u, t) \/ UNCHANGED Gate!vars
    BY <2>0, <2>1, <2>2, <2>3, UpsertIsEnter
  <2> QED
    BY <2>0, <2>4 DEF GateStep, Gate!Next
<1>2. ASSUME NEW m \in login[l].todo,
             VisitAbsent(l, m) \/ VisitFails(l, m) \/ VisitConflicts(l, m)
      PROVE  GateStep
  <2>0. u \in Users
    BY LoginType
  <2>1. /\ \A k \in Logins \ {l} : login'[k].user = login[k].user /\ Offers(k)' = Offers(k)
        /\ login'[l].user = u /\ Offers(l)' \subseteq Offers(l)
    <3>1. CASE login' = Visited(l, m)
      BY <3>1, LoginType, OffersOfVisit
    <3>2. CASE VisitConflicts(l, m)
      <4>1. \A k \in Logins \ {l} : login'[k] = login[k]
        BY <3>2, LoginType DEF VisitConflicts
      <4>2. /\ login'[l].user = u /\ login'[l].todo = login[l].todo \ {m}
            /\ login'[l].matched = login[l].matched
        BY <3>2 DEF VisitConflicts, Visited, TypeOK, Login
      <4> QED
        BY <4>1, <4>2 DEF Offers
    <3> QED
      BY <1>2, <3>1, <3>2 DEF VisitAbsent, VisitFails
  <2>2. member' = member /\ mappings' = mappings
    BY <1>2 DEF VisitAbsent, VisitFails, VisitConflicts
  <2>3. Gate!Forget(u)
    BY <2>0, <2>1, <2>2, FewerPresentations, FewerIsForget
  <2> QED
    BY <2>0, <2>3 DEF GateStep, Gate!Next
<1>3. ASSUME u \in Users, login' = [login EXCEPT ![l] = NoLogin]
      PROVE  \E P \in SUBSET Presentations[u] :
               Presentations' = [Presentations EXCEPT ![u] = P]
  <2>1. \A k \in Logins \ {l} : login'[k].user = login[k].user /\ Offers(k)' = Offers(k)
    BY <1>3 DEF TypeOK, Offers
  <2>2. login'[l].user = Nobody
    BY <1>3 DEF TypeOK, NoLogin
  <2> QED
    BY <1>3, <2>1, <2>2, FewerPresentations
<1>4. CASE LoginReconciles(l)
  <2>1. u \in Users /\ login' = [login EXCEPT ![l] = NoLogin] /\ mappings' = mappings
    BY <1>0, <1>4 DEF LoginReconciles, Login
  <2>2. login[l].matched \in SUBSET Presentations[u] /\ login[l].matched \in SUBSET Tenants
    BY <1>0, <2>1, OffersPresented DEF Offers, Login
  <2>3. ReconcileAccess(u, login[l].matched)
    BY <1>4 DEF LoginReconciles
  <2>4. Gate!Settle(u, login[l].matched)
    BY <1>3, <2>1, <2>2, <2>3, ReconcileIsSettle
  <2> QED
    BY <2>1, <2>2, <2>4 DEF GateStep, Gate!Next
<1>5. CASE LoginDies(l)
  <2>1. u \in Users /\ login' = [login EXCEPT ![l] = NoLogin]
    BY <1>0, <1>5 DEF LoginDies, Login
  <2>2. member' = member /\ mappings' = mappings
    BY <1>5 DEF LoginDies
  <2>3. Gate!Forget(u)
    BY <1>3, <2>1, <2>2, FewerIsForget
  <2> QED
    BY <2>1, <2>3 DEF GateStep, Gate!Next
<1> QED
  BY <1>1, <1>2, <1>4, <1>5, BeginsIsPresent DEF LoginStep

\* Logins whose mark alone changes present the same.
LEMMA MarkedLogins ==
    ASSUME TypeOK,
           \A l \in Logins : login'[l] = login[l] \/ login'[l] = [login[l] EXCEPT !.calm = FALSE]
    PROVE  Presentations' = Presentations
<1>1. ASSUME NEW l \in Logins
      PROVE  login'[l].user = login[l].user /\ Offers(l)' = Offers(l)
  <2>1. /\ login'[l].user = login[l].user /\ login'[l].todo = login[l].todo
        /\ login'[l].matched = login[l].matched
    BY DEF TypeOK, Login
  <2> QED
    BY <2>1 DEF Offers
<1> QED
  BY <1>1, SamePresentations

\* A refused login settles its user's memberships: all are withdrawn.
LEMMA RefusedIsSettle ==
    ASSUME TypeOK, NEW u \in Users, NEW G \in SUBSET Groups, LoginRefused(u, G)
    PROVE  GateStep
<1>1. Presentations' = Presentations
  BY MarkedLogins DEF LoginRefused
<1>2. Presentations = [Presentations EXCEPT ![u] = Presentations[u]]
  BY DEF Presentations
<1>3. Gate!Settle(u, {})
  BY <1>1, <1>2, ReconcileIsSettle DEF LoginRefused
<1> QED
  BY <1>3 DEF GateStep, Gate!Next

\* Creating a mapping opens its tenant, deleting one may close it.
LEMMA AdminIsGateStep ==
    ASSUME TypeOK, AdminStep
    PROVE  GateStep
<1>0. login' = Disturbed => Presentations' = Presentations
  BY MarkedLogins DEF Disturbed
<1>1. ASSUME NEW g \in Groups, NEW t \in Tenants, NEW role \in Role,
             CreateMapping(g, t, role)
      PROVE  GateStep
  <2>1. OpenTenants' = OpenTenants \cup {t}
    <3>1. mappings' = mappings \cup {[group |-> g, tenant |-> t, role |-> role]}
      BY <1>1 DEF CreateMapping
    <3>2. [group |-> g, tenant |-> t, role |-> role].tenant = t
      OBVIOUS
    <3> QED
      BY <3>1, <3>2 DEF OpenTenants
  <2>2. Gate!Open(t)
    BY <1>0, <1>1, <2>1, SameStandings DEF CreateMapping, Gate!Open
  <2> QED
    BY <2>2 DEF GateStep, Gate!Next
<1>2. ASSUME NEW m \in mappings, DeleteMapping(m)
      PROVE  GateStep
  <2> DEFINE t == m.tenant
             After(u) == StandingOf(AfterRemoval(u, m, member[u][t]))
             U == {u \in Users : After(u) = Gate!Decided(StandingOf(member[u][t]), FALSE)}
  <2>0. t \in Tenants
    BY DEF TypeOK, Mapping
  <2>1. OpenTenants' \in {OpenTenants, OpenTenants \ {t}}
    BY <1>2 DEF DeleteMapping, OpenTenants
  <2>2. ASSUME NEW u \in Users, NEW s \in Tenants
        PROVE  StandingOf(member'[u][s]) =
                 IF u \in U /\ s = t THEN Gate!Decided(StandingOf(member[u][s]), FALSE)
                 ELSE StandingOf(member[u][s])
    <3>1. CASE s = t
      <4>1. member'[u][s] = AfterRemoval(u, m, member[u][t])
        BY <1>2, <2>0, <3>1 DEF DeleteMapping, TypeOK
      <4>2. member[u][t] \in Membership /\ GoodRow(member[u][t])
        BY <2>0, TypeIsRows DEF Rows
      <4>3. After(u) \in {StandingOf(member[u][t]),
                         Gate!Decided(StandingOf(member[u][t]), FALSE)}
        BY <4>2, StandingAfterRemoval
      <4> QED
        BY <3>1, <4>1, <4>3
    <3>2. CASE s # t
      BY <1>2, <3>2 DEF DeleteMapping, TypeOK
    <3> QED
      BY <3>1, <3>2
  <2> HIDE DEF U
  <2>3. Standings' = [u \in Users |->
                        IF u \in U
                        THEN [Standings[u] EXCEPT ![t] = Gate!Decided(@, FALSE)]
                        ELSE Standings[u]]
    BY <2>0, <2>2 DEF Standings
  <2>4. Presentations' = Presentations
    BY <1>0, <1>2 DEF DeleteMapping
  <2>5. Gate!Close(t, U)
    BY <2>1, <2>3, <2>4 DEF Gate!Close
  <2>6. U \in SUBSET Users
    BY DEF U
  <2> QED
    BY <2>0, <2>5, <2>6 DEF GateStep, Gate!Next
<1> QED
  BY <1>1, <1>2 DEF AdminStep

\* Steps that write neither rows, logins nor mappings are invisible.
LEMMA Invisible ==
    ASSUME Standings' = Standings, login' = login, mappings' = mappings
    PROVE  GateStep
BY DEF GateStep, Gate!vars, Presentations, PresentedBy, InProgress, Offers, OpenTenants

\* The refresh imports a member or changes no standing.
LEMMA RefreshIsGateStep ==
    ASSUME TypeOK, NEW f \in Refreshers, RefreshStep(f)
    PROVE  GateStep
<1> DEFINE t == refresh[f].tenant
<1>0. Rows /\ refresh[f] \in Refresh
  BY TypeIsRows DEF TypeOK
<1>1. ASSUME NEW s \in Synced, RefreshBegins(f, s)
      PROVE  GateStep
  BY <1>1, SameStandings, Invisible DEF RefreshBegins
<1>2. ASSUME NEW u \in Users, RefreshUser(f, u)
      PROVE  GateStep
  <2>0. t \in Synced /\ t \in Tenants
    <3>1. refresh[f] # NoRefresh
      BY <1>2 DEF RefreshUser, NoRefresh
    <3>2. t # NoTenant
      BY <3>1 DEF TypeOK
    <3> QED
      BY <1>0, <3>2, ConstantsAssumption DEF Refresh, ConstantsAssumption
  <2>1. CASE UpstreamHas(u, t)
    <3> DEFINE role == ImportedRole(upstream[u][t], refresh[f].buckets)
    <3>1. role \in Role
      BY DEF ImportedRole, Role
    <3>2. member' = [member EXCEPT ![u][t] = Upserted(member[u][t], role)]
      BY <1>2, <2>1 DEF RefreshUser
    <3> HIDE DEF role
    <3>3. Presentations' = Presentations /\ mappings' = mappings
      BY <1>2 DEF RefreshUser, Presentations, PresentedBy, InProgress, Offers
    <3> HIDE DEF t
    <3>4. Gate!Enter(u, t) \/ UNCHANGED Gate!vars
      BY <2>0, <3>1, <3>2, <3>3, UpsertIsEnter
    <3> QED
      BY <2>0, <3>4 DEF GateStep, Gate!Next
  <2>2. CASE ~UpstreamHas(u, t)
    BY <1>2, <2>2, SameStandings, Invisible DEF RefreshUser
  <2> QED
    BY <2>1, <2>2
<1>3. ASSUME NEW u \in Users, RefreshUserFails(f, u)
      PROVE  GateStep
  BY <1>3, SameStandings, Invisible DEF RefreshUserFails
<1>4. CASE RefreshEnds(f)
  <2>1. ASSUME NEW u \in Users, NEW s \in Tenants
        PROVE  StandingOf(member'[u][s]) = StandingOf(member[u][s])
    <3>1. member'[u][s] \in {member[u][s], Deactivated(member[u][s])}
      BY <1>0, <1>4 DEF RefreshEnds, Rows
    <3> QED
      BY <1>0, <3>1, StandingOfNew DEF Rows
  <2>2. Standings' = Standings
    BY <2>1 DEF Standings
  <2> QED
    BY <1>4, <2>2, Invisible DEF RefreshEnds
<1>5. CASE RefreshDies(f)
  BY <1>5, SameStandings, Invisible DEF RefreshDies
<1> QED
  BY <1>1, <1>2, <1>3, <1>4, <1>5 DEF RefreshStep

\* The initial state is one of the gate's.
LEMMA InitIsGateInit == Init => Gate!Init
<1> SUFFICES ASSUME Init PROVE Gate!Init
  OBVIOUS
<1>1. Standings \in [Users -> [Tenants -> Gate!Standing]]
  BY DEF Init, Standings, StandingOf, NoMembership, Row, Gate!Standing
<1>2. Presentations = [u \in Users |-> {}]
  BY ConstantsAssumption
  DEF Init, Presentations, PresentedBy, InProgress, NoLogin, ConstantsAssumption
<1>3. OpenTenants = {}
  BY DEF Init, OpenTenants
<1> QED
  BY <1>1, <1>2, <1>3 DEF Gate!Init

\* Every step is the gate's.
LEMMA NextIsGateStep == TypeOK /\ [Next]_vars => GateStep
<1> SUFFICES ASSUME TypeOK, [Next]_vars PROVE GateStep
  OBVIOUS
<1>1. ASSUME NEW u \in Users, NEW t \in Synced, UpstreamChanges(u, t)
      PROVE  GateStep
  BY <1>1, SameStandings, Invisible DEF UpstreamChanges
<1>2. CASE UNCHANGED vars
  BY <1>2, SameStandings, Invisible DEF vars
<1> QED
  BY <1>1, <1>2, LoginIsGateStep, RefusedIsSettle, AdminIsGateStep, RefreshIsGateStep
  DEF Next

\* Mapping changes, refreshes and other users' logins never create a managed
\* membership and never lift a revocation (pipeline.py, admin.py,
\* sync_service.py): TenantAccess implements AccessGate.
THEOREM LoginsAloneAdmit == Spec => OnlyOwnLoginAdmits
<1>1. Init => Gate!Init
  BY InitIsGateInit
<1>2. TypeOK /\ [Next]_vars => [Gate!Next]_Gate!vars
  BY NextIsGateStep DEF GateStep
<1> QED
  BY <1>1, <1>2, AccessTypeCorrect, PTL DEF Spec, OnlyOwnLoginAdmits, Gate!Spec
=============================================================================
