--------------------------- MODULE AccessClaimProofs ---------------------------
(***************************************************************************)
(* Access to a managed tenant is backed by a claimed mapping, and an       *)
(* undisturbed login settles who can use which tenant: proofs of           *)
(* AccessNeedsClaim and LoginSettles.  The first is not inductive alone,   *)
(* for a login in progress has rows that nothing but its own list of       *)
(* mappings backs, and a deletion skips members without the removed group. *)
(***************************************************************************)
EXTENDS TenantAccessProofs

\* A claimed mapping of t gives u the role u's row has.
Backed(u, t) ==
    \E m \in MappingsOf(t) : m.group \in claims[u] /\ m.role = member[u][t].role

\* The usable rows of settled users are backed.
SettledBacked ==
    \A u \in Users, t \in Tenants \ Synced :
        (Settled(u) /\ member[u][t].active /\ ~member[u][t].revoked) => Backed(u, t)

\* An undisturbed login is its user's only one, what it has yet to visit is
\* still mapped and claimed, and what it has matched is backed.
CalmLogin(l) ==
    LET u == login[l].user IN
    /\ InProgress(u) = {l}
    /\ \A m \in login[l].todo : m \in mappings /\ m.group \in claims[u]
    /\ \A t \in login[l].matched \ Synced : Backed(u, t)

CalmLogins ==
    \A l \in Logins : (login[l].user # Nobody /\ login[l].calm) => CalmLogin(l)

Backing == SettledBacked /\ CalmLogins

-----------------------------------------------------------------------------
\* A user whose claims and rows stay, of tenants whose mappings stay or grow, is
\* backed as before.
LEMMA BackedStays ==
    ASSUME NEW u, NEW t, Backed(u, t), mappings \subseteq mappings',
           claims'[u] = claims[u], member'[u][t].role = member[u][t].role
    PROVE  Backed(u, t)'
BY DEF Backed, MappingsOf

\* Initially nobody has a membership.
LEMMA BackingInit == Init => Backing
BY DEF Init, Backing, SettledBacked, CalmLogins, NoMembership, Row, NoLogin

\* Steps that leave logins, claims, managed rows and mappings alone.
LEMMA BackingFrame ==
    ASSUME Backing, mappings' = mappings, claims' = claims, login' = login,
           unsettled' = unsettled,
           \A u \in Users, t \in Tenants \ Synced : member'[u][t] = member[u][t],
           TypeOK
    PROVE  Backing'
<1>1. \A u \in Users, t \in Tenants \ Synced : Backed(u, t)' <=> Backed(u, t)
  BY DEF Backed, MappingsOf
<1>2. \A u \in Users : Settled(u)' <=> Settled(u)
  BY DEF Settled, InProgress
<1>3. SettledBacked'
  BY <1>1, <1>2 DEF Backing, SettledBacked
<1>4. ASSUME NEW l \in Logins, login'[l].user # Nobody, login'[l].calm
      PROVE  CalmLogin(l)'
  <2>1. CalmLogin(l) /\ login[l].user \in Users /\ login[l].matched \subseteq Tenants
    BY <1>4 DEF Backing, CalmLogins, TypeOK, Login
  <2> QED
    BY <1>1, <2>1 DEF CalmLogin, InProgress
<1> QED
  BY <1>3, <1>4 DEF Backing, CalmLogins

-----------------------------------------------------------------------------
\* A login starts: its own list is mapped and claimed.
LEMMA BackingBegins ==
    ASSUME TypeOK, Backing, NEW l \in Logins, NEW u \in Users, NEW G \in SUBSET Groups,
           LoginBegins(l, u, G)
    PROVE  Backing'
<1>0. login[l].user = Nobody /\ u # Nobody
  BY ConstantsAssumption DEF LoginBegins, NoLogin, ConstantsAssumption
<1>1. login'[l] = [user |-> u, todo |-> BestOf(Claimed(G)), matched |-> {},
                   calm |-> InProgress(u) = {}]
  BY DEF LoginBegins, TypeOK
<1>2. ASSUME NEW k \in Logins \ {l}
      PROVE  /\ login'[k].user = login[k].user
             /\ login[k].user # u => login'[k] = login[k]
             /\ login[k].user = u => ~login'[k].calm
  BY DEF LoginBegins, InProgress, TypeOK, Login
<1>3. \A v \in Users \ {u} : InProgress(v)' = InProgress(v) /\ claims'[v] = claims[v]
  BY <1>0, <1>1, <1>2, ConstantsAssumption
  DEF InProgress, LoginBegins, TypeOK, ConstantsAssumption
<1>4. InProgress(u)' = InProgress(u) \cup {l} /\ claims'[u] = G
  BY <1>0, <1>1, <1>2 DEF InProgress, LoginBegins, TypeOK
<1>5. member' = member /\ mappings' = mappings /\ unsettled' = unsettled
  BY DEF LoginBegins
<1>6. \A v \in Users \ {u}, t \in Tenants : Backed(v, t) => Backed(v, t)'
  BY <1>3, <1>5 DEF Backed, MappingsOf
<1>7. SettledBacked'
  <2> SUFFICES ASSUME NEW v \in Users, NEW t \in Tenants \ Synced, Settled(v)',
                      member'[v][t].active, ~member'[v][t].revoked
               PROVE  Backed(v, t)'
    BY DEF SettledBacked
  <2>1. v # u
    BY <1>4 DEF Settled
  <2>2. Settled(v)
    BY <1>3, <1>5, <2>1 DEF Settled
  <2> QED
    BY <1>5, <1>6, <2>1, <2>2 DEF Backing, SettledBacked
<1>8. ASSUME NEW k \in Logins, login'[k].user # Nobody, login'[k].calm
      PROVE  CalmLogin(k)'
  <2>1. CASE k = l
    <3>1. InProgress(u) = {} /\ login'[l].user = u
      <4>1. CASE InProgress(u) = {}
        <5>1. login'[l].user = u
          BY <1>1
        <5> QED
          BY <4>1, <5>1
      <4>2. CASE InProgress(u) # {}
        <5>1. login'[l].calm = (InProgress(u) = {})
          BY <1>1
        <5> QED
          BY <1>8, <2>1, <4>2, <5>1
      <4> QED
        BY <4>1, <4>2
    <3>2. \A m \in login'[l].todo : m \in mappings' /\ m.group \in claims'[u]
      BY <1>1, <1>4, <1>5 DEF BestOf, Claimed
    <3>3. login'[l].matched = {}
      BY <1>1
    <3> QED
      BY <1>4, <2>1, <3>1, <3>2, <3>3 DEF CalmLogin
  <2>2. CASE k # l
    <3>1. login'[k] = login[k] /\ login[k].user \in Users \ {u}
          /\ login[k].matched \subseteq Tenants
      BY <1>2, <1>8, <2>2 DEF TypeOK, Login
    <3>2. CalmLogin(k)
      BY <1>8, <3>1 DEF Backing, CalmLogins
    <3> QED
      BY <1>3, <1>5, <1>6, <3>1, <3>2 DEF CalmLogin
  <2> QED
    BY <2>1, <2>2
<1> QED
  BY <1>7, <1>8 DEF Backing, CalmLogins

\* A visit: what it matches is backed by the mapping it visits.
LEMMA BackingVisit ==
    ASSUME TypeOK, Backing, NEW l \in Logins, NEW m \in login[l].todo,
           VisitManaged(l, m) \/ VisitSynced(l, m) \/ VisitAbsent(l, m)
           \/ VisitFails(l, m) \/ VisitConflicts(l, m)
    PROVE  Backing'
<1> PICK u : u = login[l].user
  OBVIOUS
<1>0. u \in Users /\ u # Nobody /\ m \in Mapping
  BY LoginType, ConstantsAssumption DEF ConstantsAssumption
<1>1. /\ \A k \in Logins : login'[k].user = login[k].user
      /\ \A k \in Logins \ {l} : login'[k] = login[k]
      /\ login'[l].todo \subseteq login[l].todo
      /\ login'[l].calm => login[l].calm
      /\ login'[l].matched \subseteq login[l].matched \cup {m.tenant}
  <2>1. CASE login' = Matched(l, m) \/ login' = Visited(l, m)
    <3>1. /\ login'[l].todo \subseteq login[l].todo /\ login'[l].calm = login[l].calm
          /\ login'[l].matched \subseteq login[l].matched \cup {m.tenant}
      BY <2>1 DEF Matched, Visited, TypeOK, Login
    <3> QED
      BY <2>1, <3>1, LoginType
  <2>2. CASE VisitConflicts(l, m)
    <3>1. /\ login'[l].todo \subseteq login[l].todo /\ login'[l].calm = FALSE
          /\ login'[l].matched = login[l].matched /\ login'[l].user = login[l].user
      BY <2>2 DEF VisitConflicts, Visited, TypeOK, Login
    <3>2. \A k \in Logins \ {l} : login'[k] = login[k]
      BY <2>2, LoginType DEF VisitConflicts
    <3> QED
      BY <3>1, <3>2
  <2> QED
    BY <2>1, <2>2 DEF VisitManaged, VisitSynced, VisitAbsent, VisitFails
<1>2. mappings' = mappings /\ claims' = claims /\ unsettled' = unsettled
  BY DEF VisitManaged, VisitSynced, VisitAbsent, VisitFails, VisitConflicts
<1>3. \A v \in Users, t \in Tenants \ Synced :
        (v # u \/ t # m.tenant) => member'[v][t] = member[v][t]
  BY <1>0 DEF VisitManaged, VisitSynced, VisitAbsent, VisitFails, VisitConflicts, TypeOK
<1>4. \A v \in Users : InProgress(v)' = InProgress(v)
  BY <1>1 DEF InProgress
<1>5. SettledBacked'
  <2> SUFFICES ASSUME NEW v \in Users, NEW t \in Tenants \ Synced, Settled(v)',
                      member'[v][t].active, ~member'[v][t].revoked
               PROVE  Backed(v, t)'
    BY DEF SettledBacked
  <2>1. Settled(v) /\ v # u
    BY <1>2, <1>4 DEF Settled, InProgress
  <2>2. member'[v][t] = member[v][t]
    BY <1>3, <2>1
  <2>3. Backed(v, t)
    BY <2>1, <2>2 DEF Backing, SettledBacked
  <2> QED
    BY <1>2, <2>2, <2>3 DEF Backed, MappingsOf
<1>6. ASSUME NEW k \in Logins, login'[k].user # Nobody, login'[k].calm
      PROVE  CalmLogin(k)'
  <2> PICK v : v = login[k].user
    OBVIOUS
  <2>1. /\ v \in Users /\ CalmLogin(k) /\ login[k].matched \subseteq Tenants
        /\ login'[k].todo \subseteq login[k].todo /\ login'[k].user = v
    BY <1>1, <1>6 DEF Backing, CalmLogins, TypeOK, Login
  <2>2. k # l => v # u
    BY <2>1 DEF CalmLogin, InProgress
  <2>3. ASSUME NEW t \in login'[k].matched \ Synced
        PROVE  Backed(v, t)'
    <3>1. CASE k = l /\ t = m.tenant
      <4>0. v = u
        BY <3>1
      <4>1. CASE VisitManaged(l, m)
        <5>1. m \in mappings /\ m.group \in claims[u]
          BY <2>1, <3>1 DEF CalmLogin
        <5>2. member'[u][t].role = m.role
          BY <1>0, <3>1, <4>1 DEF VisitManaged, Upserted, Row, Mapping, TypeOK
        <5>3. m \in MappingsOf(t)' /\ m.group \in claims'[v] /\ m.role = member'[v][t].role
          BY <1>2, <3>1, <4>0, <5>1, <5>2 DEF MappingsOf
        <5> QED
          BY <5>3 DEF Backed
      <4>2. CASE VisitSynced(l, m)
        BY <2>3, <3>1, <4>2 DEF VisitSynced
      <4>3. CASE VisitAbsent(l, m) \/ VisitFails(l, m) \/ VisitConflicts(l, m)
        <5>1. member' = member
          BY <4>3 DEF VisitAbsent, VisitFails, VisitConflicts
        <5>2. login'[l].matched = login[l].matched
          BY <4>3
          DEF VisitAbsent, VisitFails, VisitConflicts, Visited, TypeOK, Login
        <5>3. Backed(v, t)
          BY <2>1, <2>3, <3>1, <4>0, <5>2 DEF CalmLogin
        <5> QED
          BY <1>2, <5>1, <5>3 DEF Backed, MappingsOf
      <4> QED
        BY <4>1, <4>2, <4>3
    <3>2. CASE k # l \/ t # m.tenant
      <4>1. t \in login[k].matched /\ t \in Tenants
        BY <1>1, <2>1, <2>3, <3>2
      <4>2. Backed(v, t)
        BY <2>1, <2>3, <4>1 DEF CalmLogin
      <4>3. member'[v][t] = member[v][t]
        BY <1>3, <2>1, <2>2, <2>3, <3>2, <4>1
      <4> QED
        BY <1>2, <4>2, <4>3 DEF Backed, MappingsOf
    <3> QED
      BY <3>1, <3>2
  <2>4. InProgress(v)' = {k} /\ claims' = claims /\ mappings' = mappings
    BY <1>2, <1>4, <2>1 DEF CalmLogin
  <2>5. \A n \in login'[k].todo : n \in mappings /\ n.group \in claims[v]
    BY <2>1 DEF CalmLogin
  <2> QED
    BY <2>1, <2>3, <2>4, <2>5 DEF CalmLogin
<1> QED
  BY <1>5, <1>6 DEF Backing, CalmLogins

-----------------------------------------------------------------------------
\* Steps that concern one user: the others' rows, claims and logins stay, none
\* of the user's logins stays calm, and the user's rows are backed if settled.
LEMMA BackingOfOne ==
    ASSUME TypeOK, Backing, NEW u \in Users, mappings' = mappings,
           \A v \in Users \ {u} : /\ claims'[v] = claims[v] /\ member'[v] = member[v]
                                  /\ v \in unsettled' <=> v \in unsettled,
           \A k \in Logins : login'[k].user \notin {u, Nobody} => login'[k] = login[k],
           \A k \in Logins : login[k].user \notin {u, Nobody} => login'[k] = login[k],
           \A k \in Logins : login'[k].user = u => ~login'[k].calm,
           \A t \in Tenants \ Synced :
             (Settled(u)' /\ member'[u][t].active /\ ~member'[u][t].revoked)
               => Backed(u, t)'
    PROVE  Backing'
<1>1. \A v \in Users \ {u} : InProgress(v)' = InProgress(v)
  BY ConstantsAssumption DEF InProgress, ConstantsAssumption
<1>2. \A v \in Users \ {u} : Settled(v)' <=> Settled(v)
  BY <1>1 DEF Settled
<1>3. \A v \in Users \ {u}, t \in Tenants : Backed(v, t)' <=> Backed(v, t)
  BY DEF Backed, MappingsOf
<1>4. SettledBacked'
  <2> SUFFICES ASSUME NEW v \in Users, NEW t \in Tenants \ Synced, Settled(v)',
                      member'[v][t].active, ~member'[v][t].revoked
               PROVE  Backed(v, t)'
    BY DEF SettledBacked
  <2>1. CASE v = u
    BY <2>1
  <2>2. CASE v # u
    BY <1>2, <1>3, <2>2 DEF Backing, SettledBacked
  <2> QED
    BY <2>1, <2>2
<1>5. ASSUME NEW k \in Logins, login'[k].user # Nobody, login'[k].calm
      PROVE  CalmLogin(k)'
  <2>1. login'[k] = login[k] /\ login[k].user \in Users \ {u}
        /\ login[k].matched \subseteq Tenants
    BY <1>5 DEF TypeOK, Login
  <2>2. CalmLogin(k)
    BY <1>5, <2>1 DEF Backing, CalmLogins
  <2> QED
    BY <1>1, <1>3, <2>1, <2>2 DEF CalmLogin
<1> QED
  BY <1>4, <1>5 DEF Backing, CalmLogins

\* What a reconciliation leaves of a user's rows: only authorized ones usable.
LEMMA ReconciledRow ==
    ASSUME TypeOK, NEW u \in Users, NEW authorized, ReconcileAccess(u, authorized)
    PROVE  /\ \A v \in Users \ {u} : member'[v] = member[v]
           /\ \A t \in Tenants :
                /\ member'[u][t].role = member[u][t].role
                /\ member'[u][t].active /\ ~member'[u][t].revoked => t \in authorized
<1> DEFINE New(t) == IF t \in authorized THEN Cleared(member[u][t]) ELSE Revoked(member[u][t])
<1>1. member' = [member EXCEPT ![u] = [t \in Tenants |-> New(t)]]
  BY DEF ReconcileAccess, TypeOK
<1>2. ASSUME NEW t \in Tenants
      PROVE  /\ New(t).role = member[u][t].role
             /\ New(t).active /\ ~New(t).revoked => t \in authorized
  BY DEF Cleared, Revoked, Row, TypeOK, NoMembership
<1> HIDE DEF New
<1> QED
  BY <1>1, <1>2 DEF TypeOK

\* A login ends: what it authorizes is backed if nothing disturbed it, and its
\* user is unsettled otherwise.
LEMMA BackingEnds ==
    ASSUME TypeOK, Backing, NEW l \in Logins, LoginReconciles(l) \/ LoginDies(l)
    PROVE  Backing'
<1> PICK u : u = login[l].user
  OBVIOUS
<1>0. u \in Users
  BY DEF LoginReconciles, LoginDies, TypeOK, Login
<1>1. login' = [login EXCEPT ![l] = NoLogin] /\ mappings' = mappings /\ claims' = claims
  BY DEF LoginReconciles, LoginDies
<1>2. \A k \in Logins : login'[k] = IF k = l THEN NoLogin ELSE login[k]
  BY <1>1 DEF TypeOK
<1>3. \A k \in Logins : login'[k].user \notin {u, Nobody} => login'[k] = login[k]
  BY <1>2 DEF NoLogin
<1>4. \A k \in Logins : login[k].user \notin {u, Nobody} => login'[k] = login[k]
  BY <1>2
<1>5. \A v \in Users \ {u} :
        /\ claims'[v] = claims[v] /\ member'[v] = member[v]
        /\ v \in unsettled' <=> v \in unsettled
  BY <1>0, <1>1, ReconciledRow DEF LoginReconciles, LoginDies
<1>6. ASSUME NEW k \in Logins, login'[k].user = u, login'[k].calm
      PROVE  FALSE
  <2>1. k # l /\ login'[k] = login[k]
    BY <1>0, <1>2, <1>6, ConstantsAssumption DEF NoLogin, ConstantsAssumption
  <2>2. InProgress(u) = {k}
    BY <1>0, <1>6, <2>1, ConstantsAssumption
    DEF Backing, CalmLogins, CalmLogin, ConstantsAssumption
  <2> QED
    BY <2>1, <2>2 DEF InProgress
<1>7. ASSUME NEW t \in Tenants \ Synced, Settled(u)',
             member'[u][t].active, ~member'[u][t].revoked
      PROVE  Backed(u, t)'
  <2>1. u \notin unsettled'
    BY <1>7 DEF Settled
  <2>2. LoginReconciles(l) /\ login[l].calm
    BY <2>1 DEF LoginReconciles, LoginDies
  <2>3. CalmLogin(l)
    BY <1>0, <2>2, ConstantsAssumption DEF Backing, CalmLogins, ConstantsAssumption
  <2>4. t \in login[l].matched /\ member'[u][t].role = member[u][t].role
    BY <1>0, <1>7, <2>2, ReconciledRow DEF LoginReconciles
  <2>5. Backed(u, t)
    BY <2>3, <2>4 DEF CalmLogin
  <2> QED
    BY <1>1, <2>4, <2>5 DEF Backed, MappingsOf
<1> QED
  BY <1>0, <1>1, <1>3, <1>4, <1>5, <1>6, <1>7, BackingOfOne

\* A refused login leaves its user nothing usable.
LEMMA BackingRefused ==
    ASSUME TypeOK, Backing, NEW u \in Users, NEW G \in SUBSET Groups, LoginRefused(u, G)
    PROVE  Backing'
<1>1. \A k \in Logins : /\ login'[k].user = login[k].user
                        /\ login[k].user # u => login'[k] = login[k]
                        /\ login[k].user = u => ~login'[k].calm
  BY DEF LoginRefused, InProgress, TypeOK, Login
<1>2. \A v \in Users \ {u} :
        /\ claims'[v] = claims[v] /\ member'[v] = member[v]
        /\ v \in unsettled' <=> v \in unsettled
  BY ReconciledRow DEF LoginRefused, TypeOK
<1>3. \A t \in Tenants : ~(member'[u][t].active /\ ~member'[u][t].revoked)
  BY ReconciledRow DEF LoginRefused
<1>4. mappings' = mappings
  BY DEF LoginRefused
<1> QED
  BY <1>1, <1>2, <1>3, <1>4, BackingOfOne

-----------------------------------------------------------------------------
\* A mapping changes: no login stays calm, so settled users alone matter.
LEMMA BackingDisturbed ==
    ASSUME TypeOK, login' = Disturbed, unsettled' = unsettled,
           \A u \in Users, t \in Tenants \ Synced :
             (Settled(u) /\ member'[u][t].active /\ ~member'[u][t].revoked)
               => Backed(u, t)'
    PROVE  Backing'
<1>1. \A l \in Logins : /\ login'[l].user = login[l].user
                        /\ login'[l].user # Nobody => ~login'[l].calm
  BY DEF Disturbed, TypeOK, Login, NoLogin
<1>2. \A u \in Users : Settled(u)' <=> Settled(u)
  BY <1>1 DEF Settled, InProgress
<1> QED
  BY <1>1, <1>2 DEF Backing, SettledBacked, CalmLogins

\* A new mapping backs what was backed.
LEMMA BackingCreates ==
    ASSUME TypeOK, Backing, NEW g \in Groups, NEW t \in Tenants, NEW role \in Role,
           CreateMapping(g, t, role)
    PROVE  Backing'
<1>1. ASSUME NEW u \in Users, NEW s \in Tenants \ Synced, Settled(u),
             member'[u][s].active, ~member'[u][s].revoked
      PROVE  Backed(u, s)'
  <2>1. Backed(u, s)
    BY <1>1 DEF Backing, SettledBacked, CreateMapping
  <2> QED
    BY <2>1, BackedStays DEF CreateMapping
<1> QED
  BY <1>1, BackingDisturbed DEF CreateMapping

\* A deletion keeps what another claimed mapping backs, in its role, and
\* revokes the rest.
LEMMA BackingDeletes ==
    ASSUME TypeOK, Backing, NEW m \in mappings, DeleteMapping(m)
    PROVE  Backing'
<1>1. ASSUME NEW u \in Users, NEW t \in Tenants \ Synced, Settled(u),
             member'[u][t].active, ~member'[u][t].revoked
      PROVE  Backed(u, t)'
  <2>0. /\ mappings' = mappings \ {m} /\ claims' = claims
        /\ m \in Mapping /\ mappings \subseteq Mapping
    BY DEF DeleteMapping, TypeOK
  <2>1. CASE t # m.tenant
    <3>1. member'[u][t] = member[u][t]
      BY <2>1 DEF DeleteMapping, TypeOK
    <3>2. PICK k \in MappingsOf(t) : k.group \in claims[u] /\ k.role = member[u][t].role
      BY <1>1, <3>1 DEF Backing, SettledBacked, Backed
    <3>3. k \in MappingsOf(t)'
      BY <2>0, <2>1 DEF MappingsOf
    <3> QED
      BY <2>0, <3>1, <3>2, <3>3 DEF Backed
  <2>2. CASE t = m.tenant
    <3> PICK row : row = member[u][t]
      OBVIOUS
    <3> DEFINE remaining == MappingsOf(t) \ {m}
               left == {k \in remaining : k.group \in claims[u]}
    <3>1. member'[u][t] = AfterRemoval(u, m, row)
      BY <2>2 DEF DeleteMapping, TypeOK
    <3>2. row \in Membership /\ (row.role = "none" => ~row.active)
      BY DEF TypeOK, NoMembership, Row
    <3>3. Revoked(row).active => Revoked(row).revoked
      BY <3>2 DEF Revoked, Row
    <3>4. row.active /\ ~row.revoked /\ remaining # {}
          /\ (m.group \in claims[u] => left # {})
      BY <1>1, <2>2, <3>1, <3>3 DEF AfterRemoval
    <3>5. Backed(u, t)
      BY <1>1, <3>4 DEF Backing, SettledBacked
    <3>6. \A k \in left : k \in MappingsOf(t)' /\ k.group \in claims'[u] /\ k.role \in Role
      BY <2>0 DEF MappingsOf, Mapping
    <3>7. CASE m.group \notin claims[u]
      <4>1. member'[u][t] = row
        BY <1>1, <2>2, <3>1, <3>4, <3>7 DEF AfterRemoval
      <4>2. PICK k \in MappingsOf(t) : k.group \in claims[u] /\ k.role = row.role
        BY <3>5 DEF Backed
      <4>3. k \in left
        BY <3>7, <4>2
      <4> QED
        BY <3>6, <4>1, <4>2, <4>3 DEF Backed
    <3>8. CASE m.group \in claims[u]
      <4>1. member'[u][t] = FallBack(row, left)
        BY <1>1, <2>2, <3>1, <3>4, <3>8 DEF AfterRemoval
      <4> HIDE DEF left
      <4>2. PICK k \in left : k.role = member'[u][t].role
        BY <3>4, <3>6, <3>8, <4>1 DEF FallBack, Row, Role
      <4> QED
        BY <3>6, <4>2 DEF Backed
    <3> QED
      BY <3>7, <3>8
  <2> QED
    BY <2>1, <2>2
<1> QED
  BY <1>1, BackingDisturbed DEF DeleteMapping

\* A refresh touches the rows of synced tenants alone.
LEMMA RefreshOfSynced ==
    ASSUME TypeOK, NEW f \in Refreshers, RefreshStep(f)
    PROVE  \A v \in Users, t \in Tenants \ Synced : member'[v][t] = member[v][t]
<1>0. refresh[f] \in Refresh
  BY DEF TypeOK
<1>1. ASSUME NEW u \in Users, RefreshUser(f, u)
      PROVE  \A v \in Users, t \in Tenants \ Synced : member'[v][t] = member[v][t]
  <2>1. refresh[f].tenant \in Synced
    <3>1. u \in refresh[f].todo
      BY <1>1 DEF RefreshUser
    <3> QED
      BY <1>0, <3>1 DEF TypeOK, Refresh, NoRefresh
  <2> QED
    BY <1>1, <2>1 DEF RefreshUser, TypeOK
<1>2. CASE RefreshEnds(f)
  <2>1. refresh[f].tenant \in Synced
    BY <1>0, <1>2 DEF RefreshEnds, Refresh
  <2> QED
    BY <1>2, <2>1 DEF RefreshEnds, TypeOK
<1>3. CASE member' = member
  BY <1>3
<1> QED
  BY <1>1, <1>2, <1>3 DEF RefreshStep, RefreshBegins, RefreshUserFails, RefreshDies

LEMMA BackingRefresh ==
    ASSUME TypeOK, Backing, NEW f \in Refreshers, RefreshStep(f)
    PROVE  Backing'
BY RefreshOfSynced, BackingFrame
DEF RefreshStep, RefreshBegins, RefreshUser, RefreshUserFails, RefreshEnds, RefreshDies

-----------------------------------------------------------------------------
\* Every step keeps the backing.
LEMMA BackingStep == TypeOK /\ Backing /\ [Next]_vars => Backing'
<1> SUFFICES ASSUME TypeOK, Backing, [Next]_vars PROVE Backing'
  OBVIOUS
<1>1. ASSUME NEW l \in Logins, LoginStep(l)
      PROVE  Backing'
  BY <1>1, BackingBegins, BackingVisit, BackingEnds DEF LoginStep
<1>2. CASE AdminStep
  BY <1>2, BackingCreates, BackingDeletes DEF AdminStep
<1>3. ASSUME NEW u \in Users, NEW t \in Synced, UpstreamChanges(u, t)
      PROVE  Backing'
  BY <1>3, BackingFrame DEF UpstreamChanges
<1>4. CASE UNCHANGED vars
  BY <1>4, BackingFrame DEF vars
<1> QED
  BY <1>1, <1>2, <1>3, <1>4, BackingRefused, BackingRefresh DEF Next

\* So the access of a settled user to a managed tenant always rests on a group
\* of the last login that is mapped to the tenant with the role the user has.
THEOREM AccessIsBacked == Spec => []AccessNeedsClaim
<1>1. Backing => AccessNeedsClaim
  BY DEF Backing, SettledBacked, AccessNeedsClaim, HasAccess, Backed
<1> QED
  BY <1>1, BackingInit, BackingStep, AccessTypeCorrect, PTL DEF Spec
-----------------------------------------------------------------------------
(***************************************************************************)
(* What an undisturbed login leaves: proof of LoginSettles.  CalmLogins    *)
(* says what a match rests on; here also that nothing was left out, that   *)
(* it is in the best role, and what was matched of synced tenants.         *)
(***************************************************************************)

\* The mappings that u's stored groups select.
Best(u) == BestOf(Claimed(claims[u]))

\* An undisturbed login has yet to visit or has matched every tenant selected for
\* its user that is managed, has matched no other tenant, and its matches of
\* managed tenants have the best role.
Thorough(l) ==
    LET u == login[l].user IN
    /\ login[l].todo \subseteq Best(u)
    /\ \A m \in Best(u) : m \in login[l].todo \/ m.tenant \in Synced \cup login[l].matched
    /\ \A t \in login[l].matched : \E m \in Best(u) : m.tenant = t
    /\ \A t \in login[l].matched \ Synced :
         /\ member[u][t].active
         /\ \A m \in Best(u) : m.tenant = t => m.role = member[u][t].role

ThoroughLogins ==
    \A l \in Logins : (login[l].user # Nobody /\ login[l].calm) => Thorough(l)

\* Of one tenant, all best mappings have one role.
LEMMA BestRole ==
    ASSUME NEW M \in SUBSET Mapping, NEW m \in BestOf(M), NEW k \in BestOf(M),
           m.tenant = k.tenant
    PROVE  m.role = k.role
BY DEF BestOf, Mapping, Role

\* The best of one tenant's claimed mappings are the best of all, of that tenant.
LEMMA BestOfTenant ==
    ASSUME NEW u, NEW t
    PROVE  BestOf({m \in MappingsOf(t) : m.group \in claims[u]}) = {m \in Best(u) : m.tenant = t}
BY DEF BestOf, Best, Claimed, MappingsOf

\* A login that a step leaves as it is stays thorough if its user's claims and
\* managed rows stay, and so do the mappings.
LEMMA ThoroughStays ==
    ASSUME NEW l, login'[l] = login[l], Thorough(l), mappings' = mappings,
           NEW u, u = login[l].user, claims'[u] = claims[u],
           \A t \in login[l].matched \ Synced : member'[u][t] = member[u][t]
    PROVE  Thorough(l)'
<1>1. Best(u)' = Best(u)
  BY DEF Best, BestOf, Claimed
<1> QED
  BY <1>1 DEF Thorough

\* Initially there is no login.
LEMMA ThoroughInit == Init => ThoroughLogins
BY DEF Init, ThoroughLogins, NoLogin

\* What the induction hypothesis says of an undisturbed login.
LEMMA CalmFacts ==
    ASSUME TypeOK, Backing, ThoroughLogins, NEW l \in Logins,
           login[l].user # Nobody, login[l].calm
    PROVE  /\ login[l].user \in Users /\ InProgress(login[l].user) = {l}
           /\ login[l].todo \subseteq Mapping /\ login[l].matched \subseteq Tenants
           /\ Thorough(l)
BY DEF TypeOK, Login, Backing, CalmLogins, CalmLogin, ThoroughLogins

\* Steps that leave logins, claims, managed rows and mappings alone.
LEMMA ThoroughFrame ==
    ASSUME TypeOK, Backing, ThoroughLogins, mappings' = mappings, claims' = claims,
           login' = login, \A u \in Users, t \in Tenants \ Synced : member'[u][t] = member[u][t]
    PROVE  ThoroughLogins'
<1> SUFFICES ASSUME NEW l \in Logins, login[l].user # Nobody, login[l].calm
             PROVE  Thorough(l)'
  BY DEF ThoroughLogins
<1> PICK u : u = login[l].user
  OBVIOUS
<1>1. u \in Users /\ login[l].matched \subseteq Tenants /\ Thorough(l)
  BY CalmFacts
<1> QED
  BY <1>1, ThoroughStays

\* Steps of one user: the others' logins, claims and rows stay, and of the user's
\* own logins only those matter that are thorough after the step.
LEMMA ThoroughOfOne ==
    ASSUME TypeOK, Backing, ThoroughLogins, NEW u \in Users, mappings' = mappings,
           \A v \in Users \ {u} : claims'[v] = claims[v] /\ member'[v] = member[v],
           \A k \in Logins : login'[k].user \notin {u, Nobody} => login'[k] = login[k],
           \A k \in Logins : login'[k].user = u /\ login'[k].calm => Thorough(k)'
    PROVE  ThoroughLogins'
<1> SUFFICES ASSUME NEW l \in Logins, login'[l].user # Nobody, login'[l].calm,
                    login'[l].user # u
             PROVE  Thorough(l)'
  BY DEF ThoroughLogins
<1> PICK v : v = login[l].user
  OBVIOUS
<1>1. login'[l] = login[l]
  OBVIOUS
<1>2. v \in Users \ {u} /\ Thorough(l)
  BY <1>1, CalmFacts
<1> QED
  BY <1>1, <1>2, ThoroughStays

\* A login starts with all of the best mappings to visit.
LEMMA ThoroughBegins ==
    ASSUME TypeOK, Backing, ThoroughLogins, NEW l \in Logins, NEW u \in Users,
           NEW G \in SUBSET Groups, LoginBegins(l, u, G)
    PROVE  ThoroughLogins'
<1>1. login'[l] = [user |-> u, todo |-> BestOf(Claimed(G)), matched |-> {},
                   calm |-> InProgress(u) = {}]
  BY DEF LoginBegins, TypeOK
<1>2. ASSUME NEW k \in Logins \ {l}
      PROVE  /\ login'[k].user # u => login'[k] = login[k]
             /\ login'[k].user = u => ~login'[k].calm
  BY DEF LoginBegins, InProgress, TypeOK, Login
<1>3. Best(u)' = BestOf(Claimed(G))
  BY DEF LoginBegins, TypeOK, Best, BestOf, Claimed
<1>4. login'[l].user = u /\ login'[l].todo = Best(u)' /\ login'[l].matched = {}
  BY <1>1, <1>3
<1>5. Thorough(l)'
  BY <1>4 DEF Thorough
<1>6. /\ mappings' = mappings /\ member' = member
      /\ \A v \in Users \ {u} : claims'[v] = claims[v]
  BY DEF LoginBegins, TypeOK
<1> QED
  BY <1>2, <1>4, <1>5, <1>6, ThoroughOfOne

\* A visit matches a managed tenant in the best role; only of a synced one may it
\* drop the mapping and the login stay calm.
LEMMA ThoroughVisit ==
    ASSUME TypeOK, Backing, ThoroughLogins, NEW l \in Logins, NEW m \in login[l].todo,
           \/ VisitManaged(l, m) \/ VisitSynced(l, m) \/ VisitAbsent(l, m)
           \/ VisitFails(l, m) \/ VisitConflicts(l, m)
    PROVE  ThoroughLogins'
<1> PICK u : u = login[l].user
  OBVIOUS
<1>0. login[l] \in Login /\ u \in Users /\ u # Nobody /\ m \in Mapping /\ mappings \subseteq Mapping
  <2>1. login[l] \in Login /\ login[l] # NoLogin
    BY DEF TypeOK, NoLogin
  <2>2. u # Nobody
    BY <2>1 DEF TypeOK
  <2> QED
    BY <2>1, <2>2 DEF Login, TypeOK
<1>1. mappings' = mappings /\ claims' = claims
  BY DEF VisitManaged, VisitSynced, VisitAbsent, VisitFails, VisitConflicts
<1>2. \A k \in Logins \ {l} : login'[k] = login[k]
  BY DEF VisitManaged, VisitSynced, VisitAbsent, VisitFails, VisitConflicts,
         Visited, Matched, TypeOK
<1>3. /\ login'[l].user = u /\ login'[l].todo = login[l].todo \ {m}
      /\ login'[l].calm => login[l].calm
  <2>1. CASE VisitManaged(l, m) \/ VisitSynced(l, m)
    BY <1>0, <2>1 DEF VisitManaged, VisitSynced, Matched, TypeOK, Login
  <2>2. CASE VisitAbsent(l, m) \/ VisitFails(l, m)
    BY <1>0, <2>2 DEF VisitAbsent, VisitFails, Visited, TypeOK, Login
  <2>3. CASE VisitConflicts(l, m)
    <3>1. Visited(l, m)[l] = [login[l] EXCEPT !.todo = login[l].todo \ {m}]
          /\ l \in DOMAIN Visited(l, m)
      BY <1>0 DEF Visited, TypeOK
    <3>2. login'[l] = [Visited(l, m)[l] EXCEPT !.calm = FALSE]
      BY <2>3, <3>1 DEF VisitConflicts, Visited
    <3> QED
      BY <1>0, <3>1, <3>2 DEF Login
  <2> QED
    BY <2>1, <2>2, <2>3
<1>4. \A v \in Users \ {u} : member'[v] = member[v]
  BY <1>0 DEF VisitManaged, VisitSynced, VisitAbsent, VisitFails, VisitConflicts, TypeOK
<1>5. ASSUME login'[l].calm PROVE Thorough(l)'
  <2>1. /\ InProgress(u) = {l} /\ Thorough(l) /\ login[l].matched \subseteq Tenants
    BY <1>0, <1>3, <1>5, CalmFacts
  <2>2. Best(u)' = Best(u) /\ m \in Best(u) /\ Best(u) \subseteq mappings
    BY <1>1, <2>1 DEF Best, BestOf, Claimed, Thorough
  <2>3. CASE VisitManaged(l, m)
    <3>1. login'[l].matched = login[l].matched \cup {m.tenant}
      BY <1>0, <2>3 DEF VisitManaged, Matched, TypeOK, Login
    <3>2. member'[u][m.tenant].active /\ member'[u][m.tenant].role = m.role
      BY <1>0, <2>3 DEF VisitManaged, Upserted, Row, Mapping, TypeOK
    <3>3. \A k \in Best(u) : k.tenant = m.tenant => k.role = m.role
      BY <1>0, <2>2, BestRole DEF Best, Claimed
    <3>4. \A t \in Tenants \ {m.tenant} : member'[u][t] = member[u][t]
      BY <1>0, <2>3 DEF VisitManaged, TypeOK
    <3>5. \A k \in Best(u) : k \in login'[l].todo \/ k.tenant \in Synced \cup login'[l].matched
      BY <1>3, <2>1, <3>1 DEF Thorough
    <3>6. \A t \in login'[l].matched : \E k \in Best(u) : k.tenant = t
      BY <2>1, <2>2, <3>1 DEF Thorough
    <3>7. \A t \in login'[l].matched \ Synced :
            /\ member'[u][t].active
            /\ \A k \in Best(u) : k.tenant = t => k.role = member'[u][t].role
      BY <2>1, <3>1, <3>2, <3>3, <3>4 DEF Thorough
    <3> QED
      BY <1>3, <2>1, <2>2, <3>5, <3>6, <3>7 DEF Thorough
  <2>4. CASE VisitSynced(l, m)
    <3>1. login'[l].matched = login[l].matched \cup {m.tenant} /\ m.tenant \in Synced
      BY <1>0, <2>4 DEF VisitSynced, Matched, TypeOK, Login
    <3>2. \A t \in Tenants \ Synced : member'[u][t] = member[u][t]
      BY <1>0, <2>4 DEF VisitSynced, TypeOK
    <3>3. \A t \in login'[l].matched : \E k \in Best(u) : k.tenant = t
      BY <2>1, <2>2, <3>1 DEF Thorough
    <3>4. \A t \in login'[l].matched \ Synced :
            /\ member'[u][t].active
            /\ \A k \in Best(u) : k.tenant = t => k.role = member'[u][t].role
      BY <2>1, <3>1, <3>2 DEF Thorough
    <3>5. \A k \in Best(u) : k \in login'[l].todo \/ k.tenant \in Synced \cup login'[l].matched
      BY <1>3, <2>1, <3>1 DEF Thorough
    <3> QED
      BY <1>3, <2>1, <2>2, <3>3, <3>4, <3>5 DEF Thorough
  <2>5. CASE VisitAbsent(l, m) \/ VisitFails(l, m)
    <3>1. login'[l].matched = login[l].matched /\ m.tenant \in Synced /\ member' = member
      BY <1>0, <2>5 DEF VisitAbsent, VisitFails, Visited, TypeOK, Login
    <3> QED
      BY <1>3, <2>1, <2>2, <3>1 DEF Thorough
  <2>6. CASE VisitConflicts(l, m)
    BY <1>0, <1>5, <2>6 DEF VisitConflicts, Visited, TypeOK, Login
  <2> QED
    BY <2>3, <2>4, <2>5, <2>6
<1>6. \A k \in Logins : login'[k].user = u /\ login'[k].calm => Thorough(k)'
  <2> SUFFICES ASSUME NEW k \in Logins, k # l, login'[k].user = u, login'[k].calm
               PROVE  Thorough(k)'
    BY <1>5
  <2>1. login[k].user = u /\ login[k].calm
    BY <1>2
  <2>2. Thorough(k) /\ InProgress(u) = {k}
    BY <1>0, <2>1, CalmFacts
  <2> QED
    BY <2>2 DEF InProgress
<1> QED
  BY <1>0, <1>1, <1>2, <1>3, <1>4, <1>6, ThoroughOfOne

\* A login that ends concerns its user's others at most, which were not calm.
LEMMA ThoroughEnds ==
    ASSUME TypeOK, Backing, ThoroughLogins, NEW l \in Logins,
           LoginReconciles(l) \/ LoginDies(l)
    PROVE  ThoroughLogins'
<1> PICK u : u = login[l].user
  OBVIOUS
<1>1. u \in Users /\ u # Nobody
  BY DEF LoginReconciles, LoginDies, TypeOK, Login
<1>2. /\ mappings' = mappings /\ claims' = claims
      /\ \A k \in Logins : login'[k] = IF k = l THEN NoLogin ELSE login[k]
  BY DEF LoginReconciles, LoginDies, TypeOK
<1>3. \A v \in Users \ {u} : member'[v] = member[v]
  BY <1>1, ReconciledRow DEF LoginReconciles, LoginDies
<1>4. \A k \in Logins : login'[k].user = u /\ login'[k].calm => Thorough(k)'
  <2> SUFFICES ASSUME NEW k \in Logins, login'[k].user = u, login'[k].calm
               PROVE  FALSE
    OBVIOUS
  <2>1. k # l /\ login[k].user = u /\ login[k].calm
    BY <1>1, <1>2 DEF NoLogin
  <2>2. InProgress(u) = {k}
    BY <1>1, <2>1, CalmFacts
  <2> QED
    BY <2>1, <2>2 DEF InProgress
<1>5. \A k \in Logins : login'[k].user \notin {u, Nobody} => login'[k] = login[k]
  BY <1>2 DEF NoLogin
<1> QED
  BY <1>1, <1>2, <1>3, <1>4, <1>5, ThoroughOfOne

\* A refused login disturbs its user's others.
LEMMA ThoroughRefused ==
    ASSUME TypeOK, Backing, ThoroughLogins, NEW u \in Users, NEW G \in SUBSET Groups,
           LoginRefused(u, G)
    PROVE  ThoroughLogins'
<1>1. \A k \in Logins : /\ login'[k].user = u => ~login'[k].calm
                        /\ login'[k].user # u => login'[k] = login[k]
  BY DEF LoginRefused, InProgress, TypeOK, Login
<1>2. \A v \in Users \ {u} : claims'[v] = claims[v] /\ member'[v] = member[v]
  BY ReconciledRow DEF LoginRefused, TypeOK
<1>3. mappings' = mappings
  BY DEF LoginRefused
<1> QED
  BY <1>1, <1>2, <1>3, ThoroughOfOne

\* A change of mappings leaves no login calm.
LEMMA ThoroughDisturbed ==
    ASSUME TypeOK, login' = Disturbed
    PROVE  ThoroughLogins'
BY DEF Disturbed, ThoroughLogins, TypeOK, Login, NoLogin

LEMMA ThoroughStep == TypeOK /\ Backing /\ ThoroughLogins /\ [Next]_vars => ThoroughLogins'
<1> SUFFICES ASSUME TypeOK, Backing, ThoroughLogins, [Next]_vars PROVE ThoroughLogins'
  OBVIOUS
<1>1. ASSUME NEW l \in Logins, LoginStep(l)
      PROVE  ThoroughLogins'
  BY <1>1, ThoroughBegins, ThoroughVisit, ThoroughEnds DEF LoginStep
<1>2. CASE AdminStep
  BY <1>2, ThoroughDisturbed DEF AdminStep, CreateMapping, DeleteMapping
<1>3. ASSUME NEW f \in Refreshers, RefreshStep(f)
      PROVE  ThoroughLogins'
  BY <1>3, RefreshOfSynced, ThoroughFrame
  DEF RefreshStep, RefreshBegins, RefreshUser, RefreshUserFails, RefreshEnds, RefreshDies
<1>4. ASSUME NEW u \in Users, NEW t \in Synced, UpstreamChanges(u, t)
      PROVE  ThoroughLogins'
  BY <1>4, ThoroughFrame DEF UpstreamChanges
<1>5. CASE UNCHANGED vars
  BY <1>5, ThoroughFrame DEF vars
<1> QED
  BY <1>1, <1>2, <1>3, <1>4, <1>5, ThoroughRefused DEF Next

\* A reconciliation of an undisturbed login does to each tenant what the best of
\* its claimed mappings says.
LEMMA CalmEnd ==
    ASSUME TypeOK, Backing, ThoroughLogins, NEW l \in Logins, NEW u \in Users,
           login[l].user = u, login[l].calm, LoginReconciles(l), NEW t \in Tenants
    PROVE  SetRight(u, t)
<1>0. claims' = claims /\ BestOf({m \in MappingsOf(t) : m.group \in claims'[u]})
                            = {m \in Best(u) : m.tenant = t}
  BY BestOfTenant DEF LoginReconciles
<1>1. /\ login[l].todo = {} /\ mappings' = mappings /\ u # Nobody
      /\ ReconcileAccess(u, login[l].matched)
  BY DEF LoginReconciles
<1>2. Thorough(l)
  BY <1>1, CalmFacts
<1>3. HasAccess(u, t)' => \E m \in Best(u) : m.tenant = t
  <2>1. HasAccess(u, t)' => t \in login[l].matched
    BY <1>1, ReconciledRow DEF HasAccess
  <2> QED
    BY <1>2, <2>1 DEF Thorough
<1>4. ASSUME t \notin Synced, NEW m \in Best(u), m.tenant = t
      PROVE  HasAccess(u, t)' /\ member'[u][t].role = m.role
  <2>1. t \in login[l].matched /\ member[u][t].active /\ member[u][t].role = m.role
    BY <1>1, <1>2, <1>4 DEF Thorough
  <2>2. member'[u][t] = Cleared(member[u][t])
    BY <1>1, <2>1 DEF ReconcileAccess, TypeOK
  <2>3. m \in MappingsOf(t)'
    BY <1>1, <1>4 DEF MappingsOf, Best, BestOf, Claimed
  <2> QED
    BY <1>4, <2>1, <2>2, <2>3 DEF HasAccess, HasLoginMapping, Cleared, Row
<1> QED
  BY <1>0, <1>3, <1>4 DEF SetRight

\* An undisturbed login sets right whatever earlier races, crashes and outages
\* left: managed tenants can be used exactly when a presented group is mapped to
\* them, in the best role, and synced ones only then.
THEOREM LoginsSettle == Spec => LoginSettles
<1> DEFINE Settles == \A u \in Users, t \in Tenants : EndsCalmly(u) => SetRight(u, t)
<1>1. TypeOK /\ Backing /\ ThoroughLogins /\ [Next]_vars => [Settles]_vars
  <2> SUFFICES ASSUME TypeOK, Backing, ThoroughLogins,
                      NEW u \in Users, NEW t \in Tenants, EndsCalmly(u)
               PROVE  SetRight(u, t)
    OBVIOUS
  <2>1. ASSUME NEW l \in InProgress(u), login[l].calm, LoginReconciles(l)
        PROVE  SetRight(u, t)
    BY <2>1, CalmEnd DEF InProgress
  <2>2. ASSUME NEW G \in SUBSET Groups, LoginRefused(u, G)
        PROVE  SetRight(u, t)
    <3>1. claims'[u] = G /\ Claimed(G) = {} /\ ReconcileAccess(u, {})
      BY <2>2 DEF LoginRefused, TypeOK
    <3>2. ~HasAccess(u, t)'
      BY <3>1, ReconciledRow DEF HasAccess
    <3>3. BestOf({m \in MappingsOf(t) : m.group \in claims'[u]}) = {}
      BY <3>1 DEF BestOf, MappingsOf, Claimed
    <3> QED
      BY <3>2, <3>3 DEF SetRight
  <2> QED
    BY <2>1, <2>2 DEF EndsCalmly
<1>2. Spec => [][Settles]_vars
  BY <1>1, BackingInit, BackingStep, ThoroughInit, ThoroughStep, AccessTypeCorrect,
     PTL DEF Spec
<1> QED
  BY <1>2 DEF LoginSettles
=============================================================================
