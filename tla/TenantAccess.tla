----------------------------- MODULE TenantAccess -----------------------------
(***************************************************************************)
(* Who may use a tenant.  Administrators map Authentik groups to tenants;  *)
(* a login brings the user's current groups, settles the user's membership *)
(* of every tenant and revokes the rest.  Tenants are of two kinds:        *)
(* the members of an Authentik-managed tenant come from logins alone, the  *)
(* members of an RGWSquared-synced one are those RGWSquared lists, which   *)
(* a login confirms and the admin's refresh imports.                       *)
(*                                                                         *)
(* A login is not one transaction: it stores the groups, reads the         *)
(* mappings, visits the matched tenants one by one with HTTP calls to      *)
(* RGWSquared at each, and only then revokes and clears revocations.       *)
(* Administrators, refreshes and other logins run in between.              *)
(*                                                                         *)
(* Accounts exist (first login and import create them before anything      *)
(* here happens), accounts and tenants are active, and Ceph user names are *)
(* those of their users, and a user's account has one subject: a deletion  *)
(* of a mapping asks the groups stored for the account's external_id,      *)
(* which are then those of the user's last login.  Guests of an account    *)
(* are in Accounts.  NFFADI is a synced tenant whose one group is fixed;   *)
(* the fixed name is left out.                                             *)
(***************************************************************************)
EXTENDS Naturals, FiniteSets

CONSTANTS
    Users,
    Nobody,
    Groups,         \* Authentik groups
    Tenants,
    NoTenant,
    Synced,         \* tenants with access_model = rgwsquared_synced
    Logins,         \* gunicorn workers: logins that can run at once
    Refreshers,     \* workers running refresh_local_cache
    InitialUpstream,\* what RGWSquared says of each user and synced tenant
    Moving,         \* users whom RGWSquared may add, remove or change
    FaultBudget     \* calls that may fail, workers that may die

Role == {"rw", "ro"}
\* What RGWSquared grants: to write automatic buckets, to write manual ones
\* only, to read, or nothing because it has no such user.
UpstreamRole == {"rw", "manual", "ro", "none"}
Mapping == [group: Groups, tenant: Tenants, role: Role]

ASSUME ConstantsAssumption ==
    /\ Nobody \notin Users /\ NoTenant \notin Tenants
    /\ Synced \subseteq Tenants
    /\ InitialUpstream \in [Users -> [Synced -> UpstreamRole]]
    /\ Moving \subseteq Users
    /\ FaultBudget \in Nat

VARIABLES
    mappings,   \* rows of GroupTenantMapping
    member,     \* member[u][t]: u's TenantMembership row for t
    claims,     \* claims[u]: groups stored with u's social association
    upstream,   \* upstream[u][t]: RGWSquared's users and their bucket roles
    login,      \* login[l]: the login worker l is serving
    refresh,    \* refresh[f]: the refresh worker f is serving
    faults,     \* what is left of FaultBudget
    unsettled   \* history: users whose last login raced or did not finish

vars == <<mappings, member, claims, upstream, login, refresh, faults, unsettled>>

\* A membership row; role "none" says that there is no row.
Membership == [role: Role \cup {"none"}, active: BOOLEAN, revoked: BOOLEAN]
Row(role, active, revoked) == [role |-> role, active |-> active, revoked |-> revoked]
NoMembership == Row("none", FALSE, FALSE)

\* A login: the mappings it has read and not yet visited, the tenants it has
\* matched.  `calm` is history: no mapping changed and no other login of the
\* user ran since it began.
Login == [user: Users \cup {Nobody}, todo: SUBSET Mapping,
          matched: SUBSET Tenants, calm: BOOLEAN]
NoLogin == [user |-> Nobody, todo |-> {}, matched |-> {}, calm |-> TRUE]

\* A refresh of one tenant: whether it got the buckets, the users it listed,
\* those it has yet to visit.
Refresh == [tenant: Synced \cup {NoTenant}, buckets: BOOLEAN,
            listed: SUBSET Users, todo: SUBSET Users]
NoRefresh == [tenant |-> NoTenant, buckets |-> FALSE, listed |-> {}, todo |-> {}]

TypeOK ==
    /\ mappings \subseteq Mapping
    /\ member \in [Users -> [Tenants -> Membership]]
    /\ \A u \in Users, t \in Tenants :
         member[u][t].role = "none" => member[u][t] = NoMembership
    /\ claims \in [Users -> SUBSET Groups]
    /\ upstream \in [Users -> [Synced -> UpstreamRole]]
    /\ login \in [Logins -> Login]
    /\ \A l \in Logins : login[l].user = Nobody => login[l] = NoLogin
    /\ refresh \in [Refreshers -> Refresh]
    /\ \A f \in Refreshers : refresh[f].tenant = NoTenant => refresh[f] = NoRefresh
    /\ faults \in Nat
    /\ unsettled \subseteq Users

Init ==
    /\ mappings = {}
    /\ member = [u \in Users |-> [t \in Tenants |-> NoMembership]]
    /\ claims = [u \in Users |-> {}]
    /\ upstream = InitialUpstream
    /\ login = [l \in Logins |-> NoLogin]
    /\ refresh = [f \in Refreshers |-> NoRefresh]
    /\ faults = FaultBudget
    /\ unsettled = {}

-----------------------------------------------------------------------------
(* Reading the tables *)

MappingsOf(t) == {m \in mappings : m.tenant = t}

\* tenant_has_login_mapping
HasLoginMapping(t) ==
    IF t \in Synced THEN Cardinality(MappingsOf(t)) = 1 ELSE MappingsOf(t) # {}

\* membership_has_access
HasAccess(u, t) ==
    /\ member[u][t].active
    /\ ~member[u][t].revoked
    /\ HasLoginMapping(t)

\* One mapping per tenant: rw takes precedence over ro.
BestOf(M) ==
    {m \in M : m.role = "rw" \/ ~\E k \in M : k.tenant = m.tenant /\ k.role = "rw"}

Claimed(G) == {m \in mappings : m.group \in G}
InProgress(u) == {l \in Logins : login[l].user = u}

-----------------------------------------------------------------------------
(* _reconcile_access, at the end of every login *)

KeepsAccess(row) == row
RevokedAnyway(row) == Row(row.role, row.active, TRUE)
Revoked(row) == IF row.role = "none" THEN row ELSE Row(row.role, row.active, TRUE)
Cleared(row) == Row(row.role, row.active, FALSE)

ReconcileAccess(u, authorized) ==
    member' = [member EXCEPT ![u] =
                 [t \in Tenants |->
                    IF t \in authorized THEN Cleared(@[t]) ELSE Revoked(@[t])]]

-----------------------------------------------------------------------------
(* A login *)

\* The pipeline stores groups G, then reads the mappings of active tenants.
\* Without a match it reconciles at once and is refused.
LoginRefused(u, G) ==
    /\ Claimed(G) = {}
    /\ claims' = [claims EXCEPT ![u] = G]
    /\ ReconcileAccess(u, {})
    /\ login' = [k \in Logins |->
                   IF k \in InProgress(u) THEN [login[k] EXCEPT !.calm = FALSE]
                   ELSE login[k]]
    /\ unsettled' = IF InProgress(u) = {} THEN unsettled \ {u} ELSE unsettled
    /\ UNCHANGED <<mappings, upstream, refresh, faults>>

LoginBegins(l, u, G) ==
    /\ login[l] = NoLogin
    /\ Claimed(G) # {}
    /\ claims' = [claims EXCEPT ![u] = G]
    /\ login' = [k \in Logins |->
                   IF k = l THEN [user |-> u, todo |-> BestOf(Claimed(G)),
                                  matched |-> {}, calm |-> InProgress(u) = {}]
                   ELSE IF k \in InProgress(u) THEN [login[k] EXCEPT !.calm = FALSE]
                   ELSE login[k]]
    /\ UNCHANGED <<mappings, member, upstream, refresh, faults, unsettled>>

Visited(l, m) == [login EXCEPT ![l].todo = @ \ {m}]
Matched(l, m) == [login EXCEPT ![l].todo = @ \ {m}, ![l].matched = @ \cup {m.tenant}]

\* get_or_create / update_or_create: an existing row keeps its revocation.
Admitted(row, role) == Row(role, TRUE, FALSE)
Upserted(row, role) == Row(role, TRUE, row.revoked)

\* A managed tenant: the mapping decides.  RGWSquared's answer, or failure,
\* changes nothing here.
VisitManaged(l, m) ==
    /\ m \in login[l].todo /\ m.tenant \notin Synced
    /\ member' = [member EXCEPT ![login[l].user][m.tenant] = Upserted(@, m.role)]
    /\ login' = Matched(l, m)
    /\ UNCHANGED <<mappings, claims, upstream, refresh, faults, unsettled>>

UpstreamHas(u, t) == upstream[u][t] # "none"

\* Any bucket in RWBuckets makes the user write-capable.
LoginRole(granted) == IF granted \in {"rw", "manual"} THEN "rw" ELSE "ro"

\* A synced tenant: RGWSquared has the user and says which role.
VisitSynced(l, m) ==
    LET u == login[l].user  t == m.tenant IN
    /\ m \in login[l].todo /\ t \in Synced
    /\ UpstreamHas(u, t)
    /\ member' = [member EXCEPT ![u][t] = Upserted(@, LoginRole(upstream[u][t]))]
    /\ login' = Matched(l, m)
    /\ UNCHANGED <<mappings, claims, upstream, refresh, faults, unsettled>>

\* RGWSquared does not have the user: no match.
VisitAbsent(l, m) ==
    /\ m \in login[l].todo /\ m.tenant \in Synced
    /\ ~UpstreamHas(login[l].user, m.tenant)
    /\ login' = Visited(l, m)
    /\ UNCHANGED <<mappings, member, claims, upstream, refresh, faults, unsettled>>

Fault == faults > 0 /\ faults' = faults - 1

\* RGWSquared does not answer for a synced tenant: no match either.
VisitFails(l, m) ==
    /\ m \in login[l].todo /\ m.tenant \in Synced
    /\ Fault
    /\ login' = Visited(l, m)
    /\ UNCHANGED <<mappings, member, claims, upstream, refresh, unsettled>>

\* The Ceph user name is taken by another account: no new row, no match.
VisitConflicts(l, m) ==
    /\ m \in login[l].todo /\ m.tenant \notin Synced
    /\ member[login[l].user][m.tenant].role = "none"
    /\ Fault
    /\ login' = [Visited(l, m) EXCEPT ![l].calm = FALSE]
    /\ UNCHANGED <<mappings, member, claims, upstream, refresh, unsettled>>

LoginReconciles(l) ==
    LET u == login[l].user IN
    /\ u # Nobody /\ login[l].todo = {}
    /\ ReconcileAccess(u, login[l].matched)
    /\ login' = [login EXCEPT ![l] = NoLogin]
    /\ unsettled' = IF login[l].calm THEN unsettled \ {u} ELSE unsettled \cup {u}
    /\ UNCHANGED <<mappings, claims, upstream, refresh, faults>>

\* The worker is killed, or an exception ends the pipeline.
LoginDies(l) ==
    /\ login[l].user # Nobody
    /\ Fault
    /\ login' = [login EXCEPT ![l] = NoLogin]
    /\ unsettled' = unsettled \cup {login[l].user}
    /\ UNCHANGED <<mappings, member, claims, upstream, refresh>>

-----------------------------------------------------------------------------
(* admin_group_mappings, admin_group_mapping_delete *)

Disturbed == [l \in Logins |->
                IF login[l] = NoLogin THEN NoLogin ELSE [login[l] EXCEPT !.calm = FALSE]]

CreateMapping(g, t, role) ==
    /\ Claimed({g}) = {}
    /\ t \in Synced => role = "rw" /\ MappingsOf(t) = {}
    /\ t \notin Synced => \A m \in MappingsOf(t) : m.role # role
    /\ mappings' = mappings \cup {[group |-> g, tenant |-> t, role |-> role]}
    /\ login' = Disturbed
    /\ UNCHANGED <<member, claims, upstream, refresh, faults, unsettled>>

\* What is left of a member's access when mapping m goes, from the stored
\* claims of the user and the mappings that remain.
KeepRole(row, left) == row
FallBack(row, left) ==
    Row(IF \E k \in left : k.role = "rw" THEN "rw" ELSE "ro", row.active, row.revoked)

AfterRemoval(u, m, row) ==
    LET remaining == MappingsOf(m.tenant) \ {m}
        left == {k \in remaining : k.group \in claims[u]}
    IN IF ~row.active \/ row.revoked THEN row
       ELSE IF m.tenant \in Synced \/ remaining = {} THEN Revoked(row)
       ELSE IF m.group \notin claims[u] THEN row
       ELSE IF left = {} THEN Revoked(row)
       ELSE FallBack(row, left)

\* One transaction, with the member rows locked.
DeleteMapping(m) ==
    /\ m \in mappings
    /\ mappings' = mappings \ {m}
    /\ member' = [u \in Users |->
                    [member[u] EXCEPT ![m.tenant] = AfterRemoval(u, m, @)]]
    /\ login' = Disturbed
    /\ UNCHANGED <<claims, upstream, refresh, faults, unsettled>>

-----------------------------------------------------------------------------
(* The user part of refresh_local_cache, for a synced tenant.  (Of managed *)
(* tenants it visits registered members only and leaves role, activity and *)
(* revocation as they are.)                                                *)

\* A failed bucket listing counts as an empty one.
RefreshBegins(f, t) ==
    LET listed == {u \in Users : UpstreamHas(u, t)} IN
    /\ refresh[f] = NoRefresh /\ t \in Synced
    /\ \E buckets \in BOOLEAN :
         /\ IF buckets THEN UNCHANGED faults ELSE Fault
         /\ refresh' = [refresh EXCEPT ![f] = [tenant |-> t, buckets |-> buckets,
                                              listed |-> listed, todo |-> listed]]
    /\ UNCHANGED <<mappings, member, claims, upstream, login, unsettled>>

\* RWBuckets count only as far as the bucket loop found them automatic.
ImportedRole(granted, buckets) == IF granted = "rw" /\ buckets THEN "rw" ELSE "ro"

RefreshUser(f, u) ==
    LET t == refresh[f].tenant IN
    /\ u \in refresh[f].todo
    /\ member' = IF UpstreamHas(u, t)
                 THEN [member EXCEPT ![u][t] =
                         Upserted(@, ImportedRole(upstream[u][t], refresh[f].buckets))]
                 ELSE member
    /\ refresh' = [refresh EXCEPT ![f].todo = @ \ {u}]
    /\ UNCHANGED <<mappings, claims, upstream, login, faults, unsettled>>

\* userInfo fails: the user is skipped and stays in synced_ceph_usernames.
RefreshUserFails(f, u) ==
    /\ u \in refresh[f].todo
    /\ Fault
    /\ refresh' = [refresh EXCEPT ![f].todo = @ \ {u}]
    /\ UNCHANGED <<mappings, member, claims, upstream, login, unsettled>>

Deactivated(row) == Row(row.role, FALSE, row.revoked)

\* stale_memberships
RefreshEnds(f) ==
    LET t == refresh[f].tenant IN
    /\ t # NoTenant /\ refresh[f].todo = {}
    /\ member' = [u \in Users |->
                    IF u \in refresh[f].listed THEN member[u]
                    ELSE [member[u] EXCEPT ![t] = Deactivated(@)]]
    /\ refresh' = [refresh EXCEPT ![f] = NoRefresh]
    /\ UNCHANGED <<mappings, claims, upstream, login, faults, unsettled>>

RefreshDies(f) ==
    /\ refresh[f] # NoRefresh
    /\ Fault
    /\ refresh' = [refresh EXCEPT ![f] = NoRefresh]
    /\ UNCHANGED <<mappings, member, claims, upstream, login, unsettled>>

\* The institution adds, removes or changes a user in RGWSquared.
UpstreamChanges(u, t) ==
    /\ u \in Moving
    /\ \E role \in UpstreamRole \ {upstream[u][t]} :
         upstream' = [upstream EXCEPT ![u][t] = role]
    /\ UNCHANGED <<mappings, member, claims, login, refresh, faults, unsettled>>

-----------------------------------------------------------------------------
LoginStep(l) ==
    \/ \E u \in Users, G \in SUBSET Groups : LoginBegins(l, u, G)
    \/ \E m \in login[l].todo :
         \/ VisitManaged(l, m) \/ VisitSynced(l, m) \/ VisitAbsent(l, m)
         \/ VisitFails(l, m) \/ VisitConflicts(l, m)
    \/ LoginReconciles(l) \/ LoginDies(l)

AdminStep ==
    \/ \E g \in Groups, t \in Tenants, role \in Role : CreateMapping(g, t, role)
    \/ \E m \in mappings : DeleteMapping(m)

RefreshStep(f) ==
    \/ \E t \in Synced : RefreshBegins(f, t)
    \/ \E u \in Users : RefreshUser(f, u) \/ RefreshUserFails(f, u)
    \/ RefreshEnds(f) \/ RefreshDies(f)

Next ==
    \/ \E l \in Logins : LoginStep(l)
    \/ \E u \in Users, G \in SUBSET Groups : LoginRefused(u, G)
    \/ AdminStep
    \/ \E f \in Refreshers : RefreshStep(f)
    \/ \E u \in Users, t \in Synced : UpstreamChanges(u, t)

Spec == Init /\ [][Next]_vars

-----------------------------------------------------------------------------
(* Properties *)

Settled(u) == u \notin unsettled /\ InProgress(u) = {}

\* Access to a managed tenant, and the role in it, is always backed by a group
\* the user last presented that is mapped to the tenant with that role, through
\* every sequence of logins, mapping deletions with fall-back (which skips
\* members without the removed group) and re-creations.  Only a login that
\* raced with an administrator, or died, can leave it otherwise.
AccessNeedsClaim ==
    \A u \in Users, t \in Tenants \ Synced :
        (HasAccess(u, t) /\ Settled(u)) =>
            \E m \in MappingsOf(t) : m.group \in claims[u] /\ m.role = member[u][t].role

\* The end of a login of u, accepted or refused, that nothing disturbed.
EndsCalmly(u) ==
    \/ \E l \in InProgress(u) : login[l].calm /\ LoginReconciles(l)
    \/ InProgress(u) = {} /\ \E G \in SUBSET Groups : LoginRefused(u, G)

\* A managed tenant can be used exactly when a presented group is mapped to it,
\* in the best role; a synced one only if its group was presented.
SetRight(u, t) ==
    LET best == BestOf({m \in MappingsOf(t) : m.group \in claims'[u]}) IN
    /\ HasAccess(u, t)' => best # {}
    /\ t \notin Synced /\ best # {} =>
         HasAccess(u, t)' /\ \A m \in best : member'[u][t].role = m.role

\* An undisturbed login sets right whatever earlier races and crashes left.
LoginSettles == [][\A u \in Users, t \in Tenants : EndsCalmly(u) => SetRight(u, t)]_vars

\* The abstract promise: see AccessGate.
StandingOf(row) ==
    IF row.role = "none" THEN "none" ELSE IF row.revoked THEN "revoked" ELSE "good"
Offers(l) == login[l].matched \cup {m.tenant : m \in login[l].todo}
PresentedBy(u) == UNION {Offers(l) : l \in InProgress(u)}

Standings == [u \in Users |-> [t \in Tenants |-> StandingOf(member[u][t])]]
Presentations == [u \in Users |-> PresentedBy(u)]
OpenTenants == {m.tenant : m \in mappings}

Gate == INSTANCE AccessGate WITH
    standing <- Standings, presented <- Presentations, open <- OpenTenants

\* Mapping changes, refreshes and the logins of others never create a managed
\* membership and never lift a revocation; nor does a login for a tenant it was
\* not matched with.
OnlyOwnLoginAdmits == Gate!Spec

\* "Recreating a mapping does not silently restore revoked access; a successful
\* later login re-evaluates current claims and clears revocation" (maintainer
\* guide): a revocation is lifted only while the tenant has a mapping, so that
\* what a deletion revoked is still revoked when a mapping is created again.
ClearedThroughMapping ==
    [][\A u \in Users, t \in Tenants :
         (member[u][t].revoked /\ ~member'[u][t].revoked) => MappingsOf(t) # {}]_vars
=============================================================================
