--------------------------- MODULE BucketLifecycle ---------------------------
(***************************************************************************)
(* Local research buckets of one tenant, from the REST handlers that       *)
(* create, share, leave and delete them to the two stores they change:     *)
(* the Django tables (Bucket, BucketPermission) and the policy kept by the *)
(* external RGWSquared service, which provisions the buckets in Ceph.      *)
(*                                                                         *)
(* No handler runs in one database transaction: it reads Django, makes a   *)
(* series of HTTP calls to RGWSquared and writes Django at the end.        *)
(* Handlers of other workers, and the admin's cache refresh, run between   *)
(* any two of those calls.  Each action below is one HTTP call, or one     *)
(* uninterrupted stretch of database statements.                           *)
(*                                                                         *)
(* Buckets of type PROPOSAL (RGWSquared's "auto" buckets) are left out:    *)
(* every handler modelled here refuses them but leave, which pushes the    *)
(* map of local permissions for any bucket.  So is object data.            *)
(***************************************************************************)
EXTENDS Naturals, FiniteSets

CONSTANTS
    Users,          \* members of the tenant, past or present
    Nobody,         \* the null owner
    Names,          \* bare bucket names
    NoName,
    Ids,            \* primary keys of Bucket rows
    NoRow,
    Reqs,           \* gunicorn workers: requests that can run at once
    Refreshers,     \* workers running the admin's cache refresh
    Ops,            \* the operations clients ask for in this instance
    CanName,        \* <<u, n>>: n is the bare name of a project id of user u
    InitialRole,    \* role of each user when the system starts
    InitialRgwUsers,\* users known to RGWSquared when the system starts
    Volatile,       \* users whose membership or role may change
    FaultBudget     \* calls that may be lost, fail or be cut short

Role == {"ro", "rw", "out"}     \* "out": inactive or access revoked
Level == {"none", "ro", "rw", "owner"}
Grant == {"none", "ro", "rw"}
Op == {"create", "destroy", "share", "unshare", "leave"}
SharingOp == {"share", "unshare", "leave"}

ASSUME ConstantsAssumption ==
    /\ Nobody \notin Users /\ NoName \notin Names /\ NoRow \notin Ids
    /\ CanName \subseteq Users \X Names
    /\ InitialRole \in [Users -> Role]
    /\ InitialRgwUsers \subseteq Users
    /\ Volatile \subseteq Users
    /\ FaultBudget \in Nat

VARIABLES
    owner,      \* owner[i]: owner of row i, Nobody when the row has none
    name,       \* name[i]: name of row i, NoName when there is no row i
    perm,       \* perm[i][u]: source="local" BucketPermission of u on row i
    member,     \* member[u]: role of u in the tenant, or "out"
    exists,     \* names of the manual buckets RGWSquared has
    policy,     \* policy[n][u]: what RGWSquared lets u do in bucket n
    rgwUsers,   \* users RGWSquared has in the tenant's structure
    req,        \* req[r]: the request worker r is serving
    seen,       \* seen[f]: names refresh f has listed but not yet stored
    faults      \* what is left of FaultBudget

vars == <<owner, name, perm, member, exists, policy, rgwUsers, req, seen, faults>>
django == <<owner, name, perm>>
rgw == <<exists, policy, rgwUsers>>

NoPerms == [u \in Users |-> "none"]

(***************************************************************************)
(* A request: pc is the next step of its handler, `wanted` the permission  *)
(* map it read (desired_permissions), `todo` the entries of that map not   *)
(* yet resolved, `grants` the rw and ro lists collected so far, `cur` the  *)
(* user being created.  `solo` is a history variable: no other request has *)
(* worked on the same bucket name since this one started.                  *)
(***************************************************************************)
Request ==
    [pc: {"idle", "ensure", "create_user", "rgw", "db", "undo"},
     op: Op \cup {"none"}, id: Ids \cup {NoRow}, name: Names \cup {NoName},
     target: Users \cup {Nobody}, level: Level, wanted: [Users -> Level],
     todo: SUBSET Users, grants: [Users -> Grant], cur: Users \cup {Nobody},
     solo: BOOLEAN]

\* Which fields a request uses, by its operation and step.
WellFormed(q) ==
    /\ q.pc # "idle" => q.name \in Names /\ q.op \in Op
    /\ q.pc = "create_user" => q.cur \in Users
    /\ q.pc = "undo" => q.op = "create"
    /\ q.op \in {"create", "share", "leave"} => q.target \in Users
    /\ q.op \in SharingOp \cup {"destroy"} => q.id \in Ids

Idle ==
    [pc |-> "idle", op |-> "none", id |-> NoRow, name |-> NoName,
     target |-> Nobody, level |-> "none", wanted |-> NoPerms, todo |-> {},
     grants |-> NoPerms, cur |-> Nobody, solo |-> TRUE]

TypeOK ==
    /\ owner \in [Ids -> Users \cup {Nobody}]
    /\ name \in [Ids -> Names \cup {NoName}]
    /\ perm \in [Ids -> [Users -> Level]]
    /\ member \in [Users -> Role]
    /\ exists \subseteq Names
    /\ policy \in [Names -> [Users -> Grant]]
    /\ rgwUsers \subseteq Users
    /\ req \in [Reqs -> Request] /\ \A r \in Reqs : WellFormed(req[r])
    /\ seen \in [Refreshers -> SUBSET Names]
    /\ faults \in Nat

Init ==
    /\ owner = [i \in Ids |-> Nobody]
    /\ name = [i \in Ids |-> NoName]
    /\ perm = [i \in Ids |-> NoPerms]
    /\ member = InitialRole
    /\ exists = {}
    /\ policy = [n \in Names |-> NoPerms]
    /\ rgwUsers = InitialRgwUsers
    /\ req = [r \in Reqs |-> Idle]
    /\ seen = [f \in Refreshers |-> {}]
    /\ faults = FaultBudget

-----------------------------------------------------------------------------
(* Reading the Django tables *)

Live(i) == name[i] # NoName
RowNamed(n) == \E i \in Ids : name[i] = n

\* A primary key is never used twice: a new row takes a key that no request
\* in flight remembers.
FreshId(i) == ~Live(i) /\ \A r \in Reqs : req[r].id # i

\* get_user_permission: the stored level, clamped by the membership's role.
UserPermission(u, i) ==
    IF member[u] = "out" THEN "none"
    ELSE IF member[u] = "ro" /\ perm[i][u] \in {"owner", "rw"} THEN "ro"
    ELSE perm[i][u]

\* The permission map a sharing handler pushes: the stored one with the change.
MapWithDelta(i, t, level) == [NoPerms EXCEPT ![t] = level]
MapWith(i, t, level) == [perm[i] EXCEPT ![t] = level]

MapUnchanged(i, t) == perm[i]
MapWithout(i, t) == [perm[i] EXCEPT ![t] = "none"]

\* The entries of a permission map, and the list each one is sent in.
Entries(wanted) == {u \in Users : wanted[u] # "none"}
GrantAsStored(level) == level
GrantFor(level) == IF level \in {"owner", "rw"} THEN "rw" ELSE level

\* An owner cannot share with, or take a share from, the owner.
AnySharee(u, t) == TRUE
Sharee(u, t) == t # u

\* Foreign keys: a permission needs its bucket row.
NoForeignKey(i) == TRUE
ForeignKeyHolds(i) == Live(i)

-----------------------------------------------------------------------------
(* Starting and ending a request *)

Busy(r) == req[r].pc # "idle"
SharesBucket(r, n) == Busy(r) /\ req[r].name = n

Start(r, q) ==
    /\ ~Busy(r)
    /\ req' = [s \in Reqs |->
                 IF s = r
                 THEN [q EXCEPT !.solo = \A t \in Reqs : ~SharesBucket(t, q.name)]
                 ELSE [req[s] EXCEPT !.solo = @ /\ ~SharesBucket(s, q.name)]]

End(r) == req' = [req EXCEPT ![r] = Idle]
Goto(r, pc) == req' = [req EXCEPT ![r].pc = pc]

\* POST /buckets/: the caller may create, and no row has the name yet.
BeginCreate(r, u, n) ==
    /\ "create" \in Ops
    /\ <<u, n>> \in CanName
    /\ member[u] = "rw"
    /\ ~RowNamed(n)
    /\ Start(r, [Idle EXCEPT !.pc = "ensure", !.op = "create", !.name = n,
                             !.target = u, !.wanted[u] = "owner", !.todo = {u}])
    /\ UNCHANGED <<django, member, rgw, seen, faults>>

\* DELETE /buckets/{id}/ by the owner, or the admin panel's DELETE, which asks
\* for nothing but is_deletable (true of every local bucket).
BeginDestroy(r, i) ==
    /\ Live(i)
    /\ \/ "destroy" \in Ops /\ \E u \in Users : UserPermission(u, i) = "owner"
       \/ "admin_destroy" \in Ops
    /\ Start(r, [Idle EXCEPT !.pc = "rgw", !.op = "destroy", !.id = i,
                             !.name = name[i]])
    /\ UNCHANGED <<django, member, rgw, seen, faults>>

\* What the three sharing handlers hand to _sync_local_bucket_permissions.
BeginSharing(r, i, op, target, level, wanted) ==
    /\ Start(r, [Idle EXCEPT
                   !.pc = IF Entries(wanted) = {} THEN "rgw" ELSE "ensure",
                   !.op = op, !.id = i, !.name = name[i], !.target = target,
                   !.level = level, !.wanted = wanted, !.todo = Entries(wanted)])
    /\ UNCHANGED <<django, member, rgw, seen, faults>>

\* POST /buckets/{id}/shares/ by owner u for target t.
BeginShare(r, u, i, t, level) ==
    /\ "share" \in Ops
    /\ Live(i)
    /\ UserPermission(u, i) = "owner"
    /\ Sharee(u, t)
    /\ member[t] # "out"
    /\ level = "rw" => member[t] = "rw"
    /\ BeginSharing(r, i, "share", t, level, MapWith(i, t, level))

\* DELETE /buckets/{id}/shares/ by owner u of t's share.
BeginUnshare(r, u, i, t) ==
    /\ "unshare" \in Ops
    /\ Live(i)
    /\ UserPermission(u, i) = "owner"
    /\ Sharee(u, t)
    /\ perm[i][t] # "none"
    /\ BeginSharing(r, i, "unshare", t, "none", MapWithout(i, t))

\* DELETE /buckets/{id}/leave/: only the owner is turned away.
BeginLeave(r, u, i) ==
    /\ "leave" \in Ops
    /\ Live(i)
    /\ owner[i] # u
    /\ BeginSharing(r, i, "leave", u, "none", MapWithout(i, u))

-----------------------------------------------------------------------------
(* _sync_local_bucket_permissions and _ensure_rgw_user, one user at a time *)

Resolved(q, u, grant) ==
    [q EXCEPT !.pc = IF q.todo = {u} THEN "rgw" ELSE "ensure",
              !.todo = @ \ {u}, !.grants[u] = grant, !.cur = Nobody]

\* A sharing handler leaves out users without a usable membership.
SkipMember(r, u) ==
    /\ req[r].pc = "ensure" /\ u \in req[r].todo
    /\ req[r].op \in SharingOp /\ member[u] = "out"
    /\ req' = [req EXCEPT ![r] = Resolved(@, u, "none")]
    /\ UNCHANGED <<django, member, rgw, seen, faults>>

UserListedAlways(u) == TRUE
UserListed(u) == u \in rgwUsers

\* list_users: the user is there, or create_user is the next call.
ListUsers(r, u) ==
    /\ req[r].pc = "ensure" /\ u \in req[r].todo
    /\ req[r].op \in SharingOp => member[u] # "out"
    /\ req' = [req EXCEPT ![r] =
                 IF UserListed(u) THEN Resolved(@, u, GrantFor(@.wanted[u]))
                 ELSE [@ EXCEPT !.pc = "create_user", !.cur = u]]
    /\ UNCHANGED <<django, member, rgw, seen, faults>>

CreateUser(r) ==
    /\ req[r].pc = "create_user"
    /\ req[r].cur \notin rgwUsers
    /\ rgwUsers' = rgwUsers \cup {req[r].cur}
    /\ req' = [req EXCEPT ![r] = Resolved(@, @.cur, GrantFor(@.wanted[@.cur]))]
    /\ UNCHANGED <<django, member, exists, policy, seen, faults>>

\* Another request created the user after this one listed them: RGWSquared
\* answers "already exists", and the handler gives up with a 400.
CreateUserRefused(r) ==
    /\ req[r].pc = "create_user"
    /\ req[r].cur \in rgwUsers
    /\ End(r)
    /\ UNCHANGED <<django, member, rgw, seen, faults>>

-----------------------------------------------------------------------------
(* The bucketCreate, bucketUpdate and bucketDelete calls *)

AtCall(r, ops) == req[r].pc = "rgw" /\ req[r].op \in ops

StoreBucket(n, grants) ==
    /\ exists' = exists \cup {n}
    /\ policy' = [policy EXCEPT ![n] = grants]
    /\ UNCHANGED rgwUsers

RemoveBucket(n) ==
    /\ exists' = exists \ {n}
    /\ policy' = [policy EXCEPT ![n] = NoPerms]
    /\ UNCHANGED rgwUsers

CreateBucket(r) ==
    /\ AtCall(r, {"create"})
    /\ req[r].name \notin exists
    /\ StoreBucket(req[r].name, req[r].grants)
    /\ Goto(r, "db")
    /\ UNCHANGED <<django, member, seen, faults>>

UpdateBucket(r) ==
    /\ AtCall(r, SharingOp)
    /\ req[r].name \in exists
    /\ StoreBucket(req[r].name, req[r].grants)
    /\ Goto(r, "db")
    /\ UNCHANGED <<django, member, seen, faults>>

\* rgw_bucket_already_absent: "not found" counts as success.
AbsenceIsAnError(n) == n \in exists
AbsenceIsSuccess(n) == TRUE

\* delete_bucket_via_rgw
DeleteBucket(r) ==
    /\ AtCall(r, {"destroy"})
    /\ AbsenceIsSuccess(req[r].name)
    /\ RemoveBucket(req[r].name)
    /\ Goto(r, "db")
    /\ UNCHANGED <<django, member, seen, faults>>

\* RGWSquared refuses to create a bucket it has or to update one it has not.
CallRefused(r) ==
    /\ \/ AtCall(r, {"create"}) /\ req[r].name \in exists
       \/ AtCall(r, SharingOp) /\ req[r].name \notin exists
    /\ End(r)
    /\ UNCHANGED <<django, member, rgw, seen, faults>>

-----------------------------------------------------------------------------
(* The database writes that end a handler *)

\* transaction.atomic(): the row and its owner's permission, together.
InsertBucket(r, i) ==
    /\ req[r].pc = "db" /\ req[r].op = "create"
    /\ ~RowNamed(req[r].name)
    /\ FreshId(i)
    /\ name' = [name EXCEPT ![i] = req[r].name]
    /\ owner' = [owner EXCEPT ![i] = req[r].target]
    /\ perm' = [perm EXCEPT ![i] = [NoPerms EXCEPT ![req[r].target] = "owner"]]
    /\ End(r)
    /\ UNCHANGED <<member, rgw, seen, faults>>

\* unique(name, tenant), or any other database error: compensate.
InsertFails(r) ==
    /\ req[r].pc = "db" /\ req[r].op = "create"
    /\ RowNamed(req[r].name) \/ "db_error" \in Ops
    /\ Goto(r, "undo")
    /\ UNCHANGED <<django, member, rgw, seen, faults>>

LeaveBucket(n) == UNCHANGED rgw
Compensate(n) == RemoveBucket(n)

\* The except branch deletes the RGWSquared bucket again.
UndoCreate(r) ==
    /\ req[r].pc = "undo"
    /\ Compensate(req[r].name)
    /\ End(r)
    /\ UNCHANGED <<django, member, seen, faults>>

\* bucket.delete() cascades to the permissions.
DeleteRow(r) ==
    /\ req[r].pc = "db" /\ req[r].op = "destroy"
    /\ name' = [name EXCEPT ![req[r].id] = NoName]
    /\ owner' = [owner EXCEPT ![req[r].id] = Nobody]
    /\ perm' = [perm EXCEPT ![req[r].id] = NoPerms]
    /\ End(r)
    /\ UNCHANGED <<member, rgw, seen, faults>>

\* update_or_create; the foreign key refuses it once the bucket row is gone.
SaveShare(r) ==
    /\ req[r].pc = "db" /\ req[r].op = "share"
    /\ perm' = IF ForeignKeyHolds(req[r].id)
               THEN [perm EXCEPT ![req[r].id][req[r].target] = req[r].level]
               ELSE perm
    /\ End(r)
    /\ UNCHANGED <<owner, name, member, rgw, seen, faults>>

\* An unshare in flight names a permission row by its primary key: when the
\* row is deleted, the key names nothing, even if the user is shared with again.
ForgetShare(i, t) ==
    [s \in Reqs |->
       IF req[s].op = "unshare" /\ req[s].id = i /\ req[s].target = t
       THEN [req[s] EXCEPT !.target = Nobody] ELSE req[s]]

\* unshare and leave delete the permission row, or find none and answer 404.
DropShare(r) ==
    LET i == req[r].id  t == req[r].target IN
    /\ req[r].pc = "db" /\ req[r].op \in {"unshare", "leave"}
    /\ IF t = Nobody
       THEN End(r) /\ UNCHANGED perm
       ELSE /\ perm' = [perm EXCEPT ![i][t] = "none"]
            /\ req' = [ForgetShare(i, t) EXCEPT ![r] = Idle]
    /\ UNCHANGED <<owner, name, member, rgw, seen, faults>>

-----------------------------------------------------------------------------
(* Faults: RGWSquared unreachable, timeouts, a worker killed *)

Fault == faults > 0 /\ faults' = faults - 1

\* The pending call fails without effect, or the worker dies before it.
Abandon(r) ==
    /\ Busy(r)
    /\ Fault
    /\ End(r)
    /\ UNCHANGED <<django, member, rgw, seen>>

\* The call takes effect but its answer never reaches the handler.
LostReply(r) ==
    /\ Fault
    /\ \/ /\ req[r].pc = "create_user"
          /\ rgwUsers' = rgwUsers \cup {req[r].cur}
          /\ UNCHANGED <<exists, policy>>
       \/ /\ AtCall(r, {"create"}) /\ req[r].name \notin exists
          /\ StoreBucket(req[r].name, req[r].grants)
       \/ /\ AtCall(r, SharingOp) /\ req[r].name \in exists
          /\ StoreBucket(req[r].name, req[r].grants)
       \/ AtCall(r, {"destroy"}) /\ RemoveBucket(req[r].name)
    /\ End(r)
    /\ UNCHANGED <<django, member, seen>>

-----------------------------------------------------------------------------
(* The bucket part of refresh_local_cache *)

\* client.list_buckets(structure)
RefreshList(f) ==
    /\ seen[f] = {}
    /\ exists # {}
    /\ seen' = [seen EXCEPT ![f] = exists]
    /\ UNCHANGED <<django, member, rgw, req, faults>>

HasWritingOwner(i) == \E u \in Users : UserPermission(u, i) = "owner"
HasLocalOwner(i) == \E u \in Users : perm[i][u] = "owner"

\* One item of the listing: get_or_create, then _cleanup_orphan_manual_bucket.
RefreshAdopt(f, n, i) ==
    /\ n \in seen[f]
    /\ ~RowNamed(n)
    /\ FreshId(i)
    /\ name' = [name EXCEPT ![i] = n]
    /\ seen' = [seen EXCEPT ![f] = @ \ {n}]
    /\ UNCHANGED <<owner, perm, member, rgw, req, faults>>

RefreshKnown(f, n, i) ==
    /\ n \in seen[f]
    /\ name[i] = n
    /\ perm' = IF HasLocalOwner(i) THEN perm ELSE [perm EXCEPT ![i] = NoPerms]
    /\ seen' = [seen EXCEPT ![f] = @ \ {n}]
    /\ UNCHANGED <<owner, name, member, rgw, req, faults>>

-----------------------------------------------------------------------------
\* Login, mapping changes and the user part of refresh change memberships.
ChangeMembership(u) ==
    /\ u \in Volatile
    /\ \E role \in Role \ {member[u]} : member' = [member EXCEPT ![u] = role]
    /\ UNCHANGED <<django, rgw, req, seen, faults>>

RequestBegins(r) ==
    \/ \E u \in Users, n \in Names : BeginCreate(r, u, n)
    \/ \E i \in Ids : BeginDestroy(r, i)
    \/ \E u, t \in Users, i \in Ids :
         \/ \E level \in {"ro", "rw"} : BeginShare(r, u, i, t, level)
         \/ BeginUnshare(r, u, i, t)
    \/ \E u \in Users, i \in Ids : BeginLeave(r, u, i)

RequestContinues(r) ==
    \/ \E u \in Users : SkipMember(r, u) \/ ListUsers(r, u)
    \/ CreateUser(r) \/ CreateUserRefused(r)
    \/ CreateBucket(r) \/ UpdateBucket(r) \/ DeleteBucket(r) \/ CallRefused(r)
    \/ \E i \in Ids : InsertBucket(r, i)
    \/ InsertFails(r) \/ UndoCreate(r) \/ DeleteRow(r)
    \/ SaveShare(r) \/ DropShare(r)

RefreshStep(f) ==
    \/ RefreshList(f)
    \/ \E n \in Names, i \in Ids : RefreshAdopt(f, n, i) \/ RefreshKnown(f, n, i)

Next ==
    \/ \E r \in Reqs : RequestBegins(r) \/ RequestContinues(r)
                       \/ Abandon(r) \/ LostReply(r)
    \/ \E f \in Refreshers : RefreshStep(f)
    \/ \E u \in Users : ChangeMembership(u)

Spec == Init /\ [][Next]_vars

(***************************************************************************)
(* Fairness: every RGWSquared call carries a timeout and a gunicorn worker *)
(* runs or is killed, so a handler and a refresh keep moving; and an       *)
(* operator keeps refreshing the cache and deleting what it shows, as the  *)
(* deployment guide asks.  Nothing is assumed of the users.                *)
(***************************************************************************)
FairSpec ==
    /\ Spec
    /\ \A r \in Reqs : WF_vars(RequestContinues(r))
    /\ \A f \in Refreshers : WF_vars(RefreshStep(f))
    /\ WF_vars(\E r \in Reqs, i \in Ids : BeginDestroy(r, i))

-----------------------------------------------------------------------------
(* Safety *)

\* A row with an owner has exactly one "owner" permission, the owner's; a row
\* without one has none: no interleaving of the handlers' permission writes,
\* deletions and the refresh's clean-up takes a bucket from its owner or gives
\* it a second one (buckets.py create/shares/leave, _cleanup_orphan_...).
OneOwner ==
    \A i \in Ids : {u \in Users : perm[i][u] = "owner"} = {owner[i]} \ {Nobody}

\* "Researchers must never see orphans": a row adopted by the refresh, and a
\* primary key whose row is gone, have no permission at all, even when a share
\* is saved after the bucket it was meant for was deleted.
OrphansInvisible ==
    \A i \in Ids : owner[i] = Nobody => perm[i] = NoPerms

\* "Every user in RWPermissions or ROPermissions must already exist in the
\* structure": the policy RGWSquared holds never names an unknown user.
PolicyUsersExist ==
    \A n \in Names, u \in Users : policy[n][u] # "none" => u \in rgwUsers

\* The creator still working on a bucket it has provisioned.
Creator(r, n) ==
    req[r].op = "create" /\ req[r].name = n /\ req[r].pc \in {"db", "undo"}

\* Storage is never lost track of: as long as no call was lost or cut short,
\* every bucket RGWSquared has is in Django or is still in its creator's hands,
\* however creates, deletes and shares of the same name interleave.  It is
\* what "delete the Django row only after bucketDelete succeeds" is for.
NothingUntracked ==
    faults = FaultBudget =>
        \A n \in exists : RowNamed(n) \/ \E r \in Reqs : Creator(r, n)

\* What RGWSquared should enforce for u on row i.
Enforced(i, u) == IF member[u] = "out" THEN "none" ELSE GrantFor(perm[i][u])

Disagreeing(i) == {u \in Users : policy[name[i]][u] # Enforced(i, u)}

\* One handler at a time on a tenant: failed and half-done sharing changes do
\* not pile up.  Each push sends the complete map read from Django, so Django
\* and RGWSquared differ about one user of a bucket at most.
DriftAtMostOne ==
    \A i \in Ids : name[i] \in exists => Cardinality(Disagreeing(i)) <= 1

\* When nothing is running, Django and RGWSquared have the same buckets ("Keep
\* RGWSquared and DB in sync if local metadata creation fails").
InSyncWhenIdle ==
    (/\ \A r \in Reqs : ~Busy(r)
     /\ \A f \in Refreshers : seen[f] = {})
    => exists = {n \in Names : RowNamed(n)}

-----------------------------------------------------------------------------
(* Action properties *)

\* The refresh never takes a permission away in a state the app can reach:
\* because create inserts the row and its owner's permission in one
\* transaction, has_local_owner holds of every bucket with a permission.
RefreshKeepsGrants ==
    [][(\E f \in Refreshers : seen'[f] # seen[f]) => perm' = perm]_vars

Finishes(r, ops) ==
    req[r].pc = "db" /\ req[r].op \in ops /\ req'[r].pc = "idle" /\ faults' = faults

\* A sharing change that had the bucket to itself leaves Django and RGWSquared
\* agreeing about every user with a settled membership, whatever earlier
\* changes left behind (_sync_local_bucket_permissions before the DB write).
SoloShareAgrees ==
    [][\A r \in Reqs, i \in Ids :
         (Finishes(r, SharingOp) /\ req[r].solo /\ req[r].id = i)
         => name'[i] \in exists' /\ Disagreeing(i)' \subseteq Volatile]_vars

-----------------------------------------------------------------------------
(* Liveness *)

\* Nothing is stranded for good: once no user can create any more, an operator
\* who keeps refreshing and deleting gets rid of every bucket on both sides,
\* after any lost reply, crash or race, because a deletion accepts a bucket
\* that is already absent and the refresh adopts one that Django lost.
NothingStranded ==
    <>[](\A u \in Users : member[u] = "out")
    => <>[](exists = {} /\ \A i \in Ids : ~Live(i))
=============================================================================
