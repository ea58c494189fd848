----------------------------- MODULE ProposalSync -----------------------------
(***************************************************************************)
(* How the members of one RGWSquared-synced tenant get the role, the       *)
(* operational-unit code and the proposal buckets that RGWSquared has for  *)
(* them.  Three writers work on the same rows without a lock or a common   *)
(* transaction: the user's own login, which makes the proposals visible at *)
(* once and takes nothing away; the administrators' refresh, which mirrors *)
(* RGWSquared user by user and is also the last step of a tenant's         *)
(* activation; and the upload of the instruments CSV, which hands out      *)
(* codes.  All of them work from what they read some calls ago.            *)
(*                                                                         *)
(* Accounts exist, Ceph names are those of their users (see Accounts) and  *)
(* every user presents the tenant's group (see TenantAccess).  A bucket    *)
(* stays automatic or manual.  The row of an automatic bucket is made      *)
(* before a grant names it and never removed, and is left out.  A code is  *)
(* there or not: which one is the matter of the mapping file.              *)
(***************************************************************************)
EXTENDS Naturals, FiniteSets

CONSTANTS
    Users,
    Nobody,
    Buckets,        \* RGWSquared's buckets of the tenant
    NoBucket,
    Automatic,      \* those of proposals; the others were made by hand
    Affiliated,     \* users whose institution is in the mapping file
    InCsv,          \* users whom the instruments CSV names with such one
    StartRights,    \* rights that a user RGWSquared lists at first may have
    Logins,         \* gunicorn workers
    Refreshers,     \* workers running admin_create_tenant or a refresh
    Uploaders,      \* workers running admin_sync_upload_csv
    ChangeBudget,   \* changes of the users' rights in RGWSquared
    FaultBudget     \* calls that may fail, workers that may die

ASSUME ProposalsAssumption ==
    /\ Nobody \notin Users /\ NoBucket \notin Buckets
    /\ Automatic \subseteq Buckets
    /\ Affiliated \subseteq Users /\ InCsv \subseteq Users
    /\ StartRights \subseteq [Buckets -> SUBSET {"ro", "rw"}]
    /\ Logins \cap Refreshers = {}
    /\ (Logins \cup Refreshers) \cap Uploaders = {}
    /\ ChangeBudget \in Nat /\ FaultBudget \in Nat

VARIABLES
    tenant,     \* the Tenant row exists
    codes,      \* the tenant's UOMapping rows are loaded
    listed,     \* the users RGWSquared lists
    rights,     \* rights[u][b]: in which of ROBuckets, RWBuckets b is for u
    member,     \* member[u]: the TenantMembership row
    grant,      \* grant[u][b]: the BucketPermission row, "none" without one
    login,      \* login[l]: the login worker l serves
    refresh,    \* refresh[f]: the refresh worker f runs
    upload,     \* upload[c]: users whose code CSV worker c is about to save
    changes, faults,
    ever,       \* history: ever[u][b]: the rights u has had on b
    calm        \* history: workers that nothing failed for or interfered with

vars == <<tenant, codes, listed, rights, member, grant, login, refresh, upload,
          changes, faults, ever, calm>>

Right == {"ro", "rw"}
Rights == [Buckets -> SUBSET Right]
NoRights == [b \in Buckets |-> {}]

\* role "none": no row.  `code`: uo_code is not empty.
Membership == [role: Right \cup {"none"}, active: BOOLEAN, revoked: BOOLEAN,
               code: BOOLEAN]
NoMembership == [role |-> "none", active |-> FALSE, revoked |-> FALSE, code |-> FALSE]

\* A membership object in a worker's memory, as far as a save depends on it.
Held == [role: Right, code: BOOLEAN]
NotHeld == [role |-> "ro", code |-> FALSE]

\* A login: the bucket references it has yet to grant, the one at hand and the
\* permission row it found for it, the role it computed, whether RGWSquared
\* confirmed the user.  "lost" is a row found that somebody deleted since.
Login == [pc: {"idle", "info", "look", "write", "clear", "reconcile", "code", "fill"},
          user: Users \cup {Nobody}, due: SUBSET (Buckets \X Right),
          bucket: Buckets \cup {NoBucket}, right: Right,
          found: {"none", "ro", "rw", "lost"}, role: Right, ok: BOOLEAN, held: Held]
NoLogin == [pc |-> "idle", user |-> Nobody, due |-> {}, bucket |-> NoBucket,
            right |-> "ro", found |-> "none", role |-> "ro", ok |-> FALSE,
            held |-> NotHeld]

\* A refresh: the automatic buckets it got, the users it listed and has yet to
\* visit, the user at hand with the rights it read and has yet to grant.
Refresh == [pc: {"idle", "load", "list", "users", "info", "member", "code", "grant",
                 "sweep", "drop"},
            seen: SUBSET Buckets, listed: SUBSET Users, todo: SUBSET Users,
            user: Users \cup {Nobody}, read: Rights, due: SUBSET Buckets, held: Held]
NoRefresh == [pc |-> "idle", seen |-> {}, listed |-> {}, todo |-> {}, user |-> Nobody,
              read |-> NoRights, due |-> {}, held |-> NotHeld]

Workers == Logins \cup Refreshers

TypeOK ==
    /\ tenant \in BOOLEAN /\ codes \in BOOLEAN
    /\ listed \subseteq Users
    /\ rights \in [Users -> Rights] /\ ever \in [Users -> Rights]
    /\ \A u \in Users \ listed : rights[u] = NoRights
    /\ member \in [Users -> Membership]
    /\ \A u \in Users : member[u].role = "none" => member[u] = NoMembership
    /\ grant \in [Users -> [Buckets -> Right \cup {"none"}]]
    /\ login \in [Logins -> Login]
    /\ \A l \in Logins : login[l].pc # "idle" => login[l].user \in Users
    /\ \A l \in Logins : login[l].pc = "write" => login[l].bucket \in Buckets
    /\ refresh \in [Refreshers -> Refresh]
    /\ \A f \in Refreshers :
         refresh[f].pc \in {"member", "code", "grant", "drop"} => refresh[f].user \in Users
    /\ upload \in [Uploaders -> [busy: BOOLEAN, todo: SUBSET Users]]
    /\ changes \in Nat /\ faults \in Nat
    /\ calm \subseteq Workers

Init ==
    /\ tenant = FALSE /\ codes = FALSE
    /\ listed \in SUBSET Users
    /\ rights \in [Users -> StartRights \cup {NoRights}]
    /\ \A u \in Users \ listed : rights[u] = NoRights
    /\ ever = rights
    /\ member = [u \in Users |-> NoMembership]
    /\ grant = [u \in Users |-> [b \in Buckets |-> "none"]]
    /\ login = [l \in Logins |-> NoLogin]
    /\ refresh = [f \in Refreshers |-> NoRefresh]
    /\ upload = [c \in Uploaders |-> [busy |-> FALSE, todo |-> {}]]
    /\ changes = ChangeBudget /\ faults = FaultBudget
    /\ calm = {}

Fault == faults > 0 /\ faults' = faults - 1

\* What worker w writes disturbs every other.
Writes(w) == calm' = calm \cap {w}
Starts(w) == calm' = calm \cup {w}

AlsoReadOnly(R) == IF "rw" \in R THEN "rw" ELSE "ro"
Strongest(R) == IF R = {} THEN "none" ELSE AlsoReadOnly(R)

-----------------------------------------------------------------------------
(* Codes: who may carry one *)

\* update_or_create: an existing row keeps its revocation and its code.
Upserted(row, role) == [row EXCEPT !.role = role, !.active = TRUE]
HeldOf(row) == [role |-> row.role, code |-> row.code]

\* Read-only members lose their code, write-capable ones without get theirs.
Cleared(held) == held.role = "rw" /\ held.code
Assigned(u, held) == held.role = "rw" /\ (held.code \/ (u \in Affiliated /\ codes))

\* save(update_fields=["uo_code"]), when the object in memory is not so yet.
SaveCode(u, held, code) ==
    member' = IF code = held.code THEN member ELSE [member EXCEPT ![u] = [@ EXCEPT !.code = code]]

-----------------------------------------------------------------------------
(* Login: _sync_rgwsquared_user_access and what follows it *)

Fails(l) == [login EXCEPT ![l] = [@ EXCEPT !.pc = "reconcile", !.due = {},
                      !.found = "none", !.bucket = NoBucket]]

\* list_users
LoginBegins(l, u) ==
    /\ login[l].pc = "idle" /\ tenant
    /\ login' = [login EXCEPT ![l] =
                   [NoLogin EXCEPT !.user = u,
                                   !.pc = IF u \in listed THEN "info" ELSE "reconcile"]]
    /\ Starts(l)
    /\ UNCHANGED <<tenant, codes, listed, rights, member, grant, refresh, upload,
                   changes, faults, ever>>

\* Only references to automatic buckets are granted; the role counts all.
EveryReference(u) == {d \in Buckets \X Right : d[2] \in rights[u][d[1]]}
References(u) == {d \in Automatic \X Right : d[2] \in rights[u][d[1]]}
LoginRole(u) == IF \E b \in Buckets : "rw" \in rights[u][b] THEN "rw" ELSE "ro"

\* get_user_info and list_buckets
LoginReads(l) ==
    LET u == login[l].user IN
    /\ login[l].pc = "info" /\ u \in listed
    /\ login' = [login EXCEPT ![l] = [@ EXCEPT !.pc = "look", !.due = References(u),
                          !.role = LoginRole(u)]]
    /\ UNCHANGED <<tenant, codes, listed, rights, member, grant, refresh, upload,
                   changes, faults, ever, calm>>

\* RW references come first.
LoginLooks(l, b, p) ==
    /\ login[l].pc = "look" /\ <<b, p>> \in login[l].due
    /\ p = "ro" => \A d \in login[l].due : d[2] = "ro"
    /\ login' = [login EXCEPT ![l] = [@ EXCEPT !.pc = "write", !.due = login[l].due \ {<<b, p>>},
                          !.bucket = b, !.right = p,
                          !.found = grant[login[l].user][b]]]
    /\ UNCHANGED <<tenant, codes, listed, rights, member, grant, refresh, upload,
                   changes, faults, ever, calm>>

\* Creates a missing row, upgrades one from RO; never downgrades.
FirstComeFirst(found, p) == IF found = "none" THEN p ELSE found
Upgraded(found, p) == IF found \in {"none", "ro"} THEN p ELSE found

LoginGrants(l) ==
    LET u == login[l].user  b == login[l].bucket  found == login[l].found
        p == login[l].right
    IN
    /\ login[l].pc = "write"
    /\ found = "none" => grant[u][b] = "none"
    /\ ~(found = "lost" /\ p = "rw")
    /\ IF Upgraded(found, p) = found \/ found = "lost" THEN UNCHANGED <<grant, calm>>
       ELSE grant' = [grant EXCEPT ![u][b] = Upgraded(found, p)] /\ Writes(l)
    /\ login' = [login EXCEPT ![l] = [@ EXCEPT !.pc = "look", !.found = "none",
                          !.bucket = NoBucket]]
    /\ UNCHANGED <<tenant, codes, listed, rights, member, refresh, upload,
                   changes, faults, ever>>

\* The row was created or deleted behind the login's back: IntegrityError, or a
\* save that affects no row.  Caught, and taken as "not a member".
LoginGrantConflicts(l) ==
    LET u == login[l].user  b == login[l].bucket IN
    /\ login[l].pc = "write"
    /\ \/ login[l].found = "none" /\ grant[u][b] # "none"
       \/ login[l].found = "lost" /\ login[l].right = "rw"
    /\ login' = Fails(l)
    /\ calm' = calm \ {l}
    /\ UNCHANGED <<tenant, codes, listed, rights, member, grant, refresh, upload,
                   changes, faults, ever>>

LoginUpserts(l) ==
    LET u == login[l].user IN
    /\ login[l].pc = "look" /\ login[l].due = {}
    /\ member' = [member EXCEPT ![u] = Upserted(@, login[l].role)]
    /\ login' = [login EXCEPT ![l] = [@ EXCEPT !.pc = "clear",
                          !.held = HeldOf(member'[u])]]
    /\ Writes(l)
    /\ UNCHANGED <<tenant, codes, listed, rights, grant, refresh, upload,
                   changes, faults, ever>>

LoginClearsCode(l) ==
    /\ login[l].pc = "clear"
    /\ SaveCode(login[l].user, login[l].held, Cleared(login[l].held))
    /\ login' = [login EXCEPT ![l] = [@ EXCEPT !.pc = "reconcile", !.ok = TRUE]]
    /\ Writes(l)
    /\ UNCHANGED <<tenant, codes, listed, rights, grant, refresh, upload,
                   changes, faults, ever>>

\* RGWSquared does not answer, or no longer has the user.
LoginFails(l) ==
    /\ login[l].pc \in {"info", "look", "write", "clear"}
    /\ \/ Fault
       \/ login[l].pc = "info" /\ login[l].user \notin listed /\ UNCHANGED faults
    /\ login' = Fails(l)
    /\ calm' = calm \ {l}
    /\ UNCHANGED <<tenant, codes, listed, rights, member, grant, refresh, upload,
                   changes, ever>>

\* _reconcile_access
RevokedAnyway(row, ok) == [row EXCEPT !.revoked = ~ok]
Reconciled(row, ok) == IF row.role = "none" THEN row ELSE [row EXCEPT !.revoked = ~ok]

LoginReconciles(l) ==
    LET u == login[l].user IN
    /\ login[l].pc = "reconcile"
    /\ member' = [member EXCEPT ![u] = Reconciled(@, login[l].ok)]
    /\ login' = [login EXCEPT ![l] = [@ EXCEPT !.pc = "code"]]
    /\ Writes(l)
    /\ UNCHANGED <<tenant, codes, listed, rights, grant, refresh, upload,
                   changes, faults, ever>>

\* _sync_uo_codes_for_user: the active memberships, read in one query ...
LoginReadsMember(l) ==
    LET u == login[l].user IN
    /\ login[l].pc = "code"
    /\ login' = IF member[u].active
                THEN [login EXCEPT ![l] = [@ EXCEPT !.pc = "fill",
                               !.held = HeldOf(member[u])]]
                ELSE [login EXCEPT ![l] = NoLogin]
    /\ UNCHANGED <<tenant, codes, listed, rights, member, grant, refresh, upload,
                   changes, faults, ever, calm>>

\* ... and saved one by one.
LoginFillsCode(l) ==
    LET u == login[l].user IN
    /\ login[l].pc = "fill"
    /\ SaveCode(u, login[l].held, Assigned(u, login[l].held))
    /\ login' = [login EXCEPT ![l] = NoLogin]
    /\ Writes(l)
    /\ UNCHANGED <<tenant, codes, listed, rights, grant, refresh, upload,
                   changes, faults, ever>>

LoginDies(l) ==
    /\ login[l].pc # "idle"
    /\ Fault
    /\ login' = [login EXCEPT ![l] = NoLogin]
    /\ UNCHANGED <<tenant, codes, listed, rights, member, grant, refresh, upload,
                   changes, ever, calm>>

-----------------------------------------------------------------------------
(* Activation and refresh: admin_create_tenant, refresh_local_cache *)

CreateTenant(f) ==
    /\ refresh[f].pc = "idle" /\ ~tenant
    /\ tenant' = TRUE
    /\ refresh' = [refresh EXCEPT ![f] = [NoRefresh EXCEPT !.pc = "load"]]
    /\ Starts(f)
    /\ UNCHANGED <<codes, listed, rights, member, grant, login, upload,
                   changes, faults, ever>>

\* load_uo_mappings; a failure is logged and the activation goes on.
LoadMappings(f) ==
    /\ refresh[f].pc = "load"
    /\ \/ codes' = TRUE /\ UNCHANGED faults
       \/ UNCHANGED codes /\ Fault
    /\ refresh' = [refresh EXCEPT ![f] = [@ EXCEPT !.pc = "list"]]
    /\ Writes(f)
    /\ UNCHANGED <<tenant, listed, rights, member, grant, login, upload, changes, ever>>

\* The container starts, and loads the mappings of active tenants again.
RestartLoadsMappings ==
    /\ tenant
    /\ codes' = TRUE
    /\ calm' = {}
    /\ UNCHANGED <<tenant, listed, rights, member, grant, login, refresh, upload,
                   changes, faults, ever>>

BeginRefresh(f) ==
    /\ refresh[f].pc = "idle" /\ tenant
    /\ refresh' = [refresh EXCEPT ![f] = [NoRefresh EXCEPT !.pc = "list"]]
    /\ Starts(f)
    /\ UNCHANGED <<tenant, codes, listed, rights, member, grant, login, upload,
                   changes, faults, ever>>

\* A failed bucket listing counts as an empty one.
ListBuckets(f) ==
    /\ refresh[f].pc = "list"
    /\ \/ /\ refresh' = [refresh EXCEPT ![f] = [@ EXCEPT !.pc = "users",
                                  !.seen = Automatic]]
          /\ UNCHANGED <<faults, calm>>
       \/ /\ refresh' = [refresh EXCEPT ![f] = [@ EXCEPT !.pc = "users"]]
          /\ Fault /\ calm' = calm \ {f}
    /\ UNCHANGED <<tenant, codes, listed, rights, member, grant, login, upload,
                   changes, ever>>

ListUsers(f) ==
    /\ refresh[f].pc = "users"
    /\ refresh' = [refresh EXCEPT ![f] = [@ EXCEPT !.pc = "info", !.listed = listed,
                            !.todo = listed]]
    /\ UNCHANGED <<tenant, codes, listed, rights, member, grant, login, upload,
                   changes, faults, ever, calm>>

\* get_user_info, of which the buckets listed before count.
KnownRights(f, u) == [b \in Buckets |-> IF b \in refresh[f].seen THEN rights[u][b] ELSE {}]

ReadUser(f, u) ==
    /\ refresh[f].pc = "info" /\ u \in refresh[f].todo /\ u \in listed
    /\ refresh' = [refresh EXCEPT ![f] = [@ EXCEPT !.pc = "member", !.todo = refresh[f].todo \ {u},
                            !.user = u,
                            !.read = KnownRights(f, u)]]
    /\ UNCHANGED <<tenant, codes, listed, rights, member, grant, login, upload,
                   changes, faults, ever, calm>>

\* It fails or is empty: the user is left as is, and counts as listed.
SkipUser(f, u) ==
    /\ refresh[f].pc = "info" /\ u \in refresh[f].todo
    /\ Fault \/ (u \notin listed /\ UNCHANGED faults)
    /\ refresh' = [refresh EXCEPT ![f] = [@ EXCEPT !.todo = refresh[f].todo \ {u}]]
    /\ calm' = calm \ {f}
    /\ UNCHANGED <<tenant, codes, listed, rights, member, grant, login, upload,
                   changes, ever>>

ReadRole(read) == IF \E b \in Buckets : "rw" \in read[b] THEN "rw" ELSE "ro"

UpsertMember(f) ==
    LET u == refresh[f].user IN
    /\ refresh[f].pc = "member"
    /\ member' = [member EXCEPT ![u] = Upserted(@, ReadRole(refresh[f].read))]
    /\ refresh' = [refresh EXCEPT ![f] = [@ EXCEPT !.pc = "code",
                            !.held = HeldOf(member'[u])]]
    /\ Writes(f)
    /\ UNCHANGED <<tenant, codes, listed, rights, grant, login, upload,
                   changes, faults, ever>>

RefreshCode(f) ==
    LET u == refresh[f].user IN
    /\ refresh[f].pc = "code"
    /\ SaveCode(u, refresh[f].held, Assigned(u, refresh[f].held))
    /\ refresh' = [refresh EXCEPT ![f] = [@ EXCEPT !.pc = "grant",
                            !.due = {b \in Buckets : refresh[f].read[b] # {}}]]
    /\ Writes(f)
    /\ UNCHANGED <<tenant, codes, listed, rights, grant, login, upload,
                   changes, faults, ever>>

\* _sync_user_permissions: one update_or_create per bucket, RW wins ...
GrantBucket(f, b) ==
    LET u == refresh[f].user  read == refresh[f].read IN
    /\ refresh[f].pc = "grant" /\ b \in refresh[f].due
    /\ "rw" \notin read[b] => \A d \in refresh[f].due : "rw" \notin read[d]
    /\ grant' = [grant EXCEPT ![u][b] = AlsoReadOnly(read[b])]
    /\ refresh' = [refresh EXCEPT ![f] = [@ EXCEPT !.due = refresh[f].due \ {b}]]
    /\ Writes(f)
    /\ UNCHANGED <<tenant, codes, listed, rights, member, login, upload,
                   changes, faults, ever>>

\* The login objects of user u whose permission row goes with buckets B.
Lost(u, B) ==
    [l \in Logins |->
       IF login[l].user = u /\ login[l].bucket \in B /\ login[l].found = "ro"
       THEN [login[l] EXCEPT !.found = "lost"] ELSE login[l]]

NoneUnread(read) == {}
Unread(read) == {b \in Buckets : read[b] = {}}

\* ... and one deletion of the others.
PruneGrants(f) ==
    LET u == refresh[f].user  gone == Unread(refresh[f].read) IN
    /\ refresh[f].pc = "grant" /\ refresh[f].due = {}
    /\ grant' = [grant EXCEPT ![u] =
                   [b \in Buckets |-> IF b \in gone THEN "none" ELSE @[b]]]
    /\ login' = Lost(u, gone)
    /\ refresh' = [refresh EXCEPT ![f] = [@ EXCEPT !.pc = "info", !.user = Nobody,
                                            !.read = NoRights, !.held = NotHeld]]
    /\ Writes(f)
    /\ UNCHANGED <<tenant, codes, listed, rights, member, upload, changes, faults, ever>>

NoneStale(f) == {}
StaleMembers(f) == {u \in Users : member[u].active /\ u \notin refresh[f].listed}

FindStale(f) ==
    /\ refresh[f].pc = "info" /\ refresh[f].todo = {}
    /\ refresh' = [refresh EXCEPT ![f] = [@ EXCEPT !.pc = "sweep",
                            !.todo = StaleMembers(f), !.listed = {}]]
    /\ UNCHANGED <<tenant, codes, listed, rights, member, grant, login, upload,
                   changes, faults, ever, calm>>

DropGrants(f, u) ==
    /\ refresh[f].pc = "sweep" /\ u \in refresh[f].todo
    /\ grant' = [grant EXCEPT ![u] = [b \in Buckets |-> "none"]]
    /\ login' = Lost(u, Buckets)
    /\ refresh' = [refresh EXCEPT ![f] = [@ EXCEPT !.pc = "drop", !.todo = refresh[f].todo \ {u},
                            !.user = u]]
    /\ Writes(f)
    /\ UNCHANGED <<tenant, codes, listed, rights, member, upload, changes, faults, ever>>

Deactivate(f) ==
    /\ refresh[f].pc = "drop"
    /\ member' = [member EXCEPT ![refresh[f].user] = [@ EXCEPT !.active = FALSE]]
    /\ refresh' = [refresh EXCEPT ![f] = [@ EXCEPT !.pc = "sweep", !.user = Nobody]]
    /\ Writes(f)
    /\ UNCHANGED <<tenant, codes, listed, rights, grant, login, upload,
                   changes, faults, ever>>

EndRefresh(f) ==
    /\ refresh[f].pc = "sweep" /\ refresh[f].todo = {}
    /\ refresh' = [refresh EXCEPT ![f] = NoRefresh]
    /\ UNCHANGED <<tenant, codes, listed, rights, member, grant, login, upload,
                   changes, faults, ever, calm>>

\* list_users fails, an exception, a killed worker.
RefreshDies(f) ==
    /\ refresh[f].pc # "idle"
    /\ Fault
    /\ refresh' = [refresh EXCEPT ![f] = NoRefresh]
    /\ UNCHANGED <<tenant, codes, listed, rights, member, grant, login, upload,
                   changes, ever, calm>>

-----------------------------------------------------------------------------
(* admin_sync_upload_csv *)

WriteCapable(u) == member[u].role = "rw"

\* The write-capable memberships the CSV has another code for, as read.
CsvReads(c) ==
    /\ ~upload[c].busy /\ tenant
    /\ upload' = [upload EXCEPT ![c] =
         [busy |-> TRUE,
          todo |-> {u \in InCsv : codes /\ WriteCapable(u) /\ ~member[u].code}]]
    /\ UNCHANGED <<tenant, codes, listed, rights, member, grant, login, refresh,
                   changes, faults, ever, calm>>

CsvSaves(c, u) ==
    /\ u \in upload[c].todo
    /\ member' = [member EXCEPT ![u] = [@ EXCEPT !.code = TRUE]]
    /\ upload' = [upload EXCEPT ![c] = [@ EXCEPT !.todo = upload[c].todo \ {u}]]
    /\ Writes(c)
    /\ UNCHANGED <<tenant, codes, listed, rights, grant, login, refresh,
                   changes, faults, ever>>

\* One UPDATE of all others.
CsvClears(c) ==
    /\ upload[c].busy /\ upload[c].todo = {}
    /\ member' = [u \in Users |-> IF WriteCapable(u) \/ ~member[u].code THEN member[u]
                                  ELSE [member[u] EXCEPT !.code = FALSE]]
    /\ upload' = [upload EXCEPT ![c] = [@ EXCEPT !.busy = FALSE]]
    /\ Writes(c)
    /\ UNCHANGED <<tenant, codes, listed, rights, grant, login, refresh,
                   changes, faults, ever>>

CsvDies(c) ==
    /\ upload[c].busy
    /\ Fault
    /\ upload' = [upload EXCEPT ![c] = [busy |-> FALSE, todo |-> {}]]
    /\ UNCHANGED <<tenant, codes, listed, rights, member, grant, login, refresh,
                   changes, ever, calm>>

-----------------------------------------------------------------------------
\* RGWSquared: a user joins, leaves, or gets other rights on a bucket.
UpstreamChanges(u) ==
    /\ changes > 0 /\ changes' = changes - 1
    /\ \/ listed' = listed \cup {u} /\ u \notin listed /\ UNCHANGED rights
       \/ /\ u \in listed /\ listed' = listed \ {u}
          /\ rights' = [rights EXCEPT ![u] = NoRights]
       \/ /\ u \in listed /\ UNCHANGED listed
          /\ \E b \in Buckets, R \in SUBSET Right :
               R # rights[u][b] /\ rights' = [rights EXCEPT ![u][b] = R]
    /\ ever' = [ever EXCEPT ![u] = [b \in Buckets |-> @[b] \cup rights'[u][b]]]
    /\ calm' = {}
    /\ UNCHANGED <<tenant, codes, member, grant, login, refresh, upload, faults>>

LoginStep(l) ==
    \/ LoginReads(l) \/ \E b \in Buckets, p \in Right : LoginLooks(l, b, p)
    \/ LoginGrants(l) \/ LoginGrantConflicts(l)
    \/ LoginUpserts(l) \/ LoginClearsCode(l) \/ LoginFails(l)
    \/ LoginReconciles(l) \/ LoginReadsMember(l) \/ LoginFillsCode(l)

RefreshStep(f) ==
    \/ CreateTenant(f) \/ LoadMappings(f)
    \/ BeginRefresh(f) \/ ListBuckets(f) \/ ListUsers(f)
    \/ \E u \in Users : ReadUser(f, u) \/ SkipUser(f, u) \/ DropGrants(f, u)
    \/ UpsertMember(f) \/ RefreshCode(f)
    \/ \E b \in Buckets : GrantBucket(f, b)
    \/ PruneGrants(f) \/ FindStale(f) \/ Deactivate(f) \/ EndRefresh(f)

CsvStep(c) == \/ \E u \in Users : CsvSaves(c, u)
              \/ CsvClears(c)

Next ==
    \/ \E l \in Logins : LoginStep(l) \/ LoginDies(l) \/ \E u \in Users : LoginBegins(l, u)
    \/ \E f \in Refreshers : RefreshStep(f) \/ RefreshDies(f)
    \/ \E c \in Uploaders : CsvReads(c) \/ CsvStep(c) \/ CsvDies(c)
    \/ RestartLoadsMappings
    \/ \E u \in Users : UpstreamChanges(u)

Spec == Init /\ [][Next]_vars

(***************************************************************************)
(* Fairness: calls time out and a worker runs on or is killed, and an      *)
(* operator keeps refreshing the cache.  Nobody needs to log in.           *)
(***************************************************************************)
FairSpec ==
    /\ Spec
    /\ \A l \in Logins : WF_vars(LoginStep(l))
    /\ \A f \in Refreshers : WF_vars(RefreshStep(f))
    /\ \A c \in Uploaders : WF_vars(CsvStep(c))

-----------------------------------------------------------------------------
(* Properties *)

\* No grant is invented: a member's permission on a bucket is one RGWSquared
\* gave this user on this proposal bucket at some time, whatever stale answers
\* a login upgrades from and a refresh writes, and however they mix.
NothingInvented ==
    \A u \in Users, b \in Buckets :
        grant[u][b] # "none" => b \in Automatic /\ grant[u][b] \in ever[u][b]

AutomaticRole(u) == IF \E b \in Automatic : "rw" \in rights[u][b] THEN "rw" ELSE "ro"
RightCode(u) ==
    /\ member[u].role = "ro" => ~member[u].code
    /\ member[u].role = "rw" /\ u \in Affiliated /\ codes => member[u].code

\* The rows of u say what RGWSquared says.
Mirrored(u) ==
    IF u \in listed
    THEN /\ member[u].active
         /\ member[u].role = AutomaticRole(u)
         /\ RightCode(u)
         /\ \A b \in Buckets :
              grant[u][b] = IF b \in Automatic THEN Strongest(rights[u][b]) ELSE "none"
    ELSE ~member[u].active

\* A refresh that nobody interfered with, and no call of which failed, leaves the
\* membership, role, code and permissions of every user RGWSquared lists as
\* RGWSquared has them, and nobody else active, whatever earlier races, failures
\* and crashes left.  Grants of inactive members are not asked about.
CalmRefreshMirrors ==
    [][\A f \in Refreshers :
         EndRefresh(f) /\ f \in calm => \A u \in Users : Mirrored(u)']_vars

\* "Called during login to ensure proposal buckets are visible immediately"
\* (_sync_user_buckets_on_login): an undisturbed login ends with access, a code
\* as the role demands, and at least the permissions RGWSquared has.
CalmLoginShows ==
    [][\A l \in Logins, u \in Users :
         LoginFillsCode(l) /\ login[l].user = u /\ login[l].ok /\ l \in calm =>
         /\ member'[u].active /\ ~member'[u].revoked
         /\ member'[u].role = LoginRole(u)
         /\ RightCode(u)'
         /\ \A b \in Automatic : rights[u][b] # {} =>
              grant'[u][b] \in {"rw", Strongest(rights[u][b])}]_vars

\* Logins count write access to manual buckets, refreshes do not.
RolesAgree(u) == LoginRole(u) = AutomaticRole(u)

\* Whatever races and crashes there were, once RGWSquared stands still the
\* refreshes bring every user of whom login and refresh think the same to
\* RGWSquared's state, and no login, CSV upload or refresh disturbs it again.
SyncConverges ==
    <>[](\A u \in Users : RolesAgree(u) => Mirrored(u))
=============================================================================
