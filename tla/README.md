# Formal models of the S3 bucket manager

The application lets the members of research groups (tenants) create, share and
delete S3 buckets and manage the files in them. A Django REST backend
(`src/backend/storage`) keeps its own tables and changes two outside systems:
RGWSquared, an HTTP service that provisions Ceph buckets, users and bucket
policies per tenant ("structure"), and the S3 endpoint itself. Users come from
Authentik through social-auth, which also tells the backend their groups. A
React front end talks to the REST API.

The difficulty is that no operation is one transaction. A handler reads Django,
makes a series of HTTP calls and writes Django at the end; two gunicorn workers
(`backend/Containerfile:36`, `--workers 2 --timeout 120`), a login and the
admin's cache refresh can run between any two of those steps; any call can time
out after it took effect. The models below keep those steps apart.

## 1. Components

| Component | State it keeps | Operations | Interacts with | What is hard | What makes it correct |
|---|---|---|---|---|---|
| Local bucket lifecycle and sharing (`views/buckets.py`, `views/admin.py` delete, `permissions.py`) | `Bucket`, `BucketPermission`; RGWSquared's buckets, users, policies | create, destroy, admin destroy, share, unshare, leave | RGWSquared (HTTP), refresh (shared tables) | several calls per handler, compensation, two workers, lost replies | storage never untracked; one owner per bucket; nobody sees an orphan; Django and RGWSquared agree when idle; everything can be deleted in the end |
| Cache refresh (`services/sync_service.py`, admin action) | the same tables, memberships, `FileUploadRecord` | list structure users, list buckets, adopt orphans, inventory objects | RGWSquared, S3, handlers | works from a listing that ages while it runs | does not take anything away that is in use |
| Tenant access (`pipeline.py`, `services/access.py`, group mappings in `views/admin.py`, synced memberships in `sync_service.py`) | `GroupTenantMapping`, `TenantMembership`, stored groups | login, create/delete mapping, refresh of synced users | Authentik claims, RGWSquared | logins running against mapping changes; outages | access only by a current group claim, or granted by RGWSquared; withdrawals stay |
| File objects and upload records (`views/buckets.py`, `sync_service.py`) | S3 objects, `FileUploadRecord` | upload, delete, admin delete, inventory | S3, refresh | two stores without a common transaction, bulk updates from old reads | records follow objects and credit only true uploaders |
| User provisioning (`pipeline.py`, `sync_service.py`) | `User`, social associations, Ceph user names, placeholders | first login, later login, refresh's placeholders | Authentik, refresh | search-then-save of unique names | one account per person, nobody in another's; whoever tries gets in |
| Proposal grants and operational unit codes (`pipeline.py`, `sync_service.py`, CSV upload in `views/admin.py`) | `BucketPermission` of proposal buckets, role and `uo_code` of memberships | login, refresh, activation, CSV upload | RGWSquared | three writers with old answers | what RGWSquared says, nothing it never said, and in the end exactly it |
| Naming (`views/buckets.py`, `services/s3_ops.py`) | none | sanitise, build a bucket name, check a file name | - | collisions, boundaries | legal and bounded results |
| API tokens (`tokens.py`, `middleware.py`, `views/auth.py`) | Django session, JWTs | exchange, refresh, select tenant | front end | expiry, lost replies | only for usable accounts and tenants |
| Browser session (`frontend/src/services/api.ts`) | tokens, active tenant, shared by tabs | refresh on 401, retry | API tokens | concurrent 401s, pages that change under calls | sessions last, calls end, no request with another user's tenant |
| RGWSquared client (`services/rgw_squared.py`) | login token | login, calls | RGWSquared | expiry | re-login, no lost errors |
| Tenant activation and settings | tenant row | activate, configure | RGWSquared | order of checks | - |
| Documents, filename rules, deviation reports | single rows | CRUD | - | - | - |
| Encryption, serializers, settings, migrations | none of their own | - | - | - | - |

`PROJECT.json` repeats the list with what is modelled of each, and under
"hazards" names every line where this code can go wrong in a way a test hardly
reaches, with the property that covers it or the reason why none does.

## 2. Modules

| Module | Contents |
|---|---|
| `BucketLifecycle` | the handlers of local buckets, the refresh's bucket loop, RGWSquared, faults |
| `MCBucketLifecycle` | small instances of it for TLC |
| `BucketLifecycleProofs` | its type invariant, ownership and the refresh, proved |
| `BucketStorageProofs` | policies name known users, storage is tracked, sharing ends in agreement, drift stays small, proved |
| `TenantAccess` | logins, group mappings, memberships, the refresh's user loop |
| `AccessGate` | the abstract promise of tenant access: who can admit, everybody else only withdraws |
| `MCTenantAccess` | small instances of `TenantAccess` for TLC |
| `TenantAccessProofs` | its type invariant, and that it implements `AccessGate`, proved |
| `AccessClaimProofs` | access to a managed tenant is backed by a claimed mapping, and what an undisturbed login settles, proved |
| `FileInventory` | uploads, deletions, S3 clients and the inventory of one bucket |
| `MCFileInventory` | a small instance of it |
| `FileInventoryProofs` | its types, attribution, and what an undisturbed inventory leaves, proved |
| `Accounts` | the social-auth pipeline and the refresh's look-up of Ceph users |
| `MCAccounts` | small instances of it |
| `AccountsProofs` | its types, whose account a login enters, and the Ceph user names, proved |
| `ProposalSync` | roles, codes and proposal grants of one synced tenant: logins, activation, refresh, CSV upload |
| `MCProposalSync` | a small instance of it |
| `ProposalSyncProofs` | its types, that no grant is invented, and what undisturbed logins and refreshes leave, proved |
| `Session` | tabs, tokens, interceptors and the active tenant of a browser, and the server's answers |
| `MCSession` | a small instance of it |
| `SessionProofs` | its types, whose tenants requests name, and that sessions last, proved |

The state machines share tables, not steps: each has the part of a handler that
its own tables meet, and stands in for the others by free changes
(`ChangeMembership`, `ChangeLevel`, `UpstreamChanges`, `AccessChanges`). So
`refresh_local_cache` appears four times, with its bucket loop in
`BucketLifecycle`, its user loop in `TenantAccess` (against revocations),
`Accounts` (whose account) and `ProposalSync` (role, code, grants), and its
inventory in `FileInventory`. A login likewise.

### BucketLifecycle

State. `owner`, `name` and `perm` are the `Bucket` and `BucketPermission`
tables of one tenant (source `local`); an `Ids` element is a primary key, and
`name[i] = NoName` says that there is no such row. `member` is the role a user
has in the tenant, "out" for an inactive or revoked membership. `exists`,
`policy` and `rgwUsers` are what RGWSquared has. `req[r]` is the request that
gunicorn worker `r` serves: `pc` is the next step of its handler and the other
fields are the handler's local variables, above all `wanted`, the permission
map read from Django when the request began (`desired_permissions`), and
`grants`, the `rw`/`ro` lists collected from it. `seen[f]` is the part of a
`list_buckets` answer that refresh `f` has not processed.

Actions. One HTTP call, or one stretch of database statements without a call
in between, is one action:

| Code | Actions |
|---|---|
| `BucketViewSet.create` | `BeginCreate`, `ListUsers`, `CreateUser` or `CreateUserRefused`, `CreateBucket` or `CallRefused`, `InsertBucket` or `InsertFails` then `UndoCreate` |
| `destroy`, admin `delete_bucket` | `BeginDestroy`, `DeleteBucket`, `DeleteRow` |
| `shares` (POST), `shares` (DELETE), `leave` | `BeginShare`, `BeginUnshare`, `BeginLeave`; `SkipMember`, `ListUsers`, `CreateUser`... for every entry of the map; `UpdateBucket` or `CallRefused`; `SaveShare`, `DropShare` |
| `refresh_local_cache`, bucket loop | `RefreshList`, then `RefreshAdopt` or `RefreshKnown` for every item |
| time-out, crash | `Abandon` (the call had no effect, or the worker died), `LostReply` (it had its effect, the handler does not learn of it) |
| logins, mapping changes | `ChangeMembership`, any role change of a user in `Volatile` |

Abstractions, all deliberate:

- A database-only stretch is one step, although Django runs in autocommit: the
  races modelled are those across HTTP calls, which last seconds.
- A call whose reply is lost takes effect before the handler sees the time-out.
- The permission map is iterated in any order. A user is represented by their
  `ceph_username`, which is set for everybody who can be in a map.
- A primary key is used again only when no request remembers it (`FreshId`);
  the database never reuses one.
- PROPOSAL buckets do not appear: every handler modelled refuses them but `leave`
  (`buckets.py:967-999`), which has no such check and pushes the map of the bucket's
  local permissions, an empty one as a rule, before it answers 404.
  The role "admin" is never assigned by the code and is left out.
- `ensure_structure_initialized` changes nothing once the tenant is active; its
  failure is one of the faults.
- `Ops` selects the requests clients make in an instance, `CanName` the bare
  names a user's project id can give. They restrict the environment, never a
  handler.

## 3. Runs of BucketLifecycle

Bounds: 1 to 3 users and 1 or 2 bucket names, since the handlers touch one
bucket and treat users of a map independently; 2 workers (the deployment's
number), because a race needs two; one refresh;
enough keys for every live row plus one that a request still remembers;
`FaultBudget` faults (3 in `drift`, where one handler at a time runs and the
question is whether failures pile up).

| Run | Question | Result |
|---|---|---|
| `lifecycle` | every operation of two workers, two users whose display names sanitise alike, a database refusal, the refresh, a changing membership and a fault: types, one owner, orphans invisible, policies name known users, storage tracked, the refresh removes no permission, and a sharing change that had its bucket to itself ends with Django and RGWSquared in agreement | holds |
| `drift` | one worker, three faults: Django and RGWSquared differ about at most one user per bucket | holds |
| `recovery` | liveness: lost replies, crashes and races never leave something that refresh and deletion cannot remove | holds |
| `create_vs_refresh` | the refresh adopts the bucket of a creation in flight; the creation fails on `unique(name, tenant)` and its compensation deletes the bucket under the adopted row (`buckets.py:433`, `sync_service.py:101`) | violated |

Four behaviours were met while modelling and have no run of their own. A member
demoted to read-only keeps write access in every later push, because the role is
asked when a share is made and not again (`buckets.py:207`), against the
maintainer guide's "Write access requires a write-capable tenant membership"
(lines 211-213). After a push whose reply was lost the refresh leaves a manual
bucket's permissions as they are (`sync_service.py:124`), though
`docs/rgwsquared-api.md:380` calls it the repair. Of two
handlers that find a user missing from RGWSquared and both create it, the slower
one is refused and answers 400 (`CreateUserRefused`), although
`docs/rgwsquared-api.md:258` asks to treat the refusal as success, as the login
does; nothing is damaged and a retry succeeds. And a deletion addresses its bucket by name
(`buckets.py:522`), so a deletion that is delayed past another deletion and a
re-creation of the name removes the new bucket and only then the old row.
`InSyncWhenIdle` fails for `Ops = {create, destroy}` with two workers and no
fault. Larger instances of
`lifecycle` (two names, three users, or two faults) do not finish in five
minutes and are not kept.

Fairness (`FairSpec`, run `recovery` only). Weak fairness of a request's
continuation: every RGWSquared call has a timeout between 15 and 120 seconds
(`services/rgw_squared.py`) and gunicorn kills a worker after 120, so a handler
never waits for ever. Weak fairness of the refresh and of beginning a deletion:
the deployment guides make the operator refresh the cache and delete what is
left over (`docs/production-deployment.md`, `docs/storage-cache-and-redeploy.md`).
Nothing is assumed of users; the conclusion is conditional on creations ending.

### TenantAccess

State. `mappings` is the table `GroupTenantMapping`; `member[u][t]` is the
`TenantMembership` row (`role`, `is_active`, and whether `access_revoked_at` is
set); `claims[u]` are the groups stored in `UserSocialAuth.extra_data`;
`upstream[u][t]` is what RGWSquared grants a user of a synced tenant: to write
automatic buckets, to write manual ones only, to read, or no such user.
`login[l]` is the login that worker `l` serves: `todo` are the mappings it has
read and not visited, `matched` its `matched_tenant_ids`. `refresh[f]` holds the
structure users refresh `f` listed, those it has yet to visit, and whether its
bucket listing succeeded.

| Code | Actions |
|---|---|
| `persist_authentik_groups` and the start of `extract_tenant_info` | `LoginBegins`, or `LoginRefused` when no mapping matches |
| one round of its loop over the matched mappings, with the RGWSquared calls in it | `VisitManaged` or `VisitConflicts`; `VisitSynced`, `VisitAbsent` or `VisitFails` |
| `_reconcile_access` | `LoginReconciles` (and inside `LoginRefused`) |
| exception that ends the pipeline, worker killed | `LoginDies` |
| `admin_group_mappings`, `admin_group_mapping_delete` | `CreateMapping`, `DeleteMapping` |
| `refresh_local_cache`, user loop | `RefreshBegins`, `RefreshUser` or `RefreshUserFails` for every listed user, `RefreshEnds` (the stale memberships), `RefreshDies` |
| RGWSquared | `UpstreamChanges` |

The history parts are `calm` of a login (no mapping changed and no other login
of its user ran since it began) and `unsettled` (users whose last login was not
calm, or died). No guard reads them.

Abstractions:

- Accounts, tenants and users exist and are active; the account steps of the
  pipeline are the subject of `Accounts`.
- The three RGWSquared calls of a synced visit (`structureUsers`, `userInfo`,
  and the role read from it) are one reading; the visit writes Django after the
  last. For a managed tenant RGWSquared's answer changes nothing modelled here,
  neither in a login nor in the refresh.
- NFFADI is a synced tenant whose group name is fixed in the code; its name is
  left out.
- A user's account has one subject. A deletion of a mapping asks the groups stored
  for the subject in `external_id`, which `user_details` sets to that of the last
  login. When two people share an account (`Accounts`), those of the other are not
  consulted; `claims` does not distinguish them.
- That a Ceph user name is taken by another account is a nondeterministic
  branch (`VisitConflicts`), since the names are not modelled.
- Reading the mappings is one query; storing the groups just before it is the
  same step.

Runs. Users share nothing but the mappings: every action reads and writes the
rows, claims and logins of one user, except `DeleteMapping` and `RefreshEnds`,
which apply one rule to every user separately. So one user is enough, and two
groups are: one that is mapped and presented and one that is not, or two rivals
of different role. Two tenants make the claimed and the unclaimed one of a login.

| Run | Question | Result |
|---|---|---|
| `logins` | two logins of a user in two workers, mappings of two managed tenants created and deleted, a fault: access and role are backed by a claimed mapping (`AccessNeedsClaim`); an undisturbed login leaves access to exactly what it claims, whatever races and crashes went before (`LoginSettles`) | holds |
| `imports` | a managed and a synced tenant, a login, mapping changes, a refresh and a roster that moves, a fault: types, and the abstract `AccessGate` is implemented | holds |
| `recreated_mapping` | a deletion revokes a membership while a login that had read the mapping is still running; the login clears the revocation, so that re-creating the mapping restores access without a login, which the maintainer guide excludes | violated |

Five behaviours have no run of their own. An RGWSquared outage during a login
revokes the membership of a synced tenant although the login presented its
group (`pipeline.py:546`), where the maintainer guide (lines 113-114) knows a
revocation only from a removed mapping or a missing group. A refresh that finds
a user's writable buckets manual, or whose `bucketList` failed, makes a writer
read-only (`sync_service.py:164`), where `docs/rgwsquared-api.md:220` and the
login derive the role from `RWBuckets` alone. A user whom RGWSquared adds, and who logs in,
after a refresh made its listing is deactivated by the end of that refresh
(`sync_service.py:220`) until the next login or refresh. A member of a synced
tenant imported by the refresh has access before any login of theirs presented
the tenant's group, because the import creates the row with no revocation. A
login that dies between storing the groups and reconciling
leaves the old rows with the new claims until the next login; a mapping
deletion in between judges by the new claims. That is why `AccessNeedsClaim`
speaks of settled users.

No fairness is used in `TenantAccess`: whether a user logs in again, or an administrator runs the
refresh, is their choice, and no eventual property is claimed.

### FileInventory

State. `object[k]` is what S3 stores under a key, `record[k]` the
`FileUploadRecord` of it (who uploaded it and the ETag; Nobody for records of
origin "discovered"). A key is what `_apply_filename_policy` makes of the uploader's unit and
the file name. `level[u]` is what `get_user_permission` answers. `req[r]` is
the upload or deletion worker `r` serves; `scan[f]` an inventory with the
listing and records it read, and `rows`, the records read that still exist.

| Code | Actions |
|---|---|
| `BucketViewSet.upload` | `BeginUpload`, `PutObject`, `SaveRecord` |
| `delete_file`, `admin_delete_file` | `BeginDelete` or `BeginAdminDelete`, `DeleteObject`, `DeleteRecord` |
| `_sync_authorized_bucket_objects`, one bucket | `ListObjects`, `ReadRecords`, `CreateDiscovered` or `CreateConflicts`, `UpdateKnown`, `DeleteStale` |
| failed calls, killed workers | `RequestDies`, `ScanDies` |
| members' own S3 clients, shares and roles | `WriteDirectly`, `ChangeLevel` |

`wrote` and `calm` are history: what was ever uploaded by whom, and whether
anybody else wrote since the inventory listed. A body stands for its ETag.

Run `files` (`FairSpec`): two workers with uploads and deletions, one inventory,
the owner and a sharer, one key, one fault; `Uploads` gives each of the two a
content of their own, so that the record's content tells whose bytes it is about.
The owner also writes with an S3 client. One key is enough because
every step treats keys separately, except that `bulk_create` fails as a whole.
Two uploads overtake each other between object and record, and an upload comes
between the two steps of a deletion.
`AttributionIsTrue`, `CalmScanSettles` and `RecordsConverge` hold. Fairness: a
request or inventory goes on (S3 calls time out, gunicorn kills), and an operator
keeps refreshing; the conclusion of `RecordsConverge` is conditional on users
having stopped writing.

Not claimed: a sharer "can only delete files THEY uploaded"
(`permissions.py`) is decided from the record before the object is removed; an
upload of another user in between, or one through an S3 client that no
inventory has seen, is deleted with it. And a record may be removed although its
object exists, when the upload comes between the listing and the query for
records (`sync_service.py:345`); the next inventory restores the record, without
its uploader.

### Accounts

State. `account[i]` is a row of `User` (user name, `external_id`, local part of
the mail address, `display_username`), `social[s]` the row of `UserSocialAuth` of OIDC subject
`s`, `known` the subjects whose row holds their claims, `ceph[i]` the Ceph user
name of account `i`'s membership, `upstream` the names RGWSquared lists,
`sessions` the accounts some browser has a Django session of. A login
keeps `row`, the account as it loaded it, since `save()` writes every field.
`madeFor` and `guests` are history: for which Ceph user name an account was made,
and who started a login over its session.

| Code | Actions |
|---|---|
| `social_user`, `associate_by_ceph_username` | `LoginBegins`; with `request.user` of a live session, `LoginOverSession` |
| `generate_username_with_fallback`, `create_user` | `PickUsername`, `CreateUser` or `CreateUserConflicts` |
| `create_or_update_user` | `SaveUser` or `SaveUserConflicts`, `PickDisplay`, `SaveDisplay` |
| `associate_user`, `user_details` | `AssociateUser`, `UserDetails` |
| `persist_authentik_groups`, `extract_tenant_info` | `PersistGroups`, `Admit` |
| `_resolve_user_for_identity` and the membership after it | `ListUsers`, `ResolveUser`, `CreatePlaceholder`, `ImportMembership` or `SkipUser` |
| killed workers, unhandled errors | `LoginDies`, `RefreshDies` |

The steps of social_core are external; their behaviour on a conflict is that of
the version the requirements pin. A worker that was killed is not replaced in
the model, so that one crash happens per run.

A login leaves a Django session in the browser, for five minutes (`settings.py:277`)
or, after an administrator's exchange, for 24 hours (`admin.py:152-153`). Whoever logs in over
it, as on a shared computer, enters the pipeline with that account
(`pipeline.py:121-122`) and, without an association of their own, is associated
with it: a secondary association (`pipeline.py:223-225`, `tests.py:385-410`). A
subject that has another account is refused. Guests are therefore part of what
`AccountIsOwn` and `CephNameExplained` say: nobody else is associated with an
account or written to it, and the Ceph user name of a membership is that of
somebody associated with the account, or the account's local name. `user_details`, which
follows, sets `external_id` to the login's subject and saves the whole row.

Runs: two people whose preferred names sanitise to one local name (`ann.b` and
`ann_b`), two login workers (one may be killed). `accounts` has a refresh, three
accounts (two logins and one placeholder: `Members` lets the institution list one of
the two), different mailboxes, and lets both log in over a session (`Visitors`):
`AccountIsOwn`, `CephNameExplained` and `PersistentUsersGetIn` hold.
`first_login` gives both the same mailbox name, no refresh, no session and no crash:
`CollisionsResolved` is violated, since the search for a free display name
(`pipeline.py:264`) and its save (276) are two statements and the loser's login
ends after the account was saved with its subject and before it was associated.
Every later login of that person then fails at the unique subject.

`CephNameExplained` is weaker than the docstring of `TenantMembership`
("ceph_username = preferred_username from Authentik JWT"): the refresh takes a
Ceph name that equals a local user name for that user's
(`sync_service.py:283`), although the local name may come from another person's
preferred name by sanitising. TLC finds that membership within the same
instance. Fairness: a login that began goes on, and a person whose login never
passed the pipeline tries again, without a session (strongly, since workers may be
busy).

Two behaviours were reproduced with TLC and have no run of their own. The comment
at `pipeline.py:223-224`, "A secondary social association must not rewrite the
account's primary OIDC subject", holds of `create_or_update_user` and not of the
pipeline: after a guest's login `user_details` (`settings.py:265`) has written the
guest's subject to the account. And two first logins of one person, with a
refresh in between, can leave the person associated with a placeholder while the
subject is on another account: `create_or_update_user` catches the conflict of
the unique subject when it sets the address (`pipeline.py:251-253`), `user_details`
does not, and every login of that person ends there. `PersistentUsersGetIn`
excludes that state (`SplitUp`) and a killed worker by name; everybody else gets
through.

### ProposalSync

State. `rights[u][b]` is which of ROBuckets and RWBuckets RGWSquared lists `b`
in for `u`; `member[u]` the membership's role, activity, revocation and whether
it carries a unit code; `grant[u][b]` the permission on the cached proposal
bucket. `login[l]` holds the references still to grant, the permission row found
for the one at hand, and the membership object in memory (`held`);
`refresh[f]` the answers it is working from.

| Code | Actions |
|---|---|
| `_sync_rgwsquared_user_access` with `_sync_user_buckets_on_login` | `LoginBegins`, `LoginReads`, `LoginLooks`, `LoginGrants` or `LoginGrantConflicts`, `LoginUpserts`, `LoginClearsCode`, or `LoginFails` |
| `_reconcile_access`, `_sync_uo_codes_for_user` | `LoginReconciles`, `LoginReadsMember`, `LoginFillsCode` |
| `admin_create_tenant`, container start | `CreateTenant`, `LoadMappings`; `RestartLoadsMappings` |
| `refresh_local_cache` | `BeginRefresh`, `ListBuckets`, `ListUsers`; per user `ReadUser` or `SkipUser`, `UpsertMember`, `RefreshCode`, `GrantBucket`, `PruneGrants`; `FindStale`, `DropGrants`, `Deactivate`, `EndRefresh` |
| `admin_sync_upload_csv` | `CsvReads`, `CsvSaves`, `CsvClears`, `CsvDies` |

Run `proposals` (`FairSpec`): one user, two proposal buckets and a manual one, a login, a
refresh and a CSV upload, one change in RGWSquared and one fault. Users share
no row, so one is enough; two proposal buckets let one be granted while another
is revoked. The start rights make the login's and the refresh's views of the
role differ in one case. `NothingInvented`, `CalmRefreshMirrors`,
`CalmLoginShows` and `SyncConverges` hold. Fairness as in `files`; nobody needs
to log in.

`CalmRefreshMirrors` asks of users RGWSquared lists that role, activity, code and
grants are as it says, and of all others that they are inactive.
`SyncConverges` excludes users whose only write access is to manual buckets
(`RolesAgree`): login and refresh disagree about their role for ever. The grants
of an inactive member that a racing login left are never removed; the member
cannot use them, and `Mirrored` does not ask for it.

### Session

State. One browser: `session` is the user of Django's session cookie, `active`
and `pending` are `active_tenant_id` and `pending_tenants` in localStorage,
shared by all tabs; `tokens[t]`, `page[t]` and `choice[t]` belong to a tab.
`leaving[t]` is the document a tab is on its way to.
`call[c]` is a request from its page to its last answer, with the bearer token
and tenant it was stamped with. `access[u]` and `enabled` are the server's.

| Code | Actions |
|---|---|
| `startLogin`, Authentik, `AuthCallback` | `StartLogin`, `Arrives`, `AuthCallback` or `OAuthFails`, `Exchanged` |
| `TenantSelectorPage`, `TenantSelector`, `Navbar`, `Login` | `SelectorOpens`, `TenantsLoaded`, `SelectTenant`, `TenantSelected`, `SwitchTenant`, `Logout`, `Revisit` |
| other requests of pages | `PageCalls` |
| `exchange_token`, `admin_exchange_token`, `select_tenant`, `current_user`, JWT and session authentication | `Serve` |
| response interceptors | `Unauthorized`, `Renewed`, `LoggedOut` (then `Arrives`), `Settles` |
| expiry, administrators | `AccessExpires`, `RefreshExpires`, `SessionExpires`, `AccessChanges` |

TokenRefreshView (external) rotates without blacklisting, as the settings have it, and does not ask
whether the account is active. A document that navigates away
(`window.location`, `api.ts:99`, `173`, `365`, `376`) goes on answering until the next one is there:
`leaving` is where it goes, and `Arrives` ends its scripts and calls. Within the
application react-router changes pages and ends nothing.

Run `session` (`FairSpec`): a tab of the application with two calls in flight
and a tab of the admin panel with one, two users of whom one is staff, two
tenants, and two troubles (expired tokens, lost calls, a disabled account,
changed access; `Volatile` lets one of the users meet the last two). Two calls are
what it takes to meet an expired token twice;
two troubles to disable an account and expire its refresh token, or to expire a
token and lose its renewal. `TenantIsOwn`, `SessionsLast` and `CallsEnd` hold,
`CallsEnd` for every call. Fairness:
a call is answered or fails, and the scripts waiting for it run.

`TenantIsOwn` is about tabs that came to Authentik with no tenant active and where
since then only pages that stay chose one. TLC shows why. In the time between
`startLogin` and the next document, a late answer of `select-tenant` or of the
tenants' list makes its tenant active again after it was cleared (`api.ts:190`),
and the next user of the browser finds it chosen. And a selector page on its way to the
login page, its tokens already cleared, asks for tenants with Django's session,
which another tab's login may have given to somebody else. The server refuses a
tenant that is not the user's, so that both cost a refused request.

Observed, and no property: a renewal in flight at logout stores its access token
afterwards (`api.ts:92`), and the login page then sends the tab back into the
application as the old user, although `logout` "effectively logs out"
(`api.ts:161`). The logout of one tab takes the tenant of all others away
(`api.ts:164`); their next requests are refused.

## 4. Proofs

`BucketLifecycleProofs` and `BucketStorageProofs` prove, for any sets of users,
names, keys, workers, refreshes and any fault budget, from the one assumption
`ConstantsAssumption`:

- `TypeCorrect`: `TypeOK`. It includes `WellFormed`, which fields a request has
  set at each step; without it the fields could not be used as indices.
- `OwnerIsUnique` and `OrphansStayInvisible`: neither is inductive alone. The
  invariant `Ownership` adds `DeadRows` (a key without a row has no owner and no
  permission) and `SharesAimElsewhere` (a share or unshare in flight never
  targets the owner of the row, or aims at a row that is gone). The second is
  what the handlers' early checks buy: the target was compared with the caller,
  and the caller was the owner, many calls before the permission is written.
- `RefreshIsHarmless`: from the same invariant, a row without a local owner has
  no permission to lose.
- `PoliciesNameKnownUsers`: with the strengthening that the grants a request
  has collected so far also name known users. Users are never removed.
- `StorageIsTracked`: with `DestroyKnowsName` (a deletion's key still has the
  deletion's name, or the row is gone) and `DeletedOrRemade` (a deletion that
  has removed its bucket finds it absent, or made again by somebody who tracks
  it).
- `SoloSharesAgree`: `SoloShareAgrees`. The handler reads the map once, resolves
  its entries over many calls, pushes and saves, so agreement at the end needs a
  fact at every step. `Sharing` says that nobody else works on the bucket of a
  request that has it to itself (`Alone`), that the map it holds is the stored
  one with the change (`Reads`), that the lists collected so far are what the map
  and the settled memberships ask for (`Collects`), and that what was pushed is
  in RGWSquared until the database is written (`Pushed`). `BucketKept` is the
  frame: what all others, the refresh included, leave of such a bucket.
- `DriftStaysSmall`: `DriftAtMostOne`, for any users, names, keys and faults, under
  the hypotheses of the run `drift`: one worker (any two requests are the same)
  and settled memberships (`Volatile = {}`). `Drift(n)` says that some one user
  accounts for all that differs about bucket `n`, also while it has no row and a
  refresh may still adopt it; `UniqueRows`, that names are unique. A push
  sends the whole map, so it replaces the earlier drift by the change at hand.

`TenantAccessProofs` and `AccessClaimProofs` prove of
`TenantAccess`, again from `ConstantsAssumption` alone:

- `AccessTypeCorrect`: `TypeOK`, with the two facts the other proofs use: a
  missing membership is neither active nor revoked, and an idle worker holds no
  login. The row operators are typed once (`NewRows`, `RemovalRow`) and the
  updates of the table by shape (`OneRow`, `OneColumn`, `ReconciledRows`).
- `LoginsAloneAdmit`: the refinement of `AccessGate`. A row's `standing` is
  none, good or revoked; `presented[u]` are the tenants that logins of `u` in
  progress have matched or may still match; a tenant is `open` while it has a
  mapping. Every action is mapped to a step of the gate or a stutter: the fall-back
  of a deletion and the refresh's deactivations are stutters, for they leave the
  standing.
- `AccessIsBacked`: `AccessNeedsClaim`. It is not inductive: a login's rows are
  backed by nothing but its own list until it ends, and a deletion skips members
  whose claims lack the group. The invariant `Backing` says of settled users
  that every usable row is backed (`SettledBacked`) and of undisturbed logins
  that they are their user's only one, that what they have yet to visit is
  mapped and claimed, and that what they matched is backed (`CalmLogins`). A
  deletion either leaves another claimed mapping, whose role the fall-back
  takes, or revokes.
- `LoginsSettle`: `LoginSettles`, the converse for the login's own end. On top of
  `Backing`, `ThoroughLogins` says that an undisturbed login leaves nothing out:
  every best claimed mapping is still to be visited or its tenant matched,
  only such are, and a matched managed tenant has an active row in the best
  role. `BestOfTenant` joins the two ways in which the property and the handler
  choose the best mapping.

`FileInventoryProofs`, from `FilesAssumption`: `FileTypeCorrect`, then
`AttributionHolds`, whose invariant says the same of everything that will still
be written to a record: an upload that has stored its object, and an inventory's
snapshot, of which `Discovered` drops the uploader when the ETag changed.
`CalmInventorySettles` follows from what an undisturbed inventory has done at
each of its steps (the records still equal to those it read, then those it
created, then updated).

`AccountsProofs`, from `AccountsAssumption`: `AccountsTypeCorrect`;
`AccountsAreOwn` with the invariant that every login works on an account its
person is entitled to (it was made for that person, or they came over its session), that
every subject in the table, and in the row a login loaded, is of an entitled
person, and that an unclaimed placeholder is named as the person it was made for;
`guests` only grows and `madeFor` never changes once an account exists.
`CephNamesExplained` adds the same for the target of a refresh.

`ProposalSyncProofs`, from `ProposalsAssumption`: `ProposalTypeCorrect`;
`GrantsNotInvented` with the invariant that what logins still have to grant and
what refreshes have read are rights the user has had on automatic buckets
(`ever` only grows). The `found` row of a login matters too: it decides between
insert, upgrade and nothing. `CalmLoginsShow` and `CalmRefreshesMirror` prove the
two action properties about work that nobody interfered with. `CalmWork` says at
every step what is already right: `Shows` for a login (the references no longer
due are covered, what it holds is the row), `Mirrors` for a refresh (the users it
has been through are mirrored, the one at hand as far as it got, those it will
deactivate are all the active unlisted ones). `OthersDisturb` is the frame: a
step of another worker that touches these facts takes this one out of `calm`, so
that no handler's step is paired with another's.

`SessionProofs`, from `SessionAssumption`: `SessionTypeCorrect`, then
`TenantsAreOwn`. Between a login and the next, a tab belongs to one user, whom
no variable names while the answer of the exchange is on its way. So the
invariant `TabInv` says of every tab in `alone` that it is `Blank` (no active tenant
and no call but the exchange, whoever it turns out to admit) or that some user
`u` owns it (`Own(t, u)`): its tokens, the tenants its calls name, what they will
offer while the tab stays, and the browser's active tenant are `u`'s.
Of every tab, `Rests` says what lets it arrive at Authentik `Blank`: on the way, at
Authentik and at the callback it has no refresh token to renew with. `Follows`
says which calls a page may have waiting, and `RefusedRightly` that a renewal
that will be refused does not hold a good refresh token, from which
`SessionsOutlastTokens` follows action by action. A step of a tab leaves
the other tabs' parts alone (`UntouchedKeeps`, `Elsewhere`), except that a tab
choosing takes all others out of `alone`.

The proofs are laid out by action: a frame lemma disposes of every action that
leaves the relevant variables alone, and each remaining action has one step per
conjunct. The strengthened invariants were model-checked before they were
proved.

Only model-checked. Liveness under fairness (`NothingStranded`,
`RecordsConverge`, `PersistentUsersGetIn`, `SyncConverges`, `CallsEnd`) and
everything with ENABLED are out of the prover's reach. Every invariant and every
action property of a passing run is proved; the three runs that expect a
violation show that their property is false.

## 5. Not modelled

- Naming (`views/buckets.py`, `services/s3_ops.py`): pure functions on
  characters, which the models reduce to what collides. What unit tests check is
  all there is to check.
- The RGWSquared client's own login: one token per client object, renewed when
  refused; a failed renewal is a failed call, which every model has.
- The composition of `TenantAccess` and `BucketLifecycle`: a revocation leaves
  the member's grants in RGWSquared until the next push (`pipeline.py:442`).
  The application asks the membership first, but a member's own S3 client does
  not: RGWSquared gives users S3 credentials (`docs/rgwsquared-api.md:182`), and
  they reach what it still grants.
- Tenant settings, documents, filename rules and deviation reports are forms
  over single rows or reports without state; encryption, serializers, settings
  and migrations are library calls, generated code or configuration.
- In `Session`: the `next` parameter that tells an admin login from another,
  throttling, and what pages show.
