------------------------ MODULE BucketLifecycleProofs ------------------------
(***************************************************************************)
(* Theorems about BucketLifecycle, for every set of users, names, workers  *)
(* and refreshes and every number of faults.                               *)
(***************************************************************************)
EXTENDS BucketLifecycle, TLAPS

(***************************************************************************)
(* The request records: what Start, End, Goto and Resolved do to req.      *)
(***************************************************************************)

GoodRequest(q) == q \in Request /\ WellFormed(q)
GoodRequests == req \in [Reqs -> Request] /\ \A r \in Reqs : WellFormed(req[r])

\* The idle request is well-formed, and ending a request leaves it idle.
LEMMA IdleType == GoodRequest(Idle)
BY ConstantsAssumption
   DEF GoodRequest, WellFormed, Idle, Request, NoPerms, Level, Grant, Op, SharingOp

LEMMA EndType == ASSUME TypeOK, NEW r \in Reqs, End(r) PROVE GoodRequests'
BY IdleType DEF TypeOK, End, GoodRequest, GoodRequests

\* Replacing one request by a well-formed one.
LEMMA ReplaceType ==
    ASSUME TypeOK, NEW r \in Reqs, NEW q, GoodRequest(q),
           req' = [req EXCEPT ![r] = q]
    PROVE  GoodRequests'
BY DEF TypeOK, GoodRequest, GoodRequests

\* Moving a request to its next step; only a create compensates.
LEMMA GotoType ==
    ASSUME TypeOK, NEW r \in Reqs, NEW pc \in {"ensure", "rgw", "db", "undo"},
           Busy(r), pc = "undo" => req[r].op = "create", Goto(r, pc)
    PROVE  GoodRequests'
<1>1. req[r] \in Request /\ WellFormed(req[r])
  BY DEF TypeOK
<1>2. GoodRequest([req[r] EXCEPT !.pc = pc])
  BY <1>1 DEF Request, WellFormed, GoodRequest, Busy
<1>3. req' = [req EXCEPT ![r] = [req[r] EXCEPT !.pc = pc]]
  BY DEF Goto
<1>4. QED
  BY <1>2, <1>3, ReplaceType

\* Starting a well-formed request.
LEMMA StartType ==
    ASSUME TypeOK, NEW r \in Reqs, NEW q, GoodRequest(q), Start(r, q)
    PROVE  GoodRequests'
<1>1. ASSUME NEW x, GoodRequest(x), NEW b \in BOOLEAN
      PROVE  GoodRequest([x EXCEPT !.solo = b])
  BY <1>1 DEF Request, WellFormed, GoodRequest
<1>2. ASSUME NEW s \in Reqs
      PROVE  /\ GoodRequest([q EXCEPT !.solo = \A t \in Reqs : ~SharesBucket(t, q.name)])
             /\ GoodRequest([req[s] EXCEPT !.solo = @ /\ ~SharesBucket(s, q.name)])
  <2>1. GoodRequest(req[s]) /\ req[s].solo \in BOOLEAN
    BY DEF TypeOK, Request, GoodRequest
  <2>2. (req[s].solo /\ ~SharesBucket(s, q.name)) \in BOOLEAN
    OBVIOUS
  <2>3. (\A t \in Reqs : ~SharesBucket(t, q.name)) \in BOOLEAN
    OBVIOUS
  <2>4. QED
    BY <1>1, <2>1, <2>2, <2>3
<1>3. QED
  BY <1>2 DEF Start, GoodRequest, GoodRequests

\* Resolving one user of the permission map.
LEMMA ResolvedType ==
    ASSUME NEW q, GoodRequest(q), q.pc # "idle", q.pc # "undo", NEW u \in Users,
           NEW g \in Grant
    PROVE  GoodRequest(Resolved(q, u, g))
BY DEF Resolved, Request, WellFormed, GoodRequest

LEMMA GrantType == ASSUME NEW l \in Level PROVE GrantFor(l) \in Grant
BY DEF GrantFor, Level, Grant

-----------------------------------------------------------------------------
(***************************************************************************)
(* Type correctness                                                        *)
(***************************************************************************)

(***************************************************************************)
(* What the guards of a handler establish when it starts: the row it works *)
(* on is there under the name it read, a sharing request aims at somebody  *)
(* else than the owner it was checked against, and the map it will push is *)
(* the stored one with its change.                                         *)
(***************************************************************************)
NewTask(q) ==
    /\ q.op \in Op /\ q.pc \in {"ensure", "rgw"}
    /\ q.grants = NoPerms
    /\ q.op \in SharingOp \cup {"destroy"} => Live(q.id) /\ q.name = name[q.id]
    /\ q.op \in {"share", "unshare"} =>
         \E u \in Users : perm[q.id][u] = "owner" /\ q.target # u
    /\ q.op = "leave" => owner[q.id] # q.target
    /\ q.op = "share" => q.level \in {"ro", "rw"}
    /\ q.op = "create" => /\ ~RowNamed(q.name)
                          /\ q.wanted = [NoPerms EXCEPT ![q.target] = "owner"]
    /\ q.op \in SharingOp => /\ q.target \in Users
                             /\ q.wanted = [perm[q.id] EXCEPT ![q.target] = q.level]
    /\ q.op \in {"unshare", "leave"} => q.level = "none"
    /\ q.op # "destroy" => q.todo = Entries(q.wanted)
    /\ q.pc = "rgw" => q.todo = {}

\* Every handler starts with a well-formed request for a new task.
LEMMA BeginTask ==
    ASSUME TypeOK, NEW r \in Reqs, RequestBegins(r)
    PROVE  /\ \E q : GoodRequest(q) /\ NewTask(q) /\ Start(r, q)
           /\ UNCHANGED <<django, member, rgw, seen, faults>>
<1> USE ConstantsAssumption
<1>1. ASSUME NEW u \in Users, NEW n \in Names, BeginCreate(r, u, n)
      PROVE  \E q : GoodRequest(q) /\ NewTask(q) /\ Start(r, q)
  <2> DEFINE q == [Idle EXCEPT !.pc = "ensure", !.op = "create", !.name = n,
                               !.target = u, !.wanted[u] = "owner", !.todo = {u}]
  <2>1. GoodRequest(q)
    BY IdleType DEF GoodRequest, WellFormed, Request, Op, SharingOp, Level
  <2>2. /\ q.op = "create" /\ q.pc = "ensure" /\ q.name = n /\ q.target = u
        /\ q.todo = {u} /\ q.grants = NoPerms /\ q.wanted = [NoPerms EXCEPT ![u] = "owner"]
    BY DEF Idle
  <2>3. Entries(q.wanted) = {u}
    BY <2>2 DEF Entries, NoPerms
  <2>4. NewTask(q)
    BY <1>1, <2>2, <2>3 DEF NewTask, BeginCreate, Op, SharingOp
  <2>5. QED
    BY <1>1, <2>1, <2>4 DEF BeginCreate
<1>2. ASSUME NEW i \in Ids, BeginDestroy(r, i)
      PROVE  \E q : GoodRequest(q) /\ NewTask(q) /\ Start(r, q)
  <2> DEFINE q == [Idle EXCEPT !.pc = "rgw", !.op = "destroy", !.id = i,
                               !.name = name[i]]
  <2>1. name[i] \in Names /\ Live(i)
    BY <1>2 DEF BeginDestroy, Live, TypeOK
  <2>2. GoodRequest(q)
    BY IdleType, <2>1 DEF GoodRequest, WellFormed, Request, Op, SharingOp
  <2>3. NewTask(q)
    BY IdleType, <2>1 DEF NewTask, Idle, Op, SharingOp
  <2>4. QED
    BY <1>2, <2>2, <2>3 DEF BeginDestroy
<1>3. ASSUME NEW i \in Ids, NEW op \in SharingOp, NEW t \in Users, Live(i),
             NEW level \in {"none", "ro", "rw"}, NEW wanted \in [Users -> Level],
             op \in {"share", "unshare"} =>
               \E u \in Users : perm[i][u] = "owner" /\ t # u,
             op = "leave" => owner[i] # t,
             op = "share" => level # "none",
             op \in {"unshare", "leave"} => level = "none", wanted = [perm[i] EXCEPT ![t] = level],
             BeginSharing(r, i, op, t, level, wanted)
      PROVE  \E q : GoodRequest(q) /\ NewTask(q) /\ Start(r, q)
  <2> DEFINE q == [Idle EXCEPT
                     !.pc = IF Entries(wanted) = {} THEN "rgw" ELSE "ensure",
                     !.op = op, !.id = i, !.name = name[i], !.target = t,
                     !.level = level, !.wanted = wanted, !.todo = Entries(wanted)]
  <2>1. Entries(wanted) \in SUBSET Users
    BY DEF Entries
  <2>2. name[i] \in Names /\ op \in Op /\ level \in Level
    BY <1>3 DEF TypeOK, Live, SharingOp, Op, Level
  <2>3. GoodRequest(q)
    BY IdleType, <2>1, <2>2 DEF GoodRequest, WellFormed, Request
  <2>4. NewTask(q)
    <3>1. /\ q.op = op /\ q.id = i /\ q.name = name[i] /\ q.target = t /\ q.level = level
          /\ q.wanted = wanted /\ q.todo = Entries(wanted) /\ q.grants = NoPerms
          /\ q.pc = IF Entries(wanted) = {} THEN "rgw" ELSE "ensure"
      BY DEF Idle
    <3> HIDE DEF q
    <3>2. op \notin {"create", "destroy"}
      BY DEF SharingOp
    <3> QED
      BY <1>3, <2>2, <3>1, <3>2 DEF NewTask
  <2>5. QED
    BY <1>3, <2>3, <2>4 DEF BeginSharing
<1>4. ASSUME NEW i \in Ids, NEW t \in Users, NEW level \in {"ro", "rw"}
      PROVE  /\ MapWith(i, t, level) \in [Users -> Level]
             /\ MapWith(i, t, level) = [perm[i] EXCEPT ![t] = level]
             /\ MapWithout(i, t) \in [Users -> Level]
             /\ MapWithout(i, t) = [perm[i] EXCEPT ![t] = "none"]
  BY <1>4 DEF MapWith, MapWithout, TypeOK, Level
<1>5. ASSUME NEW u \in Users, NEW i \in Ids, UserPermission(u, i) = "owner"
      PROVE  perm[i][u] = "owner"
  BY <1>5 DEF UserPermission
<1>6. ASSUME NEW u \in Users, NEW i \in Ids, NEW t \in Users,
             NEW level \in {"ro", "rw"}, BeginShare(r, u, i, t, level)
      PROVE  \E q : GoodRequest(q) /\ NewTask(q) /\ Start(r, q)
  <2>1. /\ Live(i) /\ perm[i][u] = "owner" /\ t # u
        /\ BeginSharing(r, i, "share", t, level, MapWith(i, t, level))
    BY <1>5, <1>6 DEF BeginShare, Sharee
  <2>2. "share" \in SharingOp /\ level # "none" /\ level \in {"none", "ro", "rw"}
    BY DEF SharingOp
  <2>3. QED
    BY <1>3, <1>4, <2>1, <2>2
<1>7. ASSUME NEW u \in Users, NEW i \in Ids, NEW t \in Users, BeginUnshare(r, u, i, t)
      PROVE  \E q : GoodRequest(q) /\ NewTask(q) /\ Start(r, q)
  <2>1. /\ Live(i) /\ perm[i][u] = "owner" /\ t # u
        /\ BeginSharing(r, i, "unshare", t, "none", MapWithout(i, t))
    BY <1>5, <1>7 DEF BeginUnshare, Sharee
  <2>2. QED
    BY <1>3, <1>4, <2>1 DEF SharingOp
<1>8. ASSUME NEW u \in Users, NEW i \in Ids, BeginLeave(r, u, i)
      PROVE  \E q : GoodRequest(q) /\ NewTask(q) /\ Start(r, q)
  <2>1. Live(i) /\ owner[i] # u /\ BeginSharing(r, i, "leave", u, "none", MapWithout(i, u))
    BY <1>8 DEF BeginLeave
  <2>2. QED
    BY <1>3, <1>4, <2>1 DEF SharingOp
<1>9. UNCHANGED <<django, member, rgw, seen, faults>>
  BY DEF RequestBegins, BeginCreate, BeginDestroy, BeginShare, BeginUnshare,
         BeginLeave, BeginSharing
<1>10. QED
  BY <1>1, <1>2, <1>6, <1>7, <1>8, <1>9 DEF RequestBegins

\* A handler starts with a well-formed request.
LEMMA BeginType ==
    ASSUME TypeOK, NEW r \in Reqs, RequestBegins(r)
    PROVE  TypeOK'
<1>1. PICK q : GoodRequest(q) /\ Start(r, q)
  BY BeginTask
<1>2. GoodRequests'
  BY <1>1, StartType
<1>3. QED
  BY <1>2, BeginTask DEF TypeOK, GoodRequests, django, rgw

\* The policy RGWSquared keeps stays well-typed.
LEMMA StoreType ==
    ASSUME TypeOK, NEW n \in Names, NEW g \in [Users -> Grant],
           StoreBucket(n, g) \/ RemoveBucket(n)
    PROVE  /\ exists' \subseteq Names
           /\ policy' \in [Names -> [Users -> Grant]]
           /\ rgwUsers' \subseteq Users
BY DEF TypeOK, StoreBucket, RemoveBucket, NoPerms, Grant

\* A handler continues with a well-formed request and leaves well-typed tables.
LEMMA ContinueType ==
    ASSUME TypeOK, NEW r \in Reqs, RequestContinues(r)
    PROVE  TypeOK'
<1> USE ConstantsAssumption
<1>a. GoodRequest(req[r]) /\ req[r].grants \in [Users -> Grant]
      /\ req[r].wanted \in [Users -> Level] /\ req[r].todo \subseteq Users
  BY DEF TypeOK, GoodRequest, Request
<1>b. ASSUME Busy(r) PROVE req[r].name \in Names
  BY <1>a, <1>b DEF GoodRequest, WellFormed, Busy
<1>c. "none" \in Grant /\ "none" \in Level
  BY DEF Grant, Level
<1>1. ASSUME NEW u \in Users, SkipMember(r, u)
      PROVE  TypeOK'
  <2>1. GoodRequest(Resolved(req[r], u, "none"))
    BY <1>1, <1>a, <1>c, ResolvedType DEF SkipMember
  <2>2. QED
    BY <1>1, <2>1, ReplaceType DEF SkipMember, TypeOK, GoodRequests, django, rgw
<1>2. ASSUME NEW u \in Users, ListUsers(r, u)
      PROVE  TypeOK'
  <2>1. GoodRequest(Resolved(req[r], u, GrantFor(req[r].wanted[u])))
    BY <1>2, <1>a, GrantType, ResolvedType DEF ListUsers
  <2>2. GoodRequest([req[r] EXCEPT !.pc = "create_user", !.cur = u])
    BY <1>2, <1>a DEF ListUsers, GoodRequest, WellFormed, Request
  <2>3. QED
    BY <1>2, <2>1, <2>2, ReplaceType DEF ListUsers, TypeOK, GoodRequests, django, rgw
<1>3. ASSUME CreateUser(r)
      PROVE  TypeOK'
  <2>1. req[r].cur \in Users
    BY <1>3, <1>a DEF CreateUser, GoodRequest, WellFormed
  <2>2. GoodRequest(Resolved(req[r], req[r].cur, GrantFor(req[r].wanted[req[r].cur])))
    BY <1>3, <1>a, <2>1, GrantType, ResolvedType DEF CreateUser
  <2>3. QED
    BY <1>3, <2>1, <2>2, ReplaceType DEF CreateUser, TypeOK, GoodRequests, django
<1>4. CASE CreateUserRefused(r) \/ CallRefused(r)
  BY <1>4, EndType DEF CreateUserRefused, CallRefused, TypeOK, GoodRequests, django, rgw
<1>5. CASE CreateBucket(r) \/ UpdateBucket(r)
  <2>1. Busy(r) /\ Goto(r, "db") /\ StoreBucket(req[r].name, req[r].grants)
    BY <1>5 DEF CreateBucket, UpdateBucket, AtCall, Busy
  <2>2. GoodRequests'
    BY <2>1, GotoType
  <2>3. QED
    BY <1>5, <1>a, <1>b, <2>1, <2>2, StoreType
    DEF CreateBucket, UpdateBucket, TypeOK, GoodRequests, django
<1>6. CASE DeleteBucket(r)
  <2>1. Busy(r) /\ Goto(r, "db") /\ RemoveBucket(req[r].name)
    BY <1>6 DEF DeleteBucket, AtCall, Busy
  <2>2. GoodRequests'
    BY <2>1, GotoType
  <2>3. QED
    BY <1>6, <1>a, <1>b, <2>1, <2>2, StoreType
    DEF DeleteBucket, TypeOK, GoodRequests, django
<1>7. ASSUME NEW i \in Ids, InsertBucket(r, i)
      PROVE  TypeOK'
  <2>1. req[r].name \in Names /\ req[r].target \in Users
    BY <1>7, <1>a DEF InsertBucket, GoodRequest, WellFormed
  <2>2. [NoPerms EXCEPT ![req[r].target] = "owner"] \in [Users -> Level]
    BY DEF NoPerms, Level
  <2>3. QED
    BY <1>7, <2>1, <2>2, EndType DEF InsertBucket, TypeOK, GoodRequests, rgw
<1>8. CASE InsertFails(r)
  BY <1>8, GotoType DEF InsertFails, Busy, TypeOK, GoodRequests, django, rgw
<1>9. CASE UndoCreate(r)
  BY <1>9, <1>a, <1>b, EndType, StoreType
  DEF UndoCreate, Compensate, Busy, TypeOK, GoodRequests, django
<1>10. CASE DeleteRow(r)
  <2>1. req[r].id \in Ids /\ NoPerms \in [Users -> Level]
    BY <1>10, <1>a DEF DeleteRow, GoodRequest, WellFormed, NoPerms, Level
  <2>2. QED
    BY <1>10, <2>1, EndType DEF DeleteRow, TypeOK, GoodRequests, rgw
<1>11. CASE SaveShare(r)
  <2>1. req[r].id \in Ids /\ req[r].target \in Users /\ req[r].level \in Level
    BY <1>11, <1>a DEF SaveShare, GoodRequest, WellFormed, SharingOp, Request
  <2>2. perm' \in [Ids -> [Users -> Level]]
    BY <1>11, <2>1 DEF SaveShare, TypeOK
  <2>3. QED
    BY <1>11, <2>2, EndType DEF SaveShare, TypeOK, GoodRequests, rgw
<1>12. CASE DropShare(r)
  <2>1. req[r].id \in Ids /\ req[r].target \in Users \cup {Nobody}
    BY <1>12, <1>a DEF DropShare, GoodRequest, WellFormed, SharingOp, Request
  <2>2. perm' \in [Ids -> [Users -> Level]]
    <3>1. CASE req[r].target = Nobody
      BY <1>12, <3>1 DEF DropShare, TypeOK
    <3>2. CASE req[r].target # Nobody
      <4>1. perm' = [perm EXCEPT ![req[r].id] = [@ EXCEPT ![req[r].target] = "none"]]
        BY <1>12, <3>2 DEF DropShare
      <4>2. QED
        BY <1>c, <2>1, <3>2, <4>1 DEF TypeOK
    <3>3. QED
      BY <3>1, <3>2
  <2>3. ASSUME NEW i \in Ids, NEW t \in Users, NEW s \in Reqs
        PROVE  GoodRequest(ForgetShare(i, t)[s])
    <3>1. GoodRequest(req[s])
      BY DEF TypeOK, GoodRequest
    <3>2. ASSUME req[s].op = "unshare"
          PROVE  GoodRequest([req[s] EXCEPT !.target = Nobody])
      BY <3>1, <3>2 DEF GoodRequest, WellFormed, Request
    <3>3. QED
      BY <3>1, <3>2 DEF ForgetShare
  <2>4. GoodRequests'
    <3>1. CASE req[r].target = Nobody
      BY <1>12, <3>1, EndType DEF DropShare
    <3>2. CASE req[r].target # Nobody
      <4>1. req' = [ForgetShare(req[r].id, req[r].target) EXCEPT ![r] = Idle]
        BY <1>12, <3>2 DEF DropShare
      <4>2. DOMAIN ForgetShare(req[r].id, req[r].target) = Reqs
        BY DEF ForgetShare
      <4>3. QED
        BY <2>1, <2>3, <3>2, <4>1, <4>2, IdleType DEF GoodRequest, GoodRequests, ForgetShare
    <3>3. QED
      BY <3>1, <3>2
  <2>5. QED
    BY <1>12, <2>2, <2>4 DEF DropShare, TypeOK, GoodRequests, rgw
<1>13. QED
  BY <1>1, <1>2, <1>3, <1>4, <1>5, <1>6, <1>7, <1>8, <1>9, <1>10, <1>11, <1>12
  DEF RequestContinues

\* Faults only end requests and let a call take effect.
LEMMA FaultType ==
    ASSUME TypeOK, NEW r \in Reqs, Abandon(r) \/ LostReply(r)
    PROVE  TypeOK'
<1>1. GoodRequests' /\ faults' \in Nat
  BY EndType DEF Abandon, LostReply, Fault, TypeOK
<1>2. CASE Abandon(r)
  BY <1>1, <1>2 DEF Abandon, TypeOK, GoodRequests, django, rgw
<1>3. CASE LostReply(r)
  <2>1. Busy(r)
    BY <1>3 DEF LostReply, AtCall, Busy
  <2>2. req[r].name \in Names /\ req[r].grants \in [Users -> Grant]
    BY <2>1 DEF Busy, TypeOK, WellFormed, Request
  <2>3. req[r].pc = "create_user" => req[r].cur \in Users
    BY DEF TypeOK, WellFormed
  <2>4. /\ exists' \subseteq Names
        /\ policy' \in [Names -> [Users -> Grant]]
        /\ rgwUsers' \subseteq Users
    BY <1>3, <2>2, <2>3, StoreType DEF LostReply, TypeOK
  <2>5. QED
    BY <1>1, <1>3, <2>4 DEF LostReply, TypeOK, GoodRequests, django
<1>4. QED
  BY <1>2, <1>3

\* The refresh writes names of listed buckets and clears permissions.
LEMMA RefreshType ==
    ASSUME TypeOK, NEW f \in Refreshers, RefreshStep(f)
    PROVE  TypeOK'
<1>1. CASE RefreshList(f)
  BY <1>1 DEF RefreshList, TypeOK, django, rgw
<1>2. ASSUME NEW n \in Names, NEW i \in Ids, RefreshAdopt(f, n, i)
      PROVE  TypeOK'
  BY <1>2 DEF RefreshAdopt, TypeOK, rgw
<1>3. ASSUME NEW n \in Names, NEW i \in Ids, RefreshKnown(f, n, i)
      PROVE  TypeOK'
  <2>1. NoPerms \in [Users -> Level]
    BY DEF NoPerms, Level
  <2>2. QED
    BY <1>3, <2>1 DEF RefreshKnown, TypeOK, rgw
<1>4. QED
  BY <1>1, <1>2, <1>3 DEF RefreshStep

\* The type invariant is inductive.
LEMMA TypeStep == TypeOK /\ [Next]_vars => TypeOK'
<1> SUFFICES ASSUME TypeOK, [Next]_vars PROVE TypeOK'
  OBVIOUS
<1>1. ASSUME NEW u \in Users, ChangeMembership(u)
      PROVE  TypeOK'
  BY <1>1 DEF ChangeMembership, TypeOK, django, rgw
<1>2. CASE UNCHANGED vars
  BY <1>2 DEF vars, TypeOK
<1>3. QED
  BY <1>1, <1>2, BeginType, ContinueType, FaultType, RefreshType DEF Next

LEMMA TypeInit == Init => TypeOK
BY ConstantsAssumption, IdleType DEF Init, TypeOK, NoPerms, Level, Grant, GoodRequest

\* Every reachable state is well-typed: the tables, the policy and every
\* request in flight hold what the code can put there.
THEOREM TypeCorrect == Spec => []TypeOK
BY TypeInit, TypeStep, PTL DEF Spec

-----------------------------------------------------------------------------
(***************************************************************************)
(* Ownership.  OneOwner and OrphansInvisible are not inductive: a share    *)
(* that is saved late could give its target, or a row without an owner,    *)
(* a permission.  They become so with two more facts: a primary key whose  *)
(* row is gone has no owner, and a sharing request whose row is still      *)
(* there aims at somebody else than that row's owner.                      *)
(***************************************************************************)

DeadRows == \A i \in Ids : ~Live(i) => owner[i] = Nobody

\* What the guards of the sharing handlers checked is still true of a live row.
AimsElsewhere(q) ==
    (q.op \in SharingOp /\ Live(q.id)) =>
        /\ owner[q.id] # q.target
        /\ q.op \in {"share", "unshare"} => owner[q.id] \in Users
        /\ q.op = "share" => q.level \in {"ro", "rw"}

SharesAimElsewhere == \A r \in Reqs : AimsElsewhere(req[r])

Ownership == OneOwner /\ OrphansInvisible /\ DeadRows /\ SharesAimElsewhere

\* A request has ended, or goes on with the same task.
GoesOn(q, p) ==
    p.op = "none" \/ (/\ p.op = q.op /\ p.id = q.id
                      /\ p.target = q.target /\ p.level = q.level)

LEMMA EndGoesOn ==
    ASSUME TypeOK, NEW r \in Reqs, End(r), NEW s \in Reqs
    PROVE  GoesOn(req[s], req'[s]) /\ (s # r => req'[s] = req[s]) /\ req'[r] = Idle
BY DEF TypeOK, End, GoesOn, Idle

LEMMA GotoGoesOn ==
    ASSUME TypeOK, NEW r \in Reqs, NEW pc, Goto(r, pc), NEW s \in Reqs
    PROVE  GoesOn(req[s], req'[s])
BY DEF TypeOK, Goto, GoesOn, Request

\* Steps that write no Django table and start no request keep Ownership.
LEMMA OwnershipFrame ==
    ASSUME TypeOK, Ownership, UNCHANGED django,
           \A s \in Reqs : GoesOn(req[s], req'[s])
    PROVE  Ownership'
<1>1. (OneOwner /\ OrphansInvisible /\ DeadRows)'
  BY DEF Ownership, OneOwner, OrphansInvisible, DeadRows, Live, django
<1>2. SharesAimElsewhere'
  <2> SUFFICES ASSUME NEW s \in Reqs PROVE AimsElsewhere(req[s])'
    BY DEF SharesAimElsewhere
  <2>1. GoesOn(req[s], req'[s]) /\ AimsElsewhere(req[s])
    BY DEF Ownership, SharesAimElsewhere
  <2>2. QED
    BY <2>1 DEF GoesOn, AimsElsewhere, Live, SharingOp, django
<1>3. QED
  BY <1>1, <1>2 DEF Ownership

\* A new task satisfies AimsElsewhere, since OneOwner identifies the owner.
LEMMA OwnershipBegin ==
    ASSUME TypeOK, Ownership, NEW r \in Reqs, RequestBegins(r)
    PROVE  Ownership'
<1>1. PICK q : GoodRequest(q) /\ NewTask(q) /\ Start(r, q)
  BY BeginTask
<1>2. UNCHANGED django
  BY BeginTask
<1>3. AimsElsewhere(q)
  <2>1. ASSUME NEW u \in Users, perm[q.id][u] = "owner", q.id \in Ids
        PROVE  owner[q.id] = u
    BY <2>1 DEF Ownership, OneOwner, TypeOK
  <2>2. q.op \in SharingOp => q.id \in Ids
    BY <1>1 DEF GoodRequest, WellFormed
  <2>3. QED
    BY <1>1, <2>1, <2>2 DEF AimsElsewhere, NewTask, SharingOp
<1>4. ASSUME NEW s \in Reqs PROVE AimsElsewhere(req'[s])
  <2>1. CASE s = r
    <3>1. req'[r] = [q EXCEPT !.solo = \A t \in Reqs : ~SharesBucket(t, q.name)]
      BY <1>1 DEF Start
    <3>2. QED
      BY <1>1, <1>3, <2>1, <3>1 DEF AimsElsewhere, GoodRequest, Request
  <2>2. CASE s # r
    <3>1. AimsElsewhere(req[s]) /\ req[s] \in Request
      BY DEF Ownership, SharesAimElsewhere, TypeOK
    <3>2. req'[s] = [req[s] EXCEPT !.solo = @ /\ ~SharesBucket(s, q.name)]
      BY <1>1, <2>2 DEF Start
    <3>3. QED
      BY <3>1, <3>2 DEF AimsElsewhere, Request
  <2>3. QED
    BY <2>1, <2>2
<1>5. (OneOwner /\ OrphansInvisible /\ DeadRows)'
  BY <1>2 DEF Ownership, OneOwner, OrphansInvisible, DeadRows, Live, django
<1>6. SharesAimElsewhere'
  BY <1>2, <1>4 DEF SharesAimElsewhere, AimsElsewhere, Live, django
<1>7. QED
  BY <1>5, <1>6 DEF Ownership

\* Requests never refer to a row that is inserted, whoever inserts it.
LEMMA OwnershipInsert ==
    ASSUME TypeOK, Ownership, NEW i \in Ids, FreshId(i), NEW u \in Users \cup {Nobody},
           owner' = [owner EXCEPT ![i] = u],
           \A j \in Ids \ {i} : name'[j] = name[j],
           name'[i] # NoName,
           perm' = IF u = Nobody THEN perm
                   ELSE [perm EXCEPT ![i] = [NoPerms EXCEPT ![u] = "owner"]],
           \A s \in Reqs : req'[s] = req[s] \/ req'[s] = Idle
    PROVE  Ownership'
<1> USE ConstantsAssumption
<1>1. OneOwner' /\ OrphansInvisible'
  <2>1. owner[i] = Nobody /\ perm[i] = NoPerms
    BY DEF FreshId, Ownership, DeadRows, OrphansInvisible
  <2>2. ASSUME NEW j \in Ids \ {i} PROVE owner'[j] = owner[j] /\ perm'[j] = perm[j]
    BY DEF TypeOK
  <2>3. CASE u = Nobody
    <3>1. owner'[i] = Nobody /\ perm'[i] = NoPerms
      BY <2>1, <2>3 DEF TypeOK
    <3>2. QED
      BY <2>2, <3>1 DEF Ownership, OneOwner, OrphansInvisible, NoPerms
  <2>4. CASE u # Nobody
    <3>1. owner'[i] = u /\ perm'[i] = [NoPerms EXCEPT ![u] = "owner"]
      BY <2>4 DEF TypeOK
    <3>2. {v \in Users : perm'[i][v] = "owner"} = {u}
      BY <2>4, <3>1 DEF NoPerms
    <3>3. QED
      BY <2>2, <2>4, <3>1, <3>2 DEF Ownership, OneOwner, OrphansInvisible
  <2>5. QED
    BY <2>3, <2>4
<1>2. DeadRows'
  BY DEF Ownership, DeadRows, Live, TypeOK
<1>3. ASSUME NEW s \in Reqs PROVE AimsElsewhere(req[s])'
  <2>1. CASE req'[s] = Idle
    BY <2>1 DEF AimsElsewhere, Idle, SharingOp
  <2>2. CASE req'[s] = req[s]
    <3>1. AimsElsewhere(req[s]) /\ req[s].id # i
      BY DEF Ownership, SharesAimElsewhere, FreshId
    <3>2. req[s].op \in SharingOp => req[s].id \in Ids
      BY DEF TypeOK, WellFormed
    <3>3. QED
      BY <2>2, <3>1, <3>2 DEF AimsElsewhere, Live, TypeOK, SharingOp
  <2>3. QED
    BY <2>1, <2>2
<1>4. QED
  BY <1>1, <1>2, <1>3 DEF Ownership, SharesAimElsewhere

\* Nothing a handler does takes a bucket from its owner.
LEMMA OwnershipContinue ==
    ASSUME TypeOK, Ownership, NEW r \in Reqs, RequestContinues(r)
    PROVE  Ownership'
<1> USE ConstantsAssumption
<1>a. GoodRequest(req[r]) /\ AimsElsewhere(req[r])
  BY DEF TypeOK, GoodRequest, Ownership, SharesAimElsewhere
<1>1. ASSUME NEW u \in Users, NEW grant, req' = [req EXCEPT ![r] = Resolved(@, u, grant)],
             UNCHANGED django
      PROVE  Ownership'
  <2>1. ASSUME NEW s \in Reqs PROVE GoesOn(req[s], req'[s])
    BY <1>1, <1>a DEF TypeOK, GoesOn, Resolved, Request, GoodRequest
  <2>2. QED
    BY <1>1, <2>1, OwnershipFrame
<1>2. ASSUME NEW u \in Users, SkipMember(r, u)
      PROVE  Ownership'
  BY <1>1, <1>2 DEF SkipMember
<1>3. ASSUME NEW u \in Users, ListUsers(r, u)
      PROVE  Ownership'
  <2>1. CASE UserListed(u)
    BY <1>1, <1>3, <2>1 DEF ListUsers
  <2>2. CASE ~UserListed(u)
    <3>1. req' = [req EXCEPT ![r] = [req[r] EXCEPT !.pc = "create_user", !.cur = u]]
      BY <1>3, <2>2 DEF ListUsers
    <3>2. ASSUME NEW s \in Reqs PROVE GoesOn(req[s], req'[s])
      BY <3>1, <1>a DEF TypeOK, GoesOn, Request, GoodRequest
    <3>3. QED
      BY <1>3, <3>2, OwnershipFrame DEF ListUsers
  <2>3. QED
    BY <2>1, <2>2
<1>4. CASE CreateUser(r)
  BY <1>1, <1>4, <1>a DEF CreateUser, GoodRequest, WellFormed
<1>5. CASE CreateUserRefused(r) \/ CallRefused(r) \/ UndoCreate(r)
  BY <1>5, EndGoesOn, OwnershipFrame DEF CreateUserRefused, CallRefused, UndoCreate
<1>6. CASE CreateBucket(r) \/ UpdateBucket(r) \/ DeleteBucket(r) \/ InsertFails(r)
  BY <1>6, GotoGoesOn, OwnershipFrame
  DEF CreateBucket, UpdateBucket, DeleteBucket, InsertFails
<1>7. ASSUME NEW i \in Ids, InsertBucket(r, i)
      PROVE  Ownership'
  <2>1. req[r].name \in Names /\ req[r].target \in Users
    BY <1>7, <1>a DEF InsertBucket, GoodRequest, WellFormed
  <2>2. \A s \in Reqs : req'[s] = req[s] \/ req'[s] = Idle
    BY <1>7 DEF InsertBucket, End, TypeOK
  <2>3. name'[i] # NoName /\ \A j \in Ids \ {i} : name'[j] = name[j]
    BY <1>7, <2>1 DEF InsertBucket, TypeOK
  <2>4. QED
    BY <1>7, <2>1, <2>2, <2>3, OwnershipInsert DEF InsertBucket
<1>8. CASE DeleteRow(r)
  <2>1. req[r].id \in Ids
    BY <1>8, <1>a DEF DeleteRow, GoodRequest, WellFormed
  <2>2. (OneOwner /\ OrphansInvisible /\ DeadRows)'
    BY <1>8, <2>1
    DEF DeleteRow, Ownership, OneOwner, OrphansInvisible, DeadRows, Live, TypeOK, NoPerms
  <2>3. ASSUME NEW s \in Reqs PROVE AimsElsewhere(req[s])'
    <3>1. CASE s = r
      BY <1>8, <3>1, EndGoesOn DEF DeleteRow, AimsElsewhere, Idle, SharingOp
    <3>2. CASE s # r
      <4>1. req'[s] = req[s] /\ AimsElsewhere(req[s])
        BY <1>8, <3>2, EndGoesOn DEF DeleteRow, Ownership, SharesAimElsewhere
      <4>2. req[s].op \in SharingOp => req[s].id \in Ids
        BY DEF TypeOK, WellFormed
      <4>3. QED
        BY <1>8, <2>1, <4>1, <4>2 DEF DeleteRow, AimsElsewhere, Live, TypeOK, SharingOp
    <3>3. QED
      BY <3>1, <3>2
  <2>4. QED
    BY <2>2, <2>3 DEF Ownership, SharesAimElsewhere
<1>9. CASE SaveShare(r)
  <2>1. req[r].id \in Ids /\ req[r].target \in Users
    BY <1>9, <1>a DEF SaveShare, GoodRequest, WellFormed, SharingOp
  <2>2. Live(req[r].id) =>
          /\ owner[req[r].id] # req[r].target /\ owner[req[r].id] \in Users
          /\ req[r].level \in {"ro", "rw"}
    BY <1>9, <1>a DEF SaveShare, AimsElsewhere, SharingOp
  <2>3. OneOwner' /\ OrphansInvisible'
    BY <1>9, <2>1, <2>2
    DEF SaveShare, ForeignKeyHolds, Ownership, OneOwner, OrphansInvisible, TypeOK
  <2>4. DeadRows'
    BY <1>9 DEF SaveShare, Ownership, DeadRows, Live
  <2>5. ASSUME NEW s \in Reqs PROVE AimsElsewhere(req[s])'
    <3>1. req'[s] = Idle \/ req'[s] = req[s]
      BY <1>9, EndGoesOn DEF SaveShare
    <3>2. AimsElsewhere(req[s]) /\ owner' = owner /\ name' = name
      BY <1>9 DEF SaveShare, Ownership, SharesAimElsewhere
    <3>3. QED
      BY <3>1, <3>2 DEF AimsElsewhere, Live, Idle, SharingOp
  <2>6. QED
    BY <2>3, <2>4, <2>5 DEF Ownership, SharesAimElsewhere
<1>10. CASE DropShare(r)
  <2>1. CASE req[r].target = Nobody
    BY <1>10, <2>1, EndGoesOn, OwnershipFrame DEF DropShare, django
  <2>2. CASE req[r].target # Nobody
    <3>1. /\ perm' = [perm EXCEPT ![req[r].id] = [@ EXCEPT ![req[r].target] = "none"]]
          /\ req' = [ForgetShare(req[r].id, req[r].target) EXCEPT ![r] = Idle]
          /\ owner' = owner /\ name' = name
      BY <1>10, <2>2 DEF DropShare
    <3>2. req[r].id \in Ids /\ req[r].target \in Users
      BY <1>10, <1>a, <2>2 DEF DropShare, GoodRequest, WellFormed, SharingOp, Request
    <3>3. owner[req[r].id] # req[r].target
      BY <1>10, <1>a, <2>2, <3>2
      DEF DropShare, AimsElsewhere, SharingOp, Ownership, DeadRows
    <3>4. OneOwner' /\ OrphansInvisible'
      BY <3>1, <3>2, <3>3 DEF Ownership, OneOwner, OrphansInvisible, TypeOK, NoPerms
    <3>5. ASSUME NEW s \in Reqs PROVE AimsElsewhere(req[s])'
      <4>1. CASE s = r
        BY <3>1, <4>1 DEF ForgetShare, AimsElsewhere, Idle, SharingOp
      <4>2. CASE s # r
        <5>1. AimsElsewhere(req[s]) /\ req[s] \in Request
          BY DEF Ownership, SharesAimElsewhere, TypeOK
        <5>2. \/ req'[s] = req[s]
              \/ req[s].op = "unshare" /\ req'[s] = [req[s] EXCEPT !.target = Nobody]
          BY <3>1, <4>2 DEF ForgetShare
        <5>3. QED
          BY <3>1, <5>1, <5>2 DEF AimsElsewhere, Live, Request, SharingOp
      <4>3. QED
        BY <4>1, <4>2
    <3>6. QED
      BY <3>1, <3>4, <3>5 DEF Ownership, SharesAimElsewhere, DeadRows, Live
  <2>3. QED
    BY <2>1, <2>2
<1>11. QED
  BY <1>2, <1>3, <1>4, <1>5, <1>6, <1>7, <1>8, <1>9, <1>10 DEF RequestContinues

\* The refresh inserts rows nobody owns and clears only rows nobody owns.
LEMMA OwnershipRefresh ==
    ASSUME TypeOK, Ownership, NEW f \in Refreshers, RefreshStep(f)
    PROVE  Ownership' /\ perm' = perm
<1> USE ConstantsAssumption
<1>1. CASE RefreshList(f)
  BY <1>1, OwnershipFrame DEF RefreshList, GoesOn, django
<1>2. ASSUME NEW n \in Names, NEW i \in Ids, RefreshAdopt(f, n, i)
      PROVE  Ownership' /\ perm' = perm
  <2>1. owner' = [owner EXCEPT ![i] = Nobody]
    BY <1>2 DEF RefreshAdopt, FreshId, Ownership, DeadRows, TypeOK
  <2>2. name'[i] # NoName /\ \A j \in Ids \ {i} : name'[j] = name[j]
    BY <1>2 DEF RefreshAdopt, TypeOK
  <2>3. QED
    BY <1>2, <2>1, <2>2, OwnershipInsert DEF RefreshAdopt
<1>3. ASSUME NEW n \in Names, NEW i \in Ids, RefreshKnown(f, n, i)
      PROVE  Ownership' /\ perm' = perm
  <2>1. ASSUME ~HasLocalOwner(i) PROVE perm[i] = NoPerms
    BY <2>1 DEF HasLocalOwner, Ownership, OneOwner, OrphansInvisible, TypeOK
  <2>2. perm' = perm
    BY <1>3, <2>1 DEF RefreshKnown, TypeOK
  <2>3. QED
    BY <1>3, <2>2, OwnershipFrame DEF RefreshKnown, GoesOn, django
<1>4. QED
  BY <1>1, <1>2, <1>3 DEF RefreshStep

LEMMA OwnershipInit == Init => Ownership
BY ConstantsAssumption
DEF Init, Ownership, OneOwner, OrphansInvisible, DeadRows, SharesAimElsewhere,
    AimsElsewhere, Idle, NoPerms, SharingOp

LEMMA OwnershipStep == TypeOK /\ Ownership /\ [Next]_vars => Ownership'
<1> SUFFICES ASSUME TypeOK, Ownership, [Next]_vars PROVE Ownership'
  OBVIOUS
<1>1. ASSUME NEW r \in Reqs, Abandon(r) \/ LostReply(r)
      PROVE  Ownership'
  BY <1>1, EndGoesOn, OwnershipFrame DEF Abandon, LostReply
<1>2. ASSUME NEW u \in Users, ChangeMembership(u)
      PROVE  Ownership'
  BY <1>2, OwnershipFrame DEF ChangeMembership, GoesOn
<1>3. CASE UNCHANGED vars
  BY <1>3, OwnershipFrame DEF vars, GoesOn, django
<1>4. QED
  BY <1>1, <1>2, <1>3, OwnershipBegin, OwnershipContinue, OwnershipRefresh DEF Next

LEMMA OwnershipHolds == Spec => [](TypeOK /\ Ownership)
BY TypeInit, TypeStep, OwnershipInit, OwnershipStep, PTL DEF Spec

\* However handlers, refreshes, faults and membership changes interleave, a
\* row with an owner has exactly one owner permission, and it is the owner's.
THEOREM OwnerIsUnique == Spec => []OneOwner
BY OwnershipHolds, PTL DEF Ownership

\* No orphan row is ever visible to anybody, however late a share is saved.
THEOREM OrphansStayInvisible == Spec => []OrphansInvisible
BY OwnershipHolds, PTL DEF Ownership

\* No step of a refresh changes a permission of a local bucket.
THEOREM RefreshIsHarmless == Spec => RefreshKeepsGrants
<1>1. TypeOK /\ Ownership /\ [Next]_vars
      => [(\E f \in Refreshers : seen'[f] # seen[f]) => perm' = perm]_vars
  <2> SUFFICES ASSUME TypeOK, Ownership, Next, NEW f \in Refreshers, seen'[f] # seen[f]
               PROVE  perm' = perm
    OBVIOUS
  <2>1. ASSUME NEW r \in Reqs,
               RequestBegins(r) \/ RequestContinues(r) \/ Abandon(r) \/ LostReply(r)
        PROVE  seen' = seen
    <3>1. CASE RequestBegins(r)
      BY <3>1, BeginTask
    <3>2. CASE Abandon(r) \/ LostReply(r)
      BY <3>2 DEF Abandon, LostReply
    <3>3. CASE RequestContinues(r)
      BY <3>3 DEF RequestContinues, SkipMember, ListUsers, CreateUser,
         CreateUserRefused, CreateBucket, UpdateBucket, DeleteBucket, CallRefused,
         InsertBucket, InsertFails, UndoCreate, DeleteRow, SaveShare, DropShare
    <3>4. QED
      BY <2>1, <3>1, <3>2, <3>3
  <2>2. ASSUME NEW u \in Users, ChangeMembership(u) PROVE perm' = perm
    BY <2>2 DEF ChangeMembership, django
  <2>3. QED
    BY <2>1, <2>2, OwnershipRefresh DEF Next
<1>2. QED
  BY <1>1, OwnershipHolds, PTL DEF Spec, RefreshKeepsGrants
=============================================================================
