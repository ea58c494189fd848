------------------------- MODULE BucketStorageProofs -------------------------
(***************************************************************************)
(* Theorems about what BucketLifecycle leaves in RGWSquared: policies name *)
(* known users, no bucket is lost track of while no call is lost, a share  *)
(* that has its bucket to itself leaves agreement, and with one worker     *)
(* failures do not add up.                                                 *)
(***************************************************************************)
EXTENDS BucketLifecycleProofs, FiniteSetTheorems

(***************************************************************************)
(* Policies.  PolicyUsersExist needs to know that the lists a request is   *)
(* still collecting name users that RGWSquared already has.                *)
(***************************************************************************)

Collected(q) == \A u \in Users : q.grants[u] # "none" => u \in rgwUsers

Policies == PolicyUsersExist /\ \A r \in Reqs : Collected(req[r])

\* Where the requests of the next state come from, and what rgw does.
LEMMA PoliciesFrame ==
    ASSUME TypeOK, Policies, rgwUsers \subseteq rgwUsers',
           \A n \in Names : \/ policy'[n] = policy[n]
                            \/ policy'[n] = NoPerms
                            \/ \E r \in Reqs : policy'[n] = req[r].grants,
           \A s \in Reqs : \/ req'[s].grants = req[s].grants
                           \/ req'[s].grants = NoPerms
                           \/ Collected(req[s])'
    PROVE  Policies'
<1>1. PolicyUsersExist'
  BY DEF Policies, PolicyUsersExist, Collected, NoPerms
<1>2. \A s \in Reqs : Collected(req[s])'
  BY DEF Policies, Collected, NoPerms
<1>3. QED
  BY <1>1, <1>2 DEF Policies

LEMMA StorePolicy ==
    ASSUME TypeOK, NEW r \in Reqs, NEW n \in Names,
           StoreBucket(n, req[r].grants) \/ RemoveBucket(n)
    PROVE  /\ rgwUsers' = rgwUsers
           /\ \A m \in Names : \/ policy'[m] = policy[m] \/ policy'[m] = NoPerms
                               \/ \E s \in Reqs : policy'[m] = req[s].grants
BY DEF StoreBucket, RemoveBucket, TypeOK

\* Ending or advancing a request collects nothing.
LEMMA EndCollects ==
    ASSUME TypeOK, NEW r \in Reqs, End(r) \/ \E pc : Goto(r, pc), NEW s \in Reqs
    PROVE  req'[s].grants = req[s].grants \/ req'[s].grants = NoPerms
<1>1. CASE End(r)
  BY <1>1 DEF TypeOK, End, Idle
<1>2. ASSUME NEW pc, Goto(r, pc)
      PROVE  req'[s].grants = req[s].grants
  BY <1>2 DEF TypeOK, Goto, Request
<1>3. QED
  BY <1>1, <1>2

LEMMA PoliciesContinue ==
    ASSUME TypeOK, Policies, NEW r \in Reqs, RequestContinues(r)
    PROVE  Policies'
<1>a. GoodRequest(req[r]) /\ Collected(req[r])
  BY DEF TypeOK, GoodRequest, Policies
<1>b. ASSUME Busy(r) PROVE req[r].name \in Names
  BY <1>a, <1>b DEF GoodRequest, WellFormed, Busy
<1>1. ASSUME NEW u \in Users, NEW grant, grant = "none" \/ u \in rgwUsers',
             req' = [req EXCEPT ![r] = Resolved(@, u, grant)],
             rgwUsers \subseteq rgwUsers', UNCHANGED policy
      PROVE  Policies'
  <2>1. req'[r].grants = [req[r].grants EXCEPT ![u] = grant]
        /\ \A s \in Reqs \ {r} : req'[s] = req[s]
    BY <1>1, <1>a DEF TypeOK, Resolved, GoodRequest, Request
  <2>2. req[r].grants \in [Users -> Grant]
    BY <1>a DEF GoodRequest, Request
  <2>3. Collected(req[r])'
    BY <1>1, <1>a, <2>1, <2>2 DEF Collected
  <2>4. QED
    BY <1>1, <2>1, <2>3, PoliciesFrame
<1>2. ASSUME NEW u \in Users, SkipMember(r, u)
      PROVE  Policies'
  BY <1>1, <1>2 DEF SkipMember, rgw
<1>3. ASSUME NEW u \in Users, ListUsers(r, u)
      PROVE  Policies'
  <2>1. CASE UserListed(u)
    BY <1>1, <1>3, <2>1 DEF ListUsers, UserListed, rgw
  <2>2. CASE ~UserListed(u)
    <3>1. \A s \in Reqs : req'[s].grants = req[s].grants
      BY <1>3, <1>a, <2>2 DEF ListUsers, TypeOK, GoodRequest, Request
    <3>2. QED
      BY <1>3, <3>1, PoliciesFrame DEF ListUsers, rgw
  <2>3. QED
    BY <2>1, <2>2
<1>4. CASE CreateUser(r)
  <2>1. req[r].cur \in Users
    BY <1>4, <1>a DEF CreateUser, GoodRequest, WellFormed
  <2>2. QED
    BY <1>1, <1>4, <2>1 DEF CreateUser
<1>5. CASE CreateBucket(r) \/ UpdateBucket(r) \/ DeleteBucket(r) \/ UndoCreate(r)
  <2>1. Busy(r) /\ (StoreBucket(req[r].name, req[r].grants) \/ RemoveBucket(req[r].name))
    BY <1>5 DEF CreateBucket, UpdateBucket, DeleteBucket, UndoCreate, Compensate,
                AtCall, Busy
  <2>2. End(r) \/ \E pc : Goto(r, pc)
    BY <1>5 DEF CreateBucket, UpdateBucket, DeleteBucket, UndoCreate
  <2>3. QED
    BY <1>b, <2>1, <2>2, StorePolicy, EndCollects, PoliciesFrame
<1>6. CASE CreateUserRefused(r) \/ CallRefused(r) \/ InsertFails(r) \/ DeleteRow(r)
           \/ SaveShare(r) \/ (\E i \in Ids : InsertBucket(r, i))
  <2>1. UNCHANGED rgw /\ (End(r) \/ \E pc : Goto(r, pc))
    BY <1>6 DEF CreateUserRefused, CallRefused, InsertFails, DeleteRow, SaveShare,
                InsertBucket
  <2>2. QED
    BY <2>1, EndCollects, PoliciesFrame DEF rgw
<1>7. CASE DropShare(r)
  <2>1. ASSUME NEW s \in Reqs
        PROVE  req'[s].grants = req[s].grants \/ req'[s].grants = NoPerms
    <3>1. CASE req[r].target = Nobody
      BY <1>7, <3>1, EndCollects DEF DropShare
    <3>2. CASE req[r].target # Nobody
      <4>1. req' = [ForgetShare(req[r].id, req[r].target) EXCEPT ![r] = Idle]
        BY <1>7, <3>2 DEF DropShare
      <4>2. req[s] \in Request
        BY DEF TypeOK
      <4>3. QED
        BY <4>1, <4>2 DEF ForgetShare, Idle, Request
    <3>3. QED
      BY <3>1, <3>2
  <2>2. QED
    BY <1>7, <2>1, PoliciesFrame DEF DropShare, rgw
<1>8. QED
  BY <1>2, <1>3, <1>4, <1>5, <1>6, <1>7 DEF RequestContinues

LEMMA PoliciesStep == TypeOK /\ Policies /\ [Next]_vars => Policies'
<1> SUFFICES ASSUME TypeOK, Policies, [Next]_vars PROVE Policies'
  OBVIOUS
<1>1. ASSUME NEW r \in Reqs, RequestBegins(r)
      PROVE  Policies'
  <2>1. PICK q : GoodRequest(q) /\ NewTask(q) /\ Start(r, q)
    BY <1>1, BeginTask
  <2>2. \A s \in Reqs : req'[s].grants = req[s].grants \/ req'[s].grants = NoPerms
    BY <2>1 DEF Start, NewTask, GoodRequest, TypeOK, Request
  <2>3. QED
    BY <1>1, <2>2, BeginTask, PoliciesFrame DEF rgw
<1>2. ASSUME NEW r \in Reqs, Abandon(r) \/ LostReply(r)
      PROVE  Policies'
  <2>1. End(r)
    BY <1>2 DEF Abandon, LostReply
  <2>2. Busy(r) => req[r].name \in Names
    BY DEF TypeOK, WellFormed, Busy
  <2>3. \/ rgwUsers \subseteq rgwUsers' /\ UNCHANGED policy
        \/ /\ Busy(r)
           /\ StoreBucket(req[r].name, req[r].grants) \/ RemoveBucket(req[r].name)
    BY <1>2 DEF Abandon, LostReply, AtCall, Busy, rgw
  <2>4. QED
    BY <2>1, <2>2, <2>3, EndCollects, StorePolicy, PoliciesFrame
<1>3. ASSUME NEW f \in Refreshers, RefreshStep(f)
      PROVE  Policies'
  BY <1>3, PoliciesFrame DEF RefreshStep, RefreshList, RefreshAdopt, RefreshKnown, rgw
<1>4. ASSUME NEW u \in Users, ChangeMembership(u)
      PROVE  Policies'
  BY <1>4, PoliciesFrame DEF ChangeMembership, rgw
<1>5. CASE UNCHANGED vars
  BY <1>5, PoliciesFrame DEF vars
<1>6. QED
  BY <1>1, <1>2, <1>3, <1>4, <1>5, PoliciesContinue DEF Next

\* Every user that a bucket's policy names exists in the RGWSquared structure.
THEOREM PoliciesNameKnownUsers == Spec => []PolicyUsersExist
<1>1. Init => Policies
  BY DEF Init, Policies, PolicyUsersExist, Collected, Idle, NoPerms
<1>2. QED
  BY <1>1, PoliciesStep, TypeInit, TypeStep, PTL DEF Spec, Policies

-----------------------------------------------------------------------------
(***************************************************************************)
(* Storage.  A deletion removes the RGWSquared bucket and later the row.   *)
(* NothingUntracked survives the second step because in between nobody but *)
(* a creator can have provisioned the bucket again, and that creator is    *)
(* still at work: the row it wants to insert is still taken.               *)
(***************************************************************************)

HasCreator(n) == \E s \in Reqs : Creator(s, n)

\* The row a deletion works on keeps the name the deletion has read.
DestroyKnowsName ==
    \A r \in Reqs : (req[r].op = "destroy" /\ Live(req[r].id))
                    => name[req[r].id] = req[r].name

DeletedOrRemade ==
    \A r \in Reqs :
      (req[r].op = "destroy" /\ req[r].pc = "db" /\ Live(req[r].id)
                             /\ req[r].name \in exists) => HasCreator(req[r].name)

Storage ==
    /\ DestroyKnowsName
    /\ faults <= FaultBudget
    /\ NothingUntracked
    /\ faults = FaultBudget => DeletedOrRemade

\* A deletion goes on with its task, or has just started, or has just made
\* sure that the bucket is gone.
DestroyGoesOn(q, p) ==
    p.op = "destroy" =>
        \/ q.op = "destroy" /\ p.id = q.id /\ p.name = q.name
                            /\ (p.pc = "db" => q.pc = "db")
        \/ /\ Live(p.id) => name[p.id] = p.name
           /\ p.pc = "db" => p.name \notin exists'

\* Steps that leave the rows alone keep Storage if every bucket that is there
\* afterwards was there before or has its creator, and no creator of a bucket
\* that is there gives up.
LEMMA StorageFrame ==
    ASSUME TypeOK, Storage, UNCHANGED <<name, faults>>,
           \A s \in Reqs : DestroyGoesOn(req[s], req'[s]),
           \A n \in exists' : n \in exists \/ HasCreator(n)',
           \A n \in exists', s \in Reqs : Creator(s, n) => Creator(s, n)'
    PROVE  Storage'
<1>1. DestroyKnowsName'
  BY DEF Storage, DestroyKnowsName, DestroyGoesOn, Live
<1>2. faults' <= FaultBudget
  BY DEF Storage
<1>3. ASSUME NEW n \in exists', HasCreator(n) PROVE HasCreator(n)'
  BY <1>3 DEF HasCreator
<1>4. NothingUntracked'
  BY <1>3 DEF Storage, NothingUntracked, RowNamed, HasCreator
<1>5. ASSUME faults = FaultBudget PROVE DeletedOrRemade'
  <2> SUFFICES ASSUME NEW s \in Reqs, req'[s].op = "destroy", req'[s].pc = "db",
                      Live(req[s].id)', req'[s].name \in exists'
               PROVE  HasCreator(req[s].name)'
    BY DEF DeletedOrRemade
  <2>1. /\ req[s].op = "destroy" /\ req[s].pc = "db"
        /\ req'[s].id = req[s].id /\ req'[s].name = req[s].name
    BY DEF DestroyGoesOn
  <2>2. req[s].name \in exists => HasCreator(req[s].name)
    BY <1>5, <2>1 DEF Storage, DeletedOrRemade, Live
  <2>3. QED
    BY <1>3, <2>1, <2>2
<1>6. QED
  BY <1>1, <1>2, <1>4, <1>5 DEF Storage

\* A deletion starts by reading the name of its row.
LEMMA StorageBegin ==
    ASSUME TypeOK, Storage, NEW r \in Reqs, RequestBegins(r)
    PROVE  Storage'
<1>1. PICK q : GoodRequest(q) /\ NewTask(q) /\ Start(r, q)
  BY BeginTask
<1>2. UNCHANGED <<name, exists, faults>>
  BY BeginTask DEF django, rgw
<1>3. ASSUME NEW s \in Reqs, s # r
      PROVE  /\ req'[s].op = req[s].op /\ req'[s].id = req[s].id
             /\ req'[s].name = req[s].name /\ req'[s].pc = req[s].pc
  BY <1>1, <1>3 DEF Start, TypeOK, Request
<1>4. /\ req'[r].op = q.op /\ req'[r].id = q.id
      /\ req'[r].name = q.name /\ req'[r].pc = q.pc
  BY <1>1 DEF Start, GoodRequest, Request
<1>5. ASSUME NEW s \in Reqs PROVE DestroyGoesOn(req[s], req'[s])
  BY <1>1, <1>3, <1>4 DEF DestroyGoesOn, NewTask
<1>6. ASSUME NEW s \in Reqs, NEW n, Creator(s, n) PROVE Creator(s, n)'
  BY <1>1, <1>3, <1>6 DEF Creator, Start, Busy
<1>7. QED
  BY <1>2, <1>5, <1>6, StorageFrame

\* Ending request r, which has no provisioned bucket in its hands.
LEMMA StorageEnd ==
    ASSUME TypeOK, NEW r \in Reqs, End(r), NEW s \in Reqs
    PROVE  /\ DestroyGoesOn(req[s], req'[s])
           /\ \A n : Creator(s, n) => s = r \/ Creator(s, n)'
BY DEF TypeOK, End, Idle, DestroyGoesOn, Creator

LEMMA StorageGoto ==
    ASSUME TypeOK, NEW r \in Reqs, NEW pc, Goto(r, pc)
    PROVE  /\ \A s \in Reqs : /\ req'[s].op = req[s].op /\ req'[s].id = req[s].id
                              /\ req'[s].name = req[s].name
           /\ req'[r].pc = pc
           /\ \A s \in Reqs \ {r} : req'[s] = req[s]
BY DEF TypeOK, Goto, Request

\* The calls to RGWSquared, none of which touches a row.
LEMMA StorageCalls ==
    ASSUME TypeOK, Storage, NEW r \in Reqs,
           \/ CreateUserRefused(r) \/ CallRefused(r) \/ InsertFails(r) \/ UndoCreate(r)
           \/ CreateBucket(r) \/ UpdateBucket(r) \/ DeleteBucket(r)
    PROVE  Storage'
<1>1. CASE CreateUserRefused(r) \/ CallRefused(r)
  <2>1. End(r) /\ req[r].pc \notin {"db", "undo"}
    BY <1>1 DEF CreateUserRefused, CallRefused, AtCall
  <2>2. \A s \in Reqs : \A n : Creator(s, n) => Creator(s, n)'
    BY <2>1, StorageEnd DEF Creator
  <2>3. QED
    BY <1>1, <2>1, <2>2, StorageEnd, StorageFrame
    DEF CreateUserRefused, CallRefused, django, rgw
<1>2. CASE InsertFails(r)
  <2>1. Goto(r, "undo") /\ req[r].op = "create" /\ req[r].pc = "db"
    BY <1>2 DEF InsertFails
  <2>2. \A s \in Reqs : DestroyGoesOn(req[s], req'[s])
    BY <2>1, StorageGoto DEF DestroyGoesOn
  <2>3. \A s \in Reqs : \A n : Creator(s, n) => Creator(s, n)'
    BY <2>1, StorageGoto DEF Creator
  <2>4. QED
    BY <1>2, <2>2, <2>3, StorageFrame DEF InsertFails, django, rgw
<1>3. CASE UndoCreate(r)
  <2>1. End(r) /\ exists' = exists \ {req[r].name} /\ UNCHANGED <<name, faults>>
    BY <1>3 DEF UndoCreate, Compensate, RemoveBucket, django
  <2>2. \A n \in exists', s \in Reqs : Creator(s, n) => Creator(s, n)'
    BY <2>1, StorageEnd DEF Creator
  <2>3. QED
    BY <2>1, <2>2, StorageEnd, StorageFrame
<1>4. CASE CreateBucket(r)
  <2>1. /\ Goto(r, "db") /\ req[r].op = "create" /\ req[r].pc = "rgw"
        /\ exists' = exists \cup {req[r].name} /\ UNCHANGED <<name, faults>>
    BY <1>4 DEF CreateBucket, AtCall, StoreBucket, django
  <2>2. \A s \in Reqs : DestroyGoesOn(req[s], req'[s])
    BY <2>1, StorageGoto DEF DestroyGoesOn
  <2>3. \A s \in Reqs : \A n : Creator(s, n) => Creator(s, n)'
    BY <2>1, StorageGoto DEF Creator
  <2>4. ASSUME NEW n \in exists', n \notin exists PROVE Creator(r, n)'
    BY <2>1, <2>4, StorageGoto DEF Creator
  <2>5. \A n \in exists' : n \in exists \/ HasCreator(n)'
    BY <2>4 DEF HasCreator
  <2>6. QED
    BY <2>1, <2>2, <2>3, <2>5, StorageFrame
<1>5. CASE UpdateBucket(r)
  <2>1. /\ Goto(r, "db") /\ req[r].op \in SharingOp
        /\ exists' = exists /\ UNCHANGED <<name, faults>>
    BY <1>5 DEF UpdateBucket, AtCall, StoreBucket, django
  <2>2. \A s \in Reqs : DestroyGoesOn(req[s], req'[s])
    BY <2>1, StorageGoto DEF DestroyGoesOn, SharingOp
  <2>3. \A s \in Reqs : \A n : Creator(s, n) => Creator(s, n)'
    BY <2>1, StorageGoto DEF Creator
  <2>4. QED
    BY <2>1, <2>2, <2>3, StorageFrame
<1>6. CASE DeleteBucket(r)
  <2>1. /\ Goto(r, "db") /\ req[r].op = "destroy" /\ req[r].pc = "rgw"
        /\ exists' = exists \ {req[r].name} /\ UNCHANGED <<name, faults>>
    BY <1>6 DEF DeleteBucket, AtCall, RemoveBucket, django
  <2>2. Live(req[r].id) => name[req[r].id] = req[r].name
    BY <2>1 DEF Storage, DestroyKnowsName
  <2>3. \A s \in Reqs : DestroyGoesOn(req[s], req'[s])
    BY <2>1, <2>2, StorageGoto DEF DestroyGoesOn
  <2>4. \A s \in Reqs : \A n : Creator(s, n) => Creator(s, n)'
    BY <2>1, StorageGoto DEF Creator
  <2>5. QED
    BY <2>1, <2>3, <2>4, StorageFrame
<1>7. QED
  BY <1>1, <1>2, <1>3, <1>4, <1>5, <1>6

\* A row appears, for a creator or in a refresh: what it names is tracked, no
\* deletion works on it, and no deletion works on another row of that name.
LEMMA StorageInsert ==
    ASSUME TypeOK, Storage, NEW i \in Ids, FreshId(i), NEW n \in Names, ~RowNamed(n),
           name' = [name EXCEPT ![i] = n], UNCHANGED <<exists, faults>>,
           \A s \in Reqs : \/ req'[s] = req[s]
                           \/ req'[s] = Idle /\ (\A m : Creator(s, m) => m = n)
    PROVE  Storage'
<1> USE ConstantsAssumption
<1>1. RowNamed(n)' /\ \A m \in Names : RowNamed(m) => RowNamed(m)'
  BY DEF RowNamed, FreshId, Live, TypeOK
<1>2. ASSUME NEW m \in Names, m # n, HasCreator(m) PROVE HasCreator(m)'
  BY <1>2 DEF HasCreator, Creator
<1>3. exists' \subseteq Names
  BY DEF TypeOK
<1>4. NothingUntracked'
  BY <1>1, <1>2, <1>3 DEF Storage, NothingUntracked, HasCreator
<1>5. ASSUME NEW s \in Reqs, req'[s].op = "destroy"
      PROVE  /\ req'[s] = req[s] /\ req[s].id \in Ids /\ req[s].id # i
             /\ name'[req[s].id] = name[req[s].id]
  BY <1>5 DEF Idle, FreshId, TypeOK, WellFormed
<1>6. DestroyKnowsName'
  BY <1>5 DEF Storage, DestroyKnowsName, Live
<1>7. ASSUME faults = FaultBudget PROVE DeletedOrRemade'
  <2> SUFFICES ASSUME NEW s \in Reqs, req'[s].op = "destroy", req'[s].pc = "db",
                      Live(req[s].id)', req'[s].name \in exists'
               PROVE  HasCreator(req[s].name)'
    BY DEF DeletedOrRemade
  <2>1. Live(req[s].id) /\ req'[s] = req[s] /\ req[s].id \in Ids
    BY <1>5 DEF Live
  <2>2. HasCreator(req[s].name) /\ name[req[s].id] = req[s].name
    BY <1>7, <2>1 DEF Storage, DeletedOrRemade, DestroyKnowsName
  <2>3. req[s].name # n
    BY <2>1, <2>2 DEF RowNamed
  <2>4. req[s].name \in Names
    BY <2>1, <1>3
  <2>5. QED
    BY <1>2, <2>1, <2>2, <2>3, <2>4
<1>8. QED
  BY <1>4, <1>6, <1>7 DEF Storage

\* A deletion removes its row: what the row named is gone or being made anew.
LEMMA StorageDelete ==
    ASSUME TypeOK, Storage, NEW r \in Reqs, DeleteRow(r)
    PROVE  Storage'
<1> USE ConstantsAssumption
<1>1. /\ req[r].pc = "db" /\ req[r].op = "destroy" /\ End(r)
      /\ name' = [name EXCEPT ![req[r].id] = NoName]
      /\ UNCHANGED <<exists, faults>>
  BY DEF DeleteRow, rgw
<1>2. req[r].id \in Ids
  BY <1>1 DEF TypeOK, WellFormed
<1>3. \A s \in Reqs : \A n : Creator(s, n) => Creator(s, n)'
  BY <1>1, StorageEnd DEF Creator
<1>4. ASSUME NEW n, HasCreator(n) PROVE HasCreator(n)'
  BY <1>3, <1>4 DEF HasCreator
<1>5. ASSUME faults = FaultBudget, NEW n \in exists PROVE RowNamed(n)' \/ HasCreator(n)'
  <2>1. CASE Live(req[r].id) /\ n = name[req[r].id]
    BY <1>1, <1>4, <1>5, <2>1 DEF Storage, DestroyKnowsName, DeletedOrRemade
  <2>2. CASE ~(Live(req[r].id) /\ n = name[req[r].id])
    <3>1. RowNamed(n) => RowNamed(n)'
      BY <1>1, <1>2, <1>5, <2>2 DEF RowNamed, Live, TypeOK
    <3>2. RowNamed(n) \/ HasCreator(n)
      BY <1>5 DEF Storage, NothingUntracked, HasCreator
    <3>3. QED
      BY <1>4, <3>1, <3>2
  <2>3. QED
    BY <2>1, <2>2
<1>6. NothingUntracked'
  BY <1>1, <1>5 DEF NothingUntracked, HasCreator
<1>7. ASSUME NEW s \in Reqs, req'[s].op = "destroy", Live(req[s].id)'
      PROVE  /\ req'[s] = req[s] /\ Live(req[s].id)
             /\ name'[req[s].id] = name[req[s].id]
  <2>1. s # r /\ req'[s] = req[s]
    BY <1>1, <1>7, EndGoesOn DEF Idle
  <2>2. req[s].id \in Ids
    BY <1>7, <2>1 DEF TypeOK, WellFormed, SharingOp
  <2>3. QED
    BY <1>1, <1>7, <2>1, <2>2 DEF Live, TypeOK
<1>8. DestroyKnowsName'
  BY <1>7 DEF Storage, DestroyKnowsName
<1>9. faults = FaultBudget => DeletedOrRemade'
  BY <1>1, <1>4, <1>7 DEF Storage, DeletedOrRemade
<1>10. QED
  BY <1>1, <1>6, <1>8, <1>9 DEF Storage

LEMMA StorageContinue ==
    ASSUME TypeOK, Storage, NEW r \in Reqs, RequestContinues(r)
    PROVE  Storage'
<1> USE ConstantsAssumption
<1>1. CASE CreateUser(r) \/ \E u \in Users : SkipMember(r, u) \/ ListUsers(r, u)
  <2>1. req[r].pc \in {"ensure", "create_user"} /\ UNCHANGED <<name, exists, faults>>
    BY <1>1 DEF SkipMember, ListUsers, CreateUser, django, rgw
  <2>2. /\ req'[r].op = req[r].op /\ req'[r].id = req[r].id
        /\ req'[r].name = req[r].name /\ req'[r].pc # "db"
        /\ \A s \in Reqs \ {r} : req'[s] = req[s]
    <3>1. req[r] \in Request
      BY DEF TypeOK
    <3>2. ASSUME NEW v, NEW g, req' = [req EXCEPT ![r] = Resolved(req[r], v, g)]
          PROVE  <2>2
      BY <3>1, <3>2 DEF TypeOK, Resolved, Request
    <3>3. CASE \E v, g : req' = [req EXCEPT ![r] = Resolved(req[r], v, g)]
      BY <3>2, <3>3
    <3>4. CASE \E u : req' = [req EXCEPT ![r] =
                                [req[r] EXCEPT !.pc = "create_user", !.cur = u]]
      BY <3>1, <3>4 DEF TypeOK, Request
    <3>5. QED
      BY <1>1, <3>3, <3>4 DEF SkipMember, ListUsers, CreateUser
  <2>3. \A s \in Reqs : DestroyGoesOn(req[s], req'[s])
    BY <2>2 DEF DestroyGoesOn
  <2>4. \A s \in Reqs : \A n : Creator(s, n) => Creator(s, n)'
    BY <2>1, <2>2 DEF Creator
  <2>5. QED
    BY <2>1, <2>3, <2>4, StorageFrame
<1>2. ASSUME NEW i \in Ids, InsertBucket(r, i)
      PROVE  Storage'
  <2>1. req[r].name \in Names
    BY <1>2 DEF InsertBucket, TypeOK, WellFormed
  <2>2. ASSUME NEW s \in Reqs
        PROVE  \/ req'[s] = req[s]
               \/ req'[s] = Idle /\ (\A m : Creator(s, m) => m = req[r].name)
    <3>1. s # r => req'[s] = req[s]
      BY <1>2, EndGoesOn DEF InsertBucket
    <3>2. s = r => req'[s] = Idle
      BY <1>2, EndGoesOn DEF InsertBucket
    <3>3. s = r => \A m : Creator(s, m) => m = req[r].name
      BY DEF Creator
    <3>4. QED
      BY <3>1, <3>2, <3>3
  <2>3. QED
    BY <1>2, <2>1, <2>2, StorageInsert DEF InsertBucket, rgw
<1>3. CASE SaveShare(r)
  <2>1. \A s \in Reqs : \A n : Creator(s, n) => Creator(s, n)'
    BY <1>3, StorageEnd DEF SaveShare, Creator
  <2>2. QED
    BY <1>3, <2>1, StorageEnd, StorageFrame DEF SaveShare, rgw
<1>4. CASE DropShare(r)
  <2>1. UNCHANGED <<name, exists, faults>> /\ req[r].op \in {"unshare", "leave"}
    BY <1>4 DEF DropShare, rgw
  <2>2. ASSUME NEW s \in Reqs
        PROVE  DestroyGoesOn(req[s], req'[s]) /\ \A n : Creator(s, n) => Creator(s, n)'
    <3>1. CASE req[r].target = Nobody
      BY <1>4, <2>1, <3>1, StorageEnd DEF DropShare, Creator
    <3>2. CASE req[r].target # Nobody
      <4>1. req' = [ForgetShare(req[r].id, req[r].target) EXCEPT ![r] = Idle]
        BY <1>4, <3>2 DEF DropShare
      <4>2. CASE s = r
        BY <2>1, <4>1, <4>2 DEF ForgetShare, DestroyGoesOn, Creator, Idle
      <4>3. CASE s # r
        <5>1. req[s] \in Request
          BY DEF TypeOK
        <5>2. req'[s] = req[s] \/ (req[s].op = "unshare"
                                   /\ req'[s] = [req[s] EXCEPT !.target = Nobody])
          BY <4>1, <4>3 DEF ForgetShare
        <5>3. QED
          BY <5>1, <5>2 DEF DestroyGoesOn, Creator, Request
      <4>4. QED
        BY <4>2, <4>3
    <3>3. QED
      BY <3>1, <3>2
  <2>3. QED
    BY <2>1, <2>2, StorageFrame
<1>5. QED
  BY <1>1, <1>2, <1>3, <1>4, StorageCalls, StorageDelete DEF RequestContinues

\* A fault spends part of the budget: from then on nothing is promised.
LEMMA StorageFault ==
    ASSUME TypeOK, Storage, NEW r \in Reqs, Abandon(r) \/ LostReply(r)
    PROVE  Storage'
<1>1. End(r) /\ UNCHANGED name
  BY DEF Abandon, LostReply, django
<1>2. faults' <= FaultBudget /\ faults' # FaultBudget
  BY ConstantsAssumption DEF Abandon, LostReply, Fault, Storage, TypeOK
<1>3. DestroyKnowsName'
  BY <1>1, EndGoesOn DEF Storage, DestroyKnowsName, Idle, Live
<1>4. QED
  BY <1>2, <1>3 DEF Storage, NothingUntracked

LEMMA StorageRefresh ==
    ASSUME TypeOK, Storage, NEW f \in Refreshers, RefreshStep(f)
    PROVE  Storage'
<1>1. CASE RefreshList(f) \/ \E n \in Names, i \in Ids : RefreshKnown(f, n, i)
  <2>1. UNCHANGED <<name, exists, req, faults>>
    BY <1>1 DEF RefreshList, RefreshKnown, django, rgw
  <2>2. QED
    BY <2>1, StorageFrame DEF DestroyGoesOn, Creator
<1>2. ASSUME NEW n \in Names, NEW i \in Ids, RefreshAdopt(f, n, i)
      PROVE  Storage'
  <2>1. \A s \in Reqs : req'[s] = req[s]
    BY <1>2 DEF RefreshAdopt
  <2>2. FreshId(i) /\ ~RowNamed(n) /\ name' = [name EXCEPT ![i] = n]
        /\ UNCHANGED <<exists, faults>>
    BY <1>2 DEF RefreshAdopt, rgw
  <2>3. QED
    BY <1>2, <2>1, <2>2, StorageInsert
<1>3. QED
  BY <1>1, <1>2 DEF RefreshStep

LEMMA StorageStep == TypeOK /\ Storage /\ [Next]_vars => Storage'
<1> SUFFICES ASSUME TypeOK, Storage, [Next]_vars PROVE Storage'
  OBVIOUS
<1>1. CASE UNCHANGED vars \/ \E u \in Users : ChangeMembership(u)
  <2>1. UNCHANGED <<name, exists, req, faults>>
    BY <1>1 DEF vars, ChangeMembership, django, rgw
  <2>2. QED
    BY <2>1, StorageFrame DEF DestroyGoesOn, Creator
<1>2. QED
  BY <1>1, StorageBegin, StorageContinue, StorageFault, StorageRefresh DEF Next

\* As long as no call is lost or cut short, every bucket in RGWSquared has a
\* Django row or a creator that is still going to insert or remove it.
THEOREM StorageIsTracked == Spec => []NothingUntracked
<1>1. Init => Storage
  BY ConstantsAssumption
  DEF Init, Storage, DestroyKnowsName, NothingUntracked, DeletedOrRemade, Idle
<1>2. QED
  BY <1>1, StorageStep, TypeInit, TypeStep, PTL DEF Spec, Storage

-----------------------------------------------------------------------------
(***************************************************************************)
(* Sharing.  A change that had its bucket to itself leaves both sides      *)
(* agreeing.  The handler computes the whole map and one policy from it    *)
(* over many calls: at each of its steps the invariant relates the map to  *)
(* the rows, the lists collected so far to the map and the memberships,    *)
(* and after the push RGWSquared's policy to the lists.                    *)
(***************************************************************************)

\* A request that works on a row knows it under its name, as long as it is there.
KnowsName(q) ==
    q.op \in SharingOp \cup {"destroy"} /\ Live(q.id) => name[q.id] = q.name

\* Nobody else works on the bucket of a request that has it to itself.
Alone == \A r, s \in Reqs : req[r].solo /\ r # s /\ Busy(r) /\ Busy(s)
                            => req[s].name # req[r].name

\* Every user resolved so far got the list the map asks for, or none; a sharing
\* request leaves out those without a membership, and only those.
Due(u, level) == IF member[u] = "out" THEN "none" ELSE GrantFor(level)
Collects(q) ==
    /\ q.pc \in {"rgw", "db"} => q.todo = {}
    /\ \A u \in Users : q.grants[u] \in {"none", GrantFor(q.wanted[u])}
    /\ q.op \in SharingOp =>
         /\ q.pc = "create_user" /\ q.cur \notin Volatile => member[q.cur] # "out"
         /\ \A u \in Users \ (q.todo \cup Volatile) : q.grants[u] = Due(u, q.wanted[u])

\* The map is the stored one with the change.
Reads(q) ==
    /\ q.op = "create" => /\ q.wanted = [NoPerms EXCEPT ![q.target] = "owner"]
                          /\ \A i \in Ids : name[i] = q.name => perm[i] = NoPerms
    /\ q.op \in SharingOp => /\ name[q.id] = q.name /\ q.target \in Users
                             /\ q.wanted = [perm[q.id] EXCEPT ![q.target] = q.level]
                             /\ q.op # "share" => q.level = "none"

\* What the call left in RGWSquared is there until the database is written.
Pushed(q) ==
    q.pc = "db" => IF q.op = "destroy" THEN q.name \notin exists
                   ELSE q.name \in exists /\ policy[q.name] = q.grants

Sharing ==
    /\ \A r \in Reqs : KnowsName(req[r]) /\ Collects(req[r])
    /\ Alone
    /\ \A r \in Reqs : Busy(r) /\ req[r].solo => Reads(req[r]) /\ Pushed(req[r])

\* What a step does not touch: the bucket of a name, and settled memberships.
BucketKept(n) ==
    /\ n \in exists' <=> n \in exists
    /\ policy'[n] = policy[n]
    /\ \A i \in Ids : name[i] = n => name'[i] = n /\ perm'[i] = perm[i]
    /\ \A i \in Ids : name'[i] = n => name[i] = n \/ perm'[i] = NoPerms
MembersKept == \A u \in Users \ Volatile : member'[u] = member[u]

\* Two requests that differ in their target at most.
SameButTarget(q, p) ==
    /\ p.pc = q.pc /\ p.op = q.op /\ p.id = q.id /\ p.name = q.name /\ p.level = q.level
    /\ p.wanted = q.wanted /\ p.todo = q.todo /\ p.grants = q.grants /\ p.cur = q.cur
    /\ p.solo = q.solo
SameTask(q, p) ==
    /\ p.op = q.op /\ p.id = q.id /\ p.name = q.name /\ p.level = q.level
    /\ p.wanted = q.wanted /\ p.target = q.target /\ p.solo = q.solo

LEMMA CollectsStays ==
    ASSUME TypeOK, NEW s \in Reqs, Collects(req[s]), SameButTarget(req[s], req'[s]), MembersKept
    PROVE  Collects(req[s])'
<1>1. req[s].pc = "create_user" => req[s].cur \in Users
  BY DEF TypeOK, WellFormed
<1> QED
  BY <1>1 DEF Collects, SameButTarget, MembersKept, Due

\* A request whose bucket nobody touched keeps what it knows.
LEMMA KnowledgeStays ==
    ASSUME TypeOK, NEW s \in Reqs, Reads(req[s]), Pushed(req[s]),
           SameButTarget(req[s], req'[s]), req'[s].target = req[s].target,
           BucketKept(req[s].name)
    PROVE  Reads(req[s])' /\ Pushed(req[s])'
<1>1. req[s].op \in SharingOp => req[s].id \in Ids
  BY DEF TypeOK, WellFormed
<1> QED
  BY <1>1 DEF Reads, Pushed, SameButTarget, BucketKept

-----------------------------------------------------------------------------
(* What the steps of a request change of requests *)

Moves(r) == RequestContinues(r) \/ Abandon(r) \/ LostReply(r)

LEMMA IdleFacts == Idle.pc = "idle" /\ Idle.op = "none" /\ Collects(Idle)
BY DEF Idle, Collects, NoPerms, SharingOp

\* Another request is not changed, except that an unshare learns that the share it
\* was to remove is gone.
LEMMA OthersAfterMove ==
    ASSUME TypeOK, NEW r \in Reqs, Moves(r), NEW s \in Reqs \ {r}
    PROVE  /\ SameButTarget(req[s], req'[s])
           /\ \/ req'[s].target = req[s].target
              \/ DropShare(r) /\ req[s].op = "unshare" /\ req[s].id = req[r].id
<1>1. CASE req'[s] = req[s]
  BY <1>1 DEF SameButTarget
<1>2. CASE req'[s] # req[s]
  <2>1. DropShare(r) /\ req' = [ForgetShare(req[r].id, req[r].target) EXCEPT ![r] = Idle]
    BY <1>2 DEF Moves, RequestContinues, Abandon, LostReply, SkipMember, ListUsers, CreateUser,
         CreateUserRefused, CreateBucket, UpdateBucket, DeleteBucket, CallRefused, InsertBucket,
         InsertFails, UndoCreate, DeleteRow, SaveShare, DropShare, End, Goto, TypeOK
  <2>2. req[s] \in Request
    BY DEF TypeOK
  <2>3. req[s].op = "unshare" /\ req[s].id = req[r].id
        /\ req'[s] = [req[s] EXCEPT !.target = Nobody]
    BY <1>2, <2>1 DEF ForgetShare
  <2> QED
    BY <2>1, <2>2, <2>3 DEF SameButTarget, Request
<1> QED
  BY <1>1, <1>2

\* A request that moves ends or goes on with its task.
LEMMA MoverGoesOn ==
    ASSUME TypeOK, NEW r \in Reqs, Moves(r)
    PROVE  Busy(r) /\ (req'[r] = Idle \/ SameTask(req[r], req'[r]))
<1>0. req[r] \in Request
  BY DEF TypeOK
<1>1. ASSUME NEW u, NEW grant, req' = [req EXCEPT ![r] = Resolved(req[r], u, grant)]
      PROVE  SameTask(req[r], req'[r])
  BY <1>0, <1>1 DEF TypeOK, Resolved, SameTask, Request
<1>2. ASSUME NEW u, req' = [req EXCEPT ![r] = [req[r] EXCEPT !.pc = "create_user", !.cur = u]]
      PROVE  SameTask(req[r], req'[r])
  BY <1>0, <1>2 DEF TypeOK, SameTask, Request
<1>3. ASSUME End(r) PROVE req'[r] = Idle
  BY <1>3 DEF End, TypeOK
<1>4. ASSUME NEW pc, Goto(r, pc) PROVE SameTask(req[r], req'[r])
  BY <1>0, <1>4 DEF TypeOK, Goto, SameTask, Request
<1>5. CASE \E u \in Users : SkipMember(r, u) \/ ListUsers(r, u)
  BY <1>1, <1>2, <1>5 DEF SkipMember, ListUsers, Busy
<1>6. CASE CreateUser(r)
  BY <1>1, <1>6 DEF CreateUser, Busy
<1>7. CASE CreateBucket(r) \/ UpdateBucket(r) \/ DeleteBucket(r) \/ InsertFails(r)
  BY <1>4, <1>7 DEF CreateBucket, UpdateBucket, DeleteBucket, InsertFails, AtCall, Busy
<1>8. CASE CreateUserRefused(r) \/ CallRefused(r) \/ UndoCreate(r) \/ DeleteRow(r)
           \/ SaveShare(r) \/ Abandon(r) \/ LostReply(r) \/ \E i \in Ids : InsertBucket(r, i)
  BY <1>3, <1>8 DEF CreateUserRefused, CallRefused, UndoCreate, DeleteRow, SaveShare,
                    Abandon, LostReply, InsertBucket, AtCall, Busy
<1>9. CASE DropShare(r)
  <2>1. CASE req[r].target = Nobody
    BY <1>3, <1>9, <2>1 DEF DropShare, Busy
  <2>2. CASE req[r].target # Nobody
    BY <1>9, <2>2 DEF DropShare, Busy, ForgetShare
  <2> QED
    BY <2>1, <2>2
<1> QED
  BY <1>5, <1>6, <1>7, <1>8, <1>9 DEF Moves, RequestContinues

-----------------------------------------------------------------------------
(* What the steps change of buckets *)

\* A request touches the bucket of its own name at most.
LEMMA OtherBucketsKept ==
    ASSUME TypeOK, \A s \in Reqs : KnowsName(req[s]), NEW r \in Reqs, Moves(r),
           NEW n \in Names, n # req[r].name
    PROVE  BucketKept(n)
<1> USE ConstantsAssumption
<1>0. Busy(r) /\ req[r].name \in Names /\ KnowsName(req[r])
  BY MoverGoesOn DEF TypeOK, WellFormed, Busy
<1>1. (n \in exists' <=> n \in exists) /\ policy'[n] = policy[n]
  <2>1. \/ UNCHANGED <<exists, policy>>
        \/ StoreBucket(req[r].name, req[r].grants) \/ RemoveBucket(req[r].name)
    BY DEF Moves, RequestContinues, Abandon, LostReply, SkipMember, ListUsers, CreateUser,
           CreateUserRefused, CreateBucket, UpdateBucket, DeleteBucket, CallRefused, InsertBucket,
           InsertFails, UndoCreate, DeleteRow, SaveShare, DropShare, Compensate, rgw
  <2> QED
    BY <1>0, <2>1 DEF StoreBucket, RemoveBucket, TypeOK
<1>2. /\ \A i \in Ids : name[i] = n => name'[i] = n /\ perm'[i] = perm[i]
      /\ \A i \in Ids : name'[i] = n => name[i] = n \/ perm'[i] = NoPerms
  <2>1. CASE UNCHANGED <<name, perm>>
    BY <2>1
  <2>2. ASSUME NEW i \in Ids, InsertBucket(r, i)
        PROVE  <1>2
    BY <1>0, <2>2 DEF InsertBucket, FreshId, Live, TypeOK
  <2>3. CASE DeleteRow(r)
    BY <1>0, <2>3 DEF DeleteRow, KnowsName, Live, TypeOK
  <2>4. CASE SaveShare(r) \/ DropShare(r)
    <3>1. req[r].id \in Ids /\ req[r].op \in SharingOp
      BY <2>4 DEF SaveShare, DropShare, TypeOK, WellFormed, SharingOp
    <3>2. name[req[r].id] # n
      BY <1>0, <3>1 DEF KnowsName, Live
    <3>3. name' = name /\ \A i \in Ids : i # req[r].id => perm'[i] = perm[i]
      BY <2>4, <3>1 DEF SaveShare, DropShare, TypeOK
    <3> QED
      BY <3>2, <3>3
  <2> QED
    BY <2>1, <2>2, <2>3, <2>4
    DEF Moves, RequestContinues, Abandon, LostReply, SkipMember, ListUsers, CreateUser,
        CreateUserRefused, CreateBucket, UpdateBucket, DeleteBucket, CallRefused,
        InsertFails, UndoCreate, django
<1> QED
  BY <1>1, <1>2 DEF BucketKept

\* A refresh adds rows without permissions and else touches nothing.
LEMMA RefreshKeepsBuckets ==
    ASSUME TypeOK, Ownership, NEW f \in Refreshers, RefreshStep(f), NEW n \in Names
    PROVE  BucketKept(n)
<1>1. perm' = perm /\ UNCHANGED <<exists, policy>>
  BY OwnershipRefresh DEF RefreshStep, RefreshList, RefreshAdopt, RefreshKnown, rgw
<1>2. ASSUME NEW i \in Ids, name'[i] # name[i] PROVE ~Live(i) /\ perm[i] = NoPerms
  <2>1. PICK m \in Names, j \in Ids : RefreshAdopt(f, m, j)
    BY <1>2 DEF RefreshStep, RefreshList, RefreshKnown, django
  <2>2. i = j
    BY <1>2, <2>1 DEF RefreshAdopt, TypeOK
  <2> QED
    BY <2>1, <2>2 DEF RefreshAdopt, FreshId, Ownership, DeadRows, OrphansInvisible
<1> QED
  BY <1>1, <1>2, ConstantsAssumption DEF BucketKept, Live

-----------------------------------------------------------------------------
(* The invariant, step by step *)

\* A request that starts knows its row; it is alone if it finds itself so, and no
\* longer are those it joins.
LEMMA SharingBegin ==
    ASSUME TypeOK, Sharing, NEW r \in Reqs, RequestBegins(r)
    PROVE  Sharing'
<1>1. PICK q : GoodRequest(q) /\ NewTask(q) /\ Start(r, q)
  BY BeginTask
<1>2. UNCHANGED <<name, perm, member, exists, policy>>
  BY BeginTask DEF django, rgw
<1>3. /\ req'[r].target = q.target
      /\ req'[r].solo => \A s \in Reqs : ~SharesBucket(s, q.name)
  BY <1>1 DEF Start, GoodRequest, Request
<1>4. /\ req'[r].pc = q.pc /\ req'[r].op = q.op /\ req'[r].id = q.id /\ req'[r].name = q.name
      /\ req'[r].level = q.level /\ req'[r].wanted = q.wanted /\ req'[r].todo = q.todo
      /\ req'[r].grants = q.grants
  BY <1>1 DEF Start, GoodRequest, Request
<1>5. ASSUME NEW s \in Reqs \ {r}
      PROVE  req'[s] = [req[s] EXCEPT !.solo = req[s].solo /\ ~SharesBucket(s, q.name)]
  BY <1>1 DEF Start, TypeOK
<1>6. ASSUME NEW s \in Reqs \ {r}
      PROVE  /\ req'[s].pc = req[s].pc /\ req'[s].op = req[s].op /\ req'[s].id = req[s].id
             /\ req'[s].name = req[s].name /\ req'[s].level = req[s].level
             /\ req'[s].wanted = req[s].wanted /\ req'[s].todo = req[s].todo
             /\ req'[s].grants = req[s].grants /\ req'[s].cur = req[s].cur
             /\ req'[s].target = req[s].target
             /\ req'[s].solo => req[s].solo /\ ~SharesBucket(s, q.name)
  <2>1. req[s] \in Request
    BY DEF TypeOK
  <2> QED
    BY <1>5, <2>1 DEF Request
<1>7. \A s \in Reqs : KnowsName(req[s])'
  BY <1>1, <1>2, <1>4, <1>6 DEF Sharing, KnowsName, NewTask, Live
<1>8. ASSUME NEW s \in Reqs PROVE Collects(req[s])'
  <2>1. CASE s = r
    <3>1. \A u \in Users : req'[r].grants[u] = "none"
      BY <1>1, <1>4 DEF NewTask, NoPerms
    <3>2. req'[r].pc \in {"ensure", "rgw"} /\ (req'[r].pc = "rgw" => req'[r].todo = {})
      BY <1>1, <1>4 DEF NewTask
    <3>3. req'[r].op \in SharingOp =>
            \A u \in Users \ req'[r].todo : req'[r].wanted[u] = "none"
      BY <1>1, <1>4 DEF NewTask, Entries, SharingOp
    <3> QED
      BY <2>1, <3>1, <3>2, <3>3 DEF Collects, Due, GrantFor
  <2>2. CASE s # r
    BY <1>2, <1>6, <2>2 DEF Sharing, Collects, Due
  <2> QED
    BY <2>1, <2>2
<1>9. Alone'
  <2> SUFFICES ASSUME NEW s \in Reqs, NEW t \in Reqs, s # t, req'[s].solo, Busy(s)', Busy(t)'
               PROVE  req'[t].name # req'[s].name
    BY DEF Alone
  <2>1. CASE s # r /\ t # r
    BY <1>6, <2>1 DEF Sharing, Alone, Busy
  <2>2. CASE s = r
    BY <1>3, <1>4, <1>6, <2>2 DEF Busy, SharesBucket
  <2>3. CASE t = r
    BY <1>4, <1>6, <2>3 DEF Busy, SharesBucket
  <2> QED
    BY <2>1, <2>2, <2>3
<1>10. ASSUME NEW s \in Reqs, Busy(s)', req'[s].solo
       PROVE  Reads(req[s])' /\ Pushed(req[s])'
  <2>1. CASE s = r
    <3>1. Reads(req[r])'
      <4>1. CASE q.op = "create"
        BY <1>1, <1>2, <1>3, <1>4, <4>1 DEF Reads, NewTask, RowNamed, SharingOp
      <4>2. CASE q.op \in SharingOp
        BY <1>1, <1>2, <1>3, <1>4, <4>2 DEF Reads, NewTask, SharingOp
      <4>3. CASE q.op = "destroy"
        BY <1>4, <4>3 DEF Reads, SharingOp
      <4> QED
        BY <1>1, <4>1, <4>2, <4>3 DEF NewTask, Op, SharingOp
    <3>2. req'[r].pc # "db"
      BY <1>1, <1>4 DEF NewTask
    <3> QED
      BY <2>1, <3>1, <3>2 DEF Pushed
  <2>2. CASE s # r
    BY <1>2, <1>6, <1>10, <2>2 DEF Sharing, Reads, Pushed, Busy
  <2> QED
    BY <2>1, <2>2
<1> QED
  BY <1>7, <1>8, <1>9, <1>10 DEF Sharing

\* Names stay known: a row loses its name for good, and a new one is nobody's yet.
LEMMA KnowsNameStays ==
    ASSUME TypeOK, NEW s \in Reqs, KnowsName(req[s]),
           \/ req'[s] = Idle
           \/ req'[s].op = req[s].op /\ req'[s].id = req[s].id /\ req'[s].name = req[s].name,
           \A i \in Ids : name'[i] \in {name[i], NoName} \/ FreshId(i)
    PROVE  KnowsName(req[s])'
<1>1. req[s].op \in SharingOp \cup {"destroy"} => req[s].id \in Ids
  BY DEF TypeOK, WellFormed
<1> QED
  BY <1>1, IdleFacts DEF KnowsName, Live, FreshId, SharingOp

\* What the mover itself knows after its step.
LEMMA CollectsMoves ==
    ASSUME TypeOK, Sharing, NEW r \in Reqs, Moves(r)
    PROVE  Collects(req[r])'
<1>0. req[r] \in Request /\ Collects(req[r]) /\ Busy(r) /\ WellFormed(req[r])
  BY MoverGoesOn DEF TypeOK, Sharing
<1>1. ASSUME NEW u \in Users, NEW grant \in {"none", GrantFor(req[r].wanted[u])},
             req' = [req EXCEPT ![r] = Resolved(req[r], u, grant)], member' = member,
             req[r].op \in SharingOp /\ u \notin Volatile => grant = Due(u, req[r].wanted[u])
      PROVE  Collects(req[r])'
  <2>1. /\ req'[r].todo = req[r].todo \ {u} /\ req'[r].wanted = req[r].wanted
        /\ req'[r].grants = [req[r].grants EXCEPT ![u] = grant] /\ req'[r].op = req[r].op
        /\ req'[r].pc = IF req[r].todo = {u} THEN "rgw" ELSE "ensure"
    BY <1>0, <1>1 DEF Resolved, Request, TypeOK
  <2>2. req[r].grants \in [Users -> Grant]
    BY <1>0 DEF Request
  <2>3. /\ req'[r].grants[u] = grant
        /\ \A v \in Users \ {u} : req'[r].grants[v] = req[r].grants[v]
    BY <2>1, <2>2
  <2>4. \A v \in Users : req'[r].grants[v] \in {"none", GrantFor(req'[r].wanted[v])}
    BY <1>0, <2>1, <2>3 DEF Collects
  <2>5. req'[r].op \in SharingOp =>
          \A v \in Users \ (req'[r].todo \cup Volatile) :
            req'[r].grants[v] = Due(v, req[r].wanted[v])'
    BY <1>0, <1>1, <2>1, <2>3 DEF Collects, Due
  <2> QED
    BY <2>1, <2>4, <2>5 DEF Collects
<1>2. ASSUME NEW u \in Users, SkipMember(r, u)
      PROVE  Collects(req[r])'
  BY <1>1, <1>2 DEF SkipMember, Due
<1>3. ASSUME NEW u \in Users, ListUsers(r, u)
      PROVE  Collects(req[r])'
  <2>1. CASE UserListed(u)
    BY <1>1, <1>3, <2>1 DEF ListUsers, Due
  <2>2. CASE ~UserListed(u)
    <3>1. req' = [req EXCEPT ![r] = [req[r] EXCEPT !.pc = "create_user", !.cur = u]]
          /\ member' = member /\ (req[r].op \in SharingOp => member[u] # "out")
      BY <1>3, <2>2 DEF ListUsers
    <3>2. /\ req'[r].pc = "create_user" /\ req'[r].cur = u /\ req'[r].op = req[r].op
          /\ req'[r].todo = req[r].todo /\ req'[r].grants = req[r].grants
          /\ req'[r].wanted = req[r].wanted
      BY <1>0, <3>1 DEF Request, TypeOK
    <3> QED
      BY <1>0, <3>1, <3>2 DEF Collects, Due
  <2> QED
    BY <2>1, <2>2
<1>4. CASE CreateUser(r)
  BY <1>0, <1>1, <1>4 DEF CreateUser, Collects, Due, WellFormed
<1>5. ASSUME NEW pc \in {"db", "undo"}, Goto(r, pc), member' = member, req[r].todo = {}
      PROVE  Collects(req[r])'
  <2>1. /\ req'[r].pc = pc /\ req'[r].op = req[r].op /\ req'[r].todo = req[r].todo
        /\ req'[r].grants = req[r].grants /\ req'[r].wanted = req[r].wanted
    BY <1>0, <1>5 DEF Goto, Request, TypeOK
  <2> QED
    BY <1>0, <1>5, <2>1 DEF Collects, Due
<1>6. CASE CreateBucket(r) \/ UpdateBucket(r) \/ DeleteBucket(r) \/ InsertFails(r)
  BY <1>0, <1>5, <1>6
  DEF CreateBucket, UpdateBucket, DeleteBucket, InsertFails, AtCall, Collects
<1>7. CASE req'[r] = Idle
  BY <1>7 DEF Idle, Collects, NoPerms, SharingOp
<1>8. CASE CreateUserRefused(r) \/ CallRefused(r) \/ UndoCreate(r) \/ DeleteRow(r)
           \/ SaveShare(r) \/ DropShare(r) \/ Abandon(r) \/ LostReply(r)
           \/ \E i \in Ids : InsertBucket(r, i)
  BY <1>7, <1>8 DEF CreateUserRefused, CallRefused, UndoCreate, DeleteRow, SaveShare, DropShare,
                    Abandon, LostReply, InsertBucket, End, ForgetShare, TypeOK
<1> QED
  BY <1>2, <1>3, <1>4, <1>6, <1>8 DEF Moves, RequestContinues

LEMMA KnowledgeMoves ==
    ASSUME TypeOK, NEW r \in Reqs, Reads(req[r]), Moves(r), Busy(r)'
    PROVE  Reads(req[r])' /\ Pushed(req[r])'
<1>0. req[r] \in Request /\ SameTask(req[r], req'[r]) /\ WellFormed(req[r])
  BY MoverGoesOn, IdleFacts DEF TypeOK, Busy
<1>1. ~\/ CreateUserRefused(r) \/ CallRefused(r) \/ UndoCreate(r) \/ DeleteRow(r)
       \/ SaveShare(r) \/ DropShare(r) \/ Abandon(r) \/ LostReply(r)
       \/ \E i \in Ids : InsertBucket(r, i)
  BY IdleFacts
  DEF CreateUserRefused, CallRefused, UndoCreate, DeleteRow, SaveShare, DropShare,
      Abandon, LostReply, InsertBucket, End, ForgetShare, Busy, TypeOK
<1>2. UNCHANGED <<name, perm>>
  BY <1>1 DEF Moves, RequestContinues, SkipMember, ListUsers, CreateUser, CreateBucket,
              UpdateBucket, DeleteBucket, InsertFails, django
<1>3. Reads(req[r])'
  BY <1>0, <1>2 DEF Reads, SameTask
<1>4. CASE CreateBucket(r) \/ UpdateBucket(r)
  <2>1. Goto(r, "db") /\ StoreBucket(req[r].name, req[r].grants) /\ req[r].op # "destroy"
    BY <1>4 DEF CreateBucket, UpdateBucket, AtCall, SharingOp
  <2>2. req'[r].grants = req[r].grants /\ req[r].name \in Names
    BY <1>0, <1>4, <2>1 DEF Goto, TypeOK, Request, WellFormed, CreateBucket, UpdateBucket, AtCall
  <2> QED
    BY <1>0, <1>3, <2>1, <2>2 DEF StoreBucket, Pushed, SameTask, TypeOK
<1>5. CASE DeleteBucket(r)
  BY <1>0, <1>3, <1>5 DEF DeleteBucket, RemoveBucket, AtCall, Pushed, SameTask
<1>6. CASE InsertFails(r)
  BY <1>3, <1>6 DEF InsertFails, Goto, Pushed, TypeOK
<1>7. CASE CreateUser(r) \/ \E u \in Users : SkipMember(r, u) \/ ListUsers(r, u)
  <2>1. ASSUME NEW u, NEW grant, req' = [req EXCEPT ![r] = Resolved(req[r], u, grant)]
        PROVE  req'[r].pc # "db"
    BY <1>0, <2>1 DEF TypeOK, Resolved, Request
  <2>2. ASSUME NEW u, req' = [req EXCEPT ![r] = [req[r] EXCEPT !.pc = "create_user", !.cur = u]]
        PROVE  req'[r].pc # "db"
    BY <1>0, <2>2 DEF TypeOK, Request
  <2>3. req'[r].pc # "db"
    BY <1>7, <2>1, <2>2 DEF CreateUser, SkipMember, ListUsers
  <2> QED
    BY <1>3, <2>3 DEF Pushed
<1> QED
  BY <1>1, <1>4, <1>5, <1>6, <1>7 DEF Moves, RequestContinues

\* How rows come and go.
LEMMA NamesMove ==
    ASSUME TypeOK, NEW i \in Ids,
           (\E r \in Reqs : Moves(r)) \/ (\E f \in Refreshers : RefreshStep(f))
    PROVE  name'[i] \in {name[i], NoName} \/ FreshId(i)
<1>1. \/ UNCHANGED name
      \/ \E r \in Reqs : DeleteRow(r) \/ \E j \in Ids : InsertBucket(r, j)
      \/ \E f \in Refreshers, n \in Names, j \in Ids : RefreshAdopt(f, n, j)
  BY DEF Moves, RequestContinues, Abandon, LostReply, SkipMember, ListUsers, CreateUser,
         CreateUserRefused, CreateBucket, UpdateBucket, DeleteBucket, CallRefused,
         InsertFails, UndoCreate, SaveShare, DropShare, RefreshStep, RefreshList, RefreshKnown,
         django
<1> QED
  BY <1>1 DEF DeleteRow, InsertBucket, RefreshAdopt, TypeOK

LEMMA SharingMoves ==
    ASSUME TypeOK, Sharing, NEW r \in Reqs, Moves(r)
    PROVE  Sharing'
<1>0. member' = member
  BY DEF Moves, RequestContinues, Abandon, LostReply, SkipMember, ListUsers, CreateUser,
         CreateUserRefused, CreateBucket, UpdateBucket, DeleteBucket, CallRefused, InsertBucket,
         InsertFails, UndoCreate, DeleteRow, SaveShare, DropShare
<1>1. Busy(r) /\ (req'[r] = Idle \/ SameTask(req[r], req'[r]))
  BY MoverGoesOn
<1>2. \A s \in Reqs \ {r} : SameButTarget(req[s], req'[s])
  BY OthersAfterMove
<1>3. ASSUME NEW s \in Reqs PROVE KnowsName(req[s])'
  <2>1. \/ req'[s] = Idle
        \/ req'[s].op = req[s].op /\ req'[s].id = req[s].id /\ req'[s].name = req[s].name
    BY <1>1, <1>2 DEF SameTask, SameButTarget
  <2> QED
    BY <2>1, NamesMove, KnowsNameStays DEF Sharing
<1>4. ASSUME NEW s \in Reqs PROVE Collects(req[s])'
  <2>1. MembersKept
    BY <1>0 DEF MembersKept
  <2> QED
    BY <1>2, <2>1, CollectsMoves, CollectsStays DEF Sharing
<1>5. Alone'
  <2>1. \A s \in Reqs : Busy(s)' => /\ Busy(s) /\ req'[s].name = req[s].name
                                    /\ req'[s].solo = req[s].solo
    BY <1>1, <1>2, IdleFacts DEF SameTask, SameButTarget, Busy
  <2>2. \A s \in Reqs : Busy(s)' => req'[s].name = req[s].name
    BY <2>1
  <2> QED
    BY <2>1, <2>2 DEF Sharing, Alone
<1>6. ASSUME NEW s \in Reqs, Busy(s)', req'[s].solo
      PROVE  Reads(req[s])' /\ Pushed(req[s])'
  <2>1. CASE s = r
    <3>1. req[r].solo
      BY <1>1, <1>6, <2>1, IdleFacts DEF SameTask, Busy
    <3> QED
      BY <1>1, <1>6, <2>1, <3>1, KnowledgeMoves DEF Sharing
  <2>2. CASE s # r
    <3>1. Busy(s) /\ req[s].solo
      BY <1>2, <1>6, <2>2 DEF SameButTarget, Busy
    <3>2. req[r].name # req[s].name /\ req[s].name \in Names
      BY <1>1, <2>2, <3>1 DEF Sharing, Alone, TypeOK, WellFormed, Busy
    <3>3. BucketKept(req[s].name)
      BY <3>2, OtherBucketsKept DEF Sharing
    <3>4. Reads(req[s]) /\ Pushed(req[s])
      BY <3>1 DEF Sharing
    <3>5. ~(DropShare(r) /\ req[s].op = "unshare" /\ req[s].id = req[r].id)
      <4> SUFFICES ASSUME DropShare(r), req[s].op = "unshare", req[s].id = req[r].id
                   PROVE  FALSE
        OBVIOUS
      <4>1. name[req[r].id] = req[s].name
        BY <3>4 DEF Reads, SharingOp
      <4>2. req[r].op \in SharingOp /\ KnowsName(req[r])
        BY DEF DropShare, SharingOp, Sharing
      <4> QED
        BY <3>2, <4>1, <4>2, ConstantsAssumption DEF KnowsName, Live
    <3>6. req'[s].target = req[s].target /\ SameButTarget(req[s], req'[s])
      BY <2>2, <3>5, OthersAfterMove
    <3> QED
      BY <3>3, <3>4, <3>6, KnowledgeStays
  <2> QED
    BY <2>1, <2>2
<1> QED
  BY <1>3, <1>4, <1>5, <1>6 DEF Sharing

\* Steps that are no request's.
LEMMA SharingFrame ==
    ASSUME TypeOK, Sharing, UNCHANGED req, MembersKept,
           \A i \in Ids : name'[i] \in {name[i], NoName} \/ FreshId(i),
           \A n \in Names : BucketKept(n)
    PROVE  Sharing'
<1>1. \A s \in Reqs : KnowsName(req[s])'
  BY KnowsNameStays DEF Sharing
<1>2. \A s \in Reqs : SameButTarget(req[s], req'[s]) /\ req'[s].target = req[s].target
  BY DEF SameButTarget
<1>3. \A s \in Reqs : Collects(req[s])'
  BY <1>2, CollectsStays DEF Sharing
<1>4. ASSUME NEW s \in Reqs, Busy(s)', req'[s].solo
      PROVE  Reads(req[s])' /\ Pushed(req[s])'
  <2>1. Busy(s) /\ req[s].name \in Names /\ Reads(req[s]) /\ Pushed(req[s])
    BY <1>4 DEF Busy, TypeOK, WellFormed, Sharing
  <2> QED
    BY <1>2, <2>1, KnowledgeStays
<1>5. Alone'
  BY DEF Sharing, Alone, Busy
<1> QED
  BY <1>1, <1>3, <1>4, <1>5 DEF Sharing

LEMMA SharingStep == TypeOK /\ Ownership /\ Sharing /\ [Next]_vars => Sharing'
<1> SUFFICES ASSUME TypeOK, Ownership, Sharing, [Next]_vars PROVE Sharing'
  OBVIOUS
<1>1. ASSUME NEW f \in Refreshers, RefreshStep(f)
      PROVE  Sharing'
  <2>1. UNCHANGED req /\ MembersKept
    BY <1>1 DEF RefreshStep, RefreshList, RefreshAdopt, RefreshKnown, MembersKept
  <2> QED
    BY <1>1, <2>1, NamesMove, RefreshKeepsBuckets, SharingFrame
<1>2. ASSUME NEW u \in Users, ChangeMembership(u)
      PROVE  Sharing'
  <2>1. UNCHANGED <<name, perm, exists, policy, req>> /\ MembersKept
    BY <1>2 DEF ChangeMembership, django, rgw, MembersKept, TypeOK
  <2> QED
    BY <2>1, SharingFrame DEF BucketKept
<1>3. CASE UNCHANGED vars
  BY <1>3, SharingFrame DEF vars, BucketKept, MembersKept
<1> QED
  BY <1>1, <1>2, <1>3, SharingBegin, SharingMoves DEF Next, Moves

LEMMA SharingInit == Init => Sharing
BY IdleFacts DEF Init, Sharing, KnowsName, Alone, Busy, Collects, Idle, SharingOp

LEMMA SharingHolds == Spec => [](TypeOK /\ Ownership /\ Sharing)
BY TypeInit, TypeStep, OwnershipInit, OwnershipStep, SharingInit, SharingStep, PTL DEF Spec

\* A handler that ends well after a push has saved what it pushed.
LEMMA SavedAsPushed ==
    ASSUME TypeOK, Sharing, NEW r \in Reqs, req[r].solo, SaveShare(r) \/ DropShare(r)
    PROVE  LET i == req[r].id IN
           /\ i \in Ids /\ name'[i] = req[r].name /\ req[r].name \in exists'
           /\ policy'[name'[i]] = req[r].grants /\ perm'[i] = req[r].wanted
<1> PICK i : i = req[r].id
  OBVIOUS
<1>1. /\ req[r].pc = "db" /\ req[r].op \in SharingOp /\ UNCHANGED <<name, exists, policy>>
      /\ req[r].op \in {"unshare", "leave"} <=> DropShare(r)
  BY DEF SaveShare, DropShare, SharingOp, rgw
<1>2. Reads(req[r]) /\ Pushed(req[r])
  BY <1>1 DEF Sharing, Busy
<1>3. /\ i \in Ids /\ name[i] = req[r].name /\ req[r].name \in Names
      /\ req[r].name \in exists /\ policy[req[r].name] = req[r].grants
      /\ req[r].target \in Users /\ req[r].wanted = [perm[i] EXCEPT ![req[r].target] = req[r].level]
      /\ req[r].op # "share" => req[r].level = "none"
  BY <1>1, <1>2 DEF Reads, Pushed, TypeOK, WellFormed, SharingOp
<1>4. perm'[i] = req[r].wanted
  <2>1. CASE SaveShare(r)
    BY <1>3, <2>1, ConstantsAssumption DEF SaveShare, ForeignKeyHolds, Live, TypeOK
  <2>2. CASE DropShare(r)
    BY <1>3, <2>2, ConstantsAssumption DEF DropShare, TypeOK
  <2> QED
    BY <2>1, <2>2
<1> QED
  BY <1>1, <1>3, <1>4

\* A sharing change that had its bucket to itself leaves Django and RGWSquared
\* agreeing about every user whose membership is settled, whatever failed before.
THEOREM SoloSharesAgree == Spec => SoloShareAgrees
<1> DEFINE Agrees == \A r \in Reqs, i \in Ids :
             (Finishes(r, SharingOp) /\ req[r].solo /\ req[r].id = i)
             => name'[i] \in exists' /\ Disagreeing(i)' \subseteq Volatile
<1>1. TypeOK /\ Ownership /\ Sharing /\ [Next]_vars => [Agrees]_vars
  <2> SUFFICES ASSUME TypeOK, Sharing, [Next]_vars, NEW r \in Reqs, NEW i \in Ids,
                      Finishes(r, SharingOp), req[r].solo, req[r].id = i
               PROVE  name'[i] \in exists' /\ Disagreeing(i)' \subseteq Volatile
    OBVIOUS
  <2>1. SaveShare(r) \/ DropShare(r)
    <3>1. Busy(r) /\ ~Busy(r)' /\ req[r].pc = "db" /\ req[r].op \in SharingOp
      BY DEF Finishes, Busy
    <3>2. Moves(r)
      <4>1. ASSUME NEW s \in Reqs, RequestBegins(s) PROVE FALSE
        <5>1. PICK q : Start(s, q)
          BY <4>1, BeginTask
        <5> QED
          BY <3>1, <5>1 DEF Start, Busy, TypeOK, Request
      <4>2. ASSUME NEW s \in Reqs \ {r}, Moves(s) PROVE FALSE
        BY <3>1, <4>2, OthersAfterMove DEF SameButTarget, Busy
      <4>3. req' # req
        BY <3>1 DEF Busy
      <4> QED
        BY <4>1, <4>2, <4>3 DEF Next, Moves, RefreshStep, RefreshList, RefreshAdopt,
                                RefreshKnown, ChangeMembership, vars
    <3>3. faults' = faults /\ faults \in Nat
      BY DEF Finishes, TypeOK
    <3> QED
      BY <3>1, <3>2, <3>3
      DEF Moves, RequestContinues, Abandon, LostReply, Fault, SkipMember, ListUsers, CreateUser,
          CreateUserRefused, CreateBucket, UpdateBucket, DeleteBucket, CallRefused, AtCall,
          InsertBucket, InsertFails, UndoCreate, DeleteRow, SharingOp
  <2>2. /\ name'[i] \in exists' /\ policy'[name'[i]] = req[r].grants
        /\ perm'[i] = req[r].wanted /\ member' = member
    BY <2>1, SavedAsPushed DEF SaveShare, DropShare
  <2>3. \A u \in Users \ Volatile : req[r].grants[u] = Due(u, req[r].wanted[u])
    BY DEF Sharing, Collects, Finishes
  <2> QED
    BY <2>2, <2>3 DEF Disagreeing, Enforced, Due
<1>2. Spec => [][Agrees]_vars
  BY <1>1, SharingHolds, PTL DEF Spec
<1> QED
  BY <1>2 DEF SoloShareAgrees

-----------------------------------------------------------------------------
(***************************************************************************)
(* Drift.  One worker has every bucket to itself, so that Sharing speaks   *)
(* of every request.  Whatever fails between its push and its write, the   *)
(* two sides then differ about the user that the change was for; a bucket  *)
(* without a row, until a refresh adopts it, is at most its creator's.     *)
(***************************************************************************)

UniqueRows == \A i, j \in Ids : Live(i) /\ name[i] = name[j] => i = j

Drift(n) ==
    \E x : \A u \in Users \ {x} :
       /\ \A i \in Ids : name[i] = n => policy[n][u] = Enforced(i, u)
       /\ ~RowNamed(n) => policy[n][u] = "none"

SmallDrift ==
    /\ \A r \in Reqs : req[r].solo
    /\ UniqueRows
    /\ \A n \in exists : Drift(n)

LEMMA UniqueRowsStep == TypeOK /\ UniqueRows /\ [Next]_vars => UniqueRows'
<1> SUFFICES ASSUME TypeOK, UniqueRows, [Next]_vars PROVE UniqueRows'
  OBVIOUS
<1>1. ASSUME NEW i \in Ids, NEW n \in Names, name' = [name EXCEPT ![i] = n], ~RowNamed(n)
      PROVE  UniqueRows'
  BY <1>1 DEF UniqueRows, RowNamed, Live, TypeOK
<1>2. ASSUME NEW i, name' = [name EXCEPT ![i] = NoName]
      PROVE  UniqueRows'
  BY <1>2 DEF UniqueRows, Live, TypeOK
<1>3. ASSUME NEW r \in Reqs, NEW i \in Ids, InsertBucket(r, i)
      PROVE  UniqueRows'
  BY <1>1, <1>3 DEF InsertBucket, TypeOK, WellFormed
<1>4. ASSUME NEW f \in Refreshers, RefreshStep(f)
      PROVE  UniqueRows'
  BY <1>1, <1>4 DEF RefreshStep, RefreshList, RefreshAdopt, RefreshKnown, django, UniqueRows, Live
<1>5. ASSUME NEW r \in Reqs, DeleteRow(r)
      PROVE  UniqueRows'
  BY <1>2, <1>5 DEF DeleteRow
<1>6. CASE UNCHANGED name
  BY <1>6 DEF UniqueRows, Live
<1>7. ASSUME NEW r \in Reqs, RequestBegins(r)
      PROVE  UniqueRows'
  BY <1>6, <1>7, BeginTask DEF django
<1> QED
  BY <1>3, <1>4, <1>5, <1>6, <1>7
  DEF Next, RequestContinues, Abandon, LostReply, SkipMember, ListUsers, CreateUser,
      CreateUserRefused, CreateBucket, UpdateBucket, DeleteBucket, CallRefused,
      InsertFails, UndoCreate, SaveShare, DropShare, ChangeMembership, django, vars

\* A bucket that a step does not touch drifts no further, also when it is adopted.
LEMMA DriftStays ==
    ASSUME NEW n, Drift(n), BucketKept(n), UniqueRows', n # NoName, member' = member
    PROVE  Drift(n)'
<1>1. PICK x : \A u \in Users \ {x} :
                 /\ \A i \in Ids : name[i] = n => policy[n][u] = Enforced(i, u)
                 /\ ~RowNamed(n) => policy[n][u] = "none"
  BY DEF Drift
<1>2. RowNamed(n) => RowNamed(n)'
  BY DEF RowNamed, BucketKept
<1>3. ASSUME NEW u \in Users \ {x}, NEW i \in Ids, name'[i] = n
      PROVE  policy'[n][u] = Enforced(i, u)'
  <2>1. CASE name[i] = n
    BY <1>1, <1>3, <2>1 DEF BucketKept, Enforced
  <2>2. CASE name[i] # n
    <3>1. ~RowNamed(n)
      BY <1>3, <2>2 DEF RowNamed, BucketKept, UniqueRows, Live
    <3>2. perm'[i][u] = "none" /\ policy'[n] = policy[n]
      BY <1>3, <2>2 DEF BucketKept, NoPerms
    <3> QED
      BY <1>1, <3>1, <3>2 DEF Enforced, GrantFor
  <2> QED
    BY <2>1, <2>2
<1>4. \A u \in Users \ {x} : ~RowNamed(n)' => policy'[n][u] = "none"
  BY <1>1, <1>2 DEF BucketKept
<1> QED
  BY <1>3, <1>4 DEF Drift

\* A created bucket is its creator's alone.
LEMMA CreatedGrants ==
    ASSUME TypeOK, Sharing, NEW r \in Reqs, Busy(r), req[r].solo, req[r].op = "create",
           NEW u \in Users \ {req[r].target}
    PROVE  req[r].grants[u] = "none"
<1>1. req[r].wanted = [NoPerms EXCEPT ![req[r].target] = "owner"]
  BY DEF Sharing, Reads
<1>2. req[r].wanted[u] = "none"
  BY <1>1 DEF NoPerms
<1>3. req[r].grants[u] \in {"none", GrantFor(req[r].wanted[u])}
  BY DEF Sharing, Collects
<1> QED
  BY <1>2, <1>3 DEF GrantFor

\* What the worker leaves of its own bucket.
LEMMA DriftOfMove ==
    ASSUME TypeOK, Sharing, SmallDrift, Volatile = {}, UniqueRows', NEW r \in Reqs, Moves(r),
           NEW n \in exists', n = req[r].name
    PROVE  Drift(n)'
<1> USE ConstantsAssumption
<1>0. /\ Busy(r) /\ req[r].solo /\ n \in Names
      /\ Reads(req[r]) /\ Pushed(req[r]) /\ Collects(req[r])
  BY MoverGoesOn DEF SmallDrift, Sharing, TypeOK, WellFormed, Busy
<1>1. CASE UNCHANGED <<name, perm, exists, policy, member>>
  BY <1>1 DEF SmallDrift, Drift, Enforced, RowNamed
<1>2. CASE req[r].pc = "rgw" /\ req[r].op = "create" /\ StoreBucket(n, req[r].grants)
           /\ UNCHANGED <<name, perm, member>>
  <2>1. policy'[n] = req[r].grants
    BY <1>0, <1>2 DEF StoreBucket, TypeOK
  <2>2. \A i \in Ids : name'[i] = n => perm'[i] = NoPerms
    BY <1>0, <1>2 DEF Reads
  <2>3. ASSUME NEW u \in Users \ {req[r].target}
        PROVE  /\ \A i \in Ids : name'[i] = n => policy'[n][u] = Enforced(i, u)'
               /\ policy'[n][u] = "none"
    <3>1. req[r].grants[u] = "none"
      BY <1>0, <1>2, CreatedGrants
    <3>2. NoPerms[u] = "none"
      BY DEF NoPerms
    <3> QED
      BY <2>1, <2>2, <3>1, <3>2 DEF Enforced, GrantFor
  <2> QED
    BY <2>3 DEF Drift
<1>3. CASE req[r].pc = "rgw" /\ req[r].op \in SharingOp /\ StoreBucket(n, req[r].grants)
           /\ UNCHANGED <<name, perm, member>>
  <2> PICK i : i = req[r].id
    OBVIOUS
  <2>1. policy'[n] = req[r].grants
    BY <1>0, <1>3 DEF StoreBucket, TypeOK
  <2>2. i \in Ids /\ name[i] = n /\ req[r].wanted = [perm[i] EXCEPT ![req[r].target] = req[r].level]
    BY <1>0, <1>3 DEF Reads, TypeOK, WellFormed
  <2>3. \A j \in Ids : name'[j] = n => j = i
    BY <1>0, <1>3, <2>2 DEF UniqueRows, Live
  <2>4. ASSUME NEW u \in Users \ {req[r].target}
        PROVE  policy'[n][u] = Enforced(i, u)'
    <3>1. req[r].grants[u] = Due(u, req[r].wanted[u])
      BY <1>0, <1>3 DEF Collects
    <3>2. req[r].wanted[u] = perm[i][u]
      BY <2>2 DEF TypeOK
    <3> QED
      BY <1>3, <2>1, <3>1, <3>2 DEF Enforced, Due
  <2>5. RowNamed(n)'
    BY <1>3, <2>2 DEF RowNamed
  <2> QED
    BY <2>3, <2>4, <2>5 DEF Drift
<1>4. ASSUME NEW i \in Ids, InsertBucket(r, i)
      PROVE  Drift(n)'
  <2>1. /\ req[r].op = "create" /\ req[r].pc = "db" /\ ~RowNamed(n)
        /\ UNCHANGED <<exists, policy, member>>
    BY <1>4 DEF InsertBucket, rgw
  <2>2. name'[i] = n /\ perm'[i] = [NoPerms EXCEPT ![req[r].target] = "owner"]
    BY <1>4 DEF InsertBucket, TypeOK
  <2>3. \A j \in Ids : name'[j] = n => j = i
    BY <1>0, <2>2 DEF UniqueRows, Live
  <2>4. policy'[n] = req[r].grants
    BY <1>0, <2>1 DEF Pushed
  <2>5. ASSUME NEW u \in Users \ {req[r].target}
        PROVE  policy'[n][u] = Enforced(i, u)'
    <3>1. req[r].grants[u] = "none"
      BY <1>0, <2>1, CreatedGrants
    <3>2. perm'[i][u] = "none"
      BY <2>2 DEF NoPerms
    <3> QED
      BY <2>4, <3>1, <3>2 DEF Enforced, GrantFor
  <2>6. RowNamed(n)'
    BY <2>2 DEF RowNamed
  <2> QED
    BY <2>3, <2>5, <2>6 DEF Drift
<1>5. CASE SaveShare(r) \/ DropShare(r)
  <2> PICK i : i = req[r].id
    OBVIOUS
  <2>1. i \in Ids /\ name'[i] = n /\ policy'[n] = req[r].grants /\ perm'[i] = req[r].wanted
    BY <1>0, <1>5, SavedAsPushed
  <2>2. \A j \in Ids : name'[j] = n => j = i
    BY <1>0, <2>1 DEF UniqueRows, Live
  <2>3. req[r].pc = "db" /\ req[r].op \in SharingOp /\ member' = member
    BY <1>5 DEF SaveShare, DropShare, SharingOp
  <2>4. \A u \in Users : req[r].grants[u] = Due(u, req[r].wanted[u])
    BY <1>0, <2>3 DEF Collects
  <2>5. \A u \in Users : policy'[n][u] = Enforced(i, u)'
    BY <2>1, <2>3, <2>4 DEF Enforced, Due
  <2>6. RowNamed(n)'
    BY <2>1 DEF RowNamed
  <2> QED
    BY <2>2, <2>5, <2>6 DEF Drift
<1>6. CASE RemoveBucket(n)
  BY <1>6 DEF RemoveBucket
<1>7. CASE DeleteRow(r)
  BY <1>0, <1>7 DEF DeleteRow, Pushed, rgw
<1> QED
  BY <1>1, <1>2, <1>3, <1>4, <1>5, <1>6, <1>7
  DEF Moves, RequestContinues, Abandon, LostReply, AtCall, SkipMember, ListUsers, CreateUser,
      CreateUserRefused, CreateBucket, UpdateBucket, DeleteBucket, CallRefused,
      InsertFails, UndoCreate, Compensate, django, rgw

LEMMA SmallDriftStep ==
    ASSUME \A r, s \in Reqs : r = s, Volatile = {}
    PROVE  TypeOK /\ Ownership /\ Sharing /\ SmallDrift /\ [Next]_vars => SmallDrift'
<1> SUFFICES ASSUME TypeOK, Ownership, Sharing, SmallDrift, [Next]_vars PROVE SmallDrift'
  OBVIOUS
<1>0. UniqueRows'
  BY UniqueRowsStep DEF SmallDrift
<1>1. ASSUME NEW r \in Reqs, RequestBegins(r)
      PROVE  SmallDrift'
  <2>1. PICK q : Start(r, q) /\ GoodRequest(q)
    BY <1>1, BeginTask
  <2>2. req'[r].solo
    BY <2>1 DEF Start, SharesBucket, GoodRequest, Request
  <2>3. UNCHANGED <<name, perm, exists, policy, member>>
    BY <1>1, BeginTask DEF django, rgw
  <2> QED
    BY <1>0, <2>2, <2>3 DEF SmallDrift, Drift, Enforced, RowNamed
<1>2. ASSUME NEW r \in Reqs, Moves(r)
      PROVE  SmallDrift'
  <2>1. req'[r].solo
    BY <1>2, MoverGoesOn DEF SmallDrift, SameTask, Idle
  <2>2. ASSUME NEW n \in exists' PROVE Drift(n)'
    <3>1. CASE n = req[r].name
      BY <1>0, <1>2, <2>2, <3>1, DriftOfMove
    <3>2. CASE n # req[r].name
      <4>1. n \in Names
        BY <2>2, TypeStep DEF TypeOK
      <4>2. BucketKept(n)
        BY <1>2, <3>2, <4>1, OtherBucketsKept DEF Sharing
      <4>3. Drift(n)
        BY <2>2, <4>2 DEF BucketKept, SmallDrift
      <4>4. member' = member
        BY <1>2
        DEF Moves, RequestContinues, Abandon, LostReply, SkipMember, ListUsers, CreateUser,
            CreateUserRefused, CreateBucket, UpdateBucket, DeleteBucket, CallRefused,
            InsertBucket, InsertFails, UndoCreate, DeleteRow, SaveShare, DropShare
      <4> QED
        BY <1>0, <4>1, <4>2, <4>3, <4>4, DriftStays, ConstantsAssumption
    <3> QED
      BY <3>1, <3>2
  <2> QED
    BY <1>0, <2>1, <2>2 DEF SmallDrift
<1>3. ASSUME NEW f \in Refreshers, RefreshStep(f)
      PROVE  SmallDrift'
  <2>1. UNCHANGED <<req, member, exists>>
    BY <1>3 DEF RefreshStep, RefreshList, RefreshAdopt, RefreshKnown, rgw
  <2>2. ASSUME NEW n \in exists PROVE Drift(n)'
    <3>1. n \in Names /\ Drift(n)
      BY DEF TypeOK, SmallDrift
    <3> QED
      BY <1>0, <1>3, <2>1, <3>1, RefreshKeepsBuckets, DriftStays, ConstantsAssumption
  <2> QED
    BY <1>0, <2>1, <2>2 DEF SmallDrift
<1>4. CASE UNCHANGED vars
  BY <1>0, <1>4 DEF vars, SmallDrift, Drift, Enforced, RowNamed
<1> QED
  BY <1>1, <1>2, <1>3, <1>4 DEF Next, Moves, ChangeMembership

\* With one request at a time and settled memberships, failed and half-done
\* sharing changes never pile up: the two sides differ about one user at most.
THEOREM DriftStaysSmall ==
    ASSUME \A r, s \in Reqs : r = s, Volatile = {}
    PROVE  Spec => []DriftAtMostOne
<1>1. Init => SmallDrift
  BY ConstantsAssumption DEF Init, SmallDrift, UniqueRows, Live, Idle
<1>2. TypeOK /\ SmallDrift => DriftAtMostOne
  <2> SUFFICES ASSUME SmallDrift, NEW i \in Ids, name[i] \in exists
               PROVE  Cardinality(Disagreeing(i)) <= 1
    BY DEF DriftAtMostOne
  <2>1. PICK x : \A u \in Users \ {x} : policy[name[i]][u] = Enforced(i, u)
    BY DEF SmallDrift, Drift
  <2>2. Disagreeing(i) = {} \/ Disagreeing(i) = {x}
    BY <2>1 DEF Disagreeing
  <2>3. Cardinality({}) = 0 /\ Cardinality({x}) = 1
    BY FS_EmptySet, FS_Singleton
  <2> QED
    BY <2>2, <2>3
<1>3. TypeOK /\ Ownership /\ Sharing /\ SmallDrift /\ [Next]_vars => SmallDrift'
  BY SmallDriftStep
<1> QED
  BY <1>1, <1>2, <1>3, SharingHolds, PTL DEF Spec
=============================================================================
