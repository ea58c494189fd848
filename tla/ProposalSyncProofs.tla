-------------------------- MODULE ProposalSyncProofs --------------------------
(***************************************************************************)
(* Proofs about ProposalSync: its type invariant, that no permission is    *)
(* invented, and what undisturbed logins and refreshes leave.              *)
(***************************************************************************)
EXTENDS ProposalSync, TLAPS

-----------------------------------------------------------------------------
(* Types *)

LoginOK(q) ==
    /\ q \in Login
    /\ q.pc # "idle" => q.user \in Users
    /\ q.pc = "write" => q.bucket \in Buckets
RefreshOK(q) ==
    /\ q \in Refresh
    /\ q.pc \in {"member", "code", "grant", "drop"} => q.user \in Users
MemberOK(row) ==
    /\ row \in Membership
    /\ row.role = "none" => row = NoMembership

Upstream == /\ listed \subseteq Users
            /\ rights \in [Users -> Rights] /\ ever \in [Users -> Rights]
            /\ \A u \in Users \ listed : rights[u] = NoRights
Members == member \in [Users -> Membership] /\ \A u \in Users : MemberOK(member[u])
Grants == grant \in [Users -> [Buckets -> Right \cup {"none"}]]
LoginsOK == login \in [Logins -> Login] /\ \A l \in Logins : LoginOK(login[l])
RefreshesOK ==
    refresh \in [Refreshers -> Refresh] /\ \A f \in Refreshers : RefreshOK(refresh[f])
UploadsOK == upload \in [Uploaders -> [busy: BOOLEAN, todo: SUBSET Users]]
Counts == tenant \in BOOLEAN /\ codes \in BOOLEAN /\ changes \in Nat /\ faults \in Nat
          /\ calm \subseteq Workers

LEMMA TypeParts ==
    TypeOK <=> /\ Upstream /\ Members /\ Grants /\ LoginsOK /\ RefreshesOK
               /\ UploadsOK /\ Counts
BY DEF TypeOK, Upstream, Members, Grants, LoginsOK, RefreshesOK, UploadsOK, Counts,
       LoginOK, RefreshOK, MemberOK

LEMMA TypePartsNext ==
    (Upstream /\ Members /\ Grants /\ LoginsOK /\ RefreshesOK /\ UploadsOK /\ Counts)'
    => TypeOK'
BY DEF TypeOK, Upstream, Members, Grants, LoginsOK, RefreshesOK, UploadsOK, Counts,
       LoginOK, RefreshOK, MemberOK

\* What a step leaves alone keeps its type.
LEMMA Untouched ==
    /\ Upstream /\ UNCHANGED <<listed, rights, ever>> => Upstream'
    /\ Members /\ UNCHANGED member => Members'
    /\ Grants /\ UNCHANGED grant => Grants'
    /\ LoginsOK /\ UNCHANGED login => LoginsOK'
    /\ RefreshesOK /\ UNCHANGED refresh => RefreshesOK'
    /\ UploadsOK /\ UNCHANGED upload => UploadsOK'
    /\ Counts /\ UNCHANGED <<tenant, codes, changes, faults, calm>> => Counts'
BY DEF Upstream, Members, Grants, LoginsOK, RefreshesOK, UploadsOK, Counts

LEMMA OneLogin ==
    ASSUME LoginsOK, NEW l \in Logins, NEW q, LoginOK(q),
           login' = [login EXCEPT ![l] = q]
    PROVE  LoginsOK'
BY DEF LoginsOK, LoginOK

LEMMA OneRefresh ==
    ASSUME RefreshesOK, NEW f \in Refreshers, NEW q, RefreshOK(q),
           refresh' = [refresh EXCEPT ![f] = q]
    PROVE  RefreshesOK'
BY DEF RefreshesOK, RefreshOK

LEMMA OneMember ==
    ASSUME Members, NEW u \in Users, NEW row, MemberOK(row),
           member' = [member EXCEPT ![u] = row]
    PROVE  Members'
BY DEF Members, MemberOK

LEMMA SmallTypes ==
    /\ LoginOK(NoLogin) /\ RefreshOK(NoRefresh) /\ MemberOK(NoMembership)
    /\ NotHeld \in Held
<1>1. NotHeld \in Held
  BY DEF NotHeld, Held, Right
<1>2. NoLogin \in Login
  BY <1>1 DEF NoLogin, Login, Right
<1>3. NoRefresh \in Refresh
  BY <1>1 DEF NoRefresh, Refresh, Rights, NoRights
<1>4. NoMembership \in Membership
  BY DEF NoMembership, Membership
<1> QED
  BY <1>1, <1>2, <1>3, <1>4 DEF LoginOK, RefreshOK, MemberOK, NoLogin, NoRefresh

LEMMA LoginTyped ==
    ASSUME LoginsOK, NEW l \in Logins
    PROVE  LoginOK(login[l]) /\ login[l] \in Login /\ login[l].held \in Held
BY DEF LoginsOK, LoginOK, Login

LEMMA RefreshTyped ==
    ASSUME RefreshesOK, NEW f \in Refreshers
    PROVE  RefreshOK(refresh[f]) /\ refresh[f] \in Refresh /\ refresh[f].held \in Held
BY DEF RefreshesOK, RefreshOK, Refresh

\* An upserted row is typed, exists, and can be held.
LEMMA UpsertTypes ==
    ASSUME NEW row, MemberOK(row), NEW role \in Right
    PROVE  /\ MemberOK(Upserted(row, role))
           /\ HeldOf(Upserted(row, role)) \in Held
           /\ Upserted(row, role).role = role /\ Upserted(row, role).active
           /\ Upserted(row, role).code = row.code
BY DEF MemberOK, Upserted, HeldOf, Membership, Held, Right

LEMMA RowChanges ==
    ASSUME NEW row, MemberOK(row), NEW v \in BOOLEAN
    PROVE  /\ row.role # "none" => MemberOK([row EXCEPT !.active = v])
           /\ row.role # "none" => MemberOK([row EXCEPT !.code = v])
           /\ [row EXCEPT !.active = v].role = row.role
           /\ [row EXCEPT !.code = v].role = row.role
BY DEF MemberOK, Membership

\* Only a row that is there is saved with another code: what is held was read
\* from a row, and rows stay.
LEMMA SaveCodeTypes ==
    ASSUME Members, NEW u \in Users, member[u].role # "none",
           NEW held \in Held, NEW code \in BOOLEAN, SaveCode(u, held, code)
    PROVE  Members'
<1>1. CASE code = held.code
  BY <1>1 DEF SaveCode, Members
<1>2. CASE code # held.code
  <2>1. MemberOK([member[u] EXCEPT !.code = code])
    BY DEF Members, MemberOK, Membership
  <2>2. member' = [member EXCEPT ![u] = [member[u] EXCEPT !.code = code]]
    BY <1>2 DEF SaveCode
  <2> QED
    BY <2>1, <2>2, OneMember
<1> QED
  BY <1>1, <1>2

\* What is to be saved was read from a row that is there.
Backed ==
    /\ \A l \in Logins :
         login[l].pc \in {"clear", "fill"} => member[login[l].user].role # "none"
    /\ \A f \in Refreshers :
         /\ refresh[f].pc \in {"code", "drop"} => member[refresh[f].user].role # "none"
         /\ refresh[f].pc \in {"sweep", "drop"} =>
              \A u \in refresh[f].todo : member[u].role # "none"
    /\ \A c \in Uploaders : \A u \in upload[c].todo : member[u].role # "none"
RowsStay == \A u \in Users : member[u].role # "none" => member'[u].role # "none"

\* A step of login l only, up to the membership or the grants of its user.
LEMMA LoginStepTypes ==
    ASSUME TypeOK, NEW l \in Logins, NEW q, LoginOK(q),
           login' = [login EXCEPT ![l] = q],
           UNCHANGED <<tenant, codes, listed, rights, refresh, upload, changes, ever>>,
           faults' \in Nat, calm' \subseteq Workers, Members', Grants'
    PROVE  TypeOK'
<1>1. LoginsOK'
  BY TypeParts, OneLogin
<1>2. Upstream' /\ RefreshesOK' /\ UploadsOK'
  BY TypeParts, Untouched
<1>3. Counts'
  BY TypeParts DEF Counts
<1> QED
  BY <1>1, <1>2, <1>3, TypePartsNext

LEMMA FaultType ==
    ASSUME TypeOK, Fault
    PROVE  faults' \in Nat
BY DEF TypeOK, Fault

LEMMA CalmTypes ==
    ASSUME TypeOK
    PROVE  \A w \in Workers : (Writes(w) \/ Starts(w) \/ calm' = calm \ {w}
                               \/ UNCHANGED calm) => calm' \subseteq Workers
BY DEF TypeOK, Writes, Starts

LEMMA LoginTypes ==
    ASSUME TypeOK, Backed, NEW l \in Logins,
           LoginStep(l) \/ LoginDies(l) \/ \E u \in Users : LoginBegins(l, u)
    PROVE  TypeOK' /\ RowsStay
<1> USE ProposalsAssumption
<1> DEFINE s == login[l]  u == s.user
<1>1. LoginOK(s) /\ s \in Login /\ s.held \in Held /\ s.due \in SUBSET (Buckets \X Right)
  BY TypeParts, LoginTyped DEF Login
<1>2. l \in Workers
  BY DEF Workers
<1>3. Members /\ Grants /\ faults \in Nat
  BY TypeParts DEF Counts
<1>4. ASSUME UNCHANGED member PROVE Members' /\ RowsStay
  BY <1>3, <1>4, Untouched DEF RowsStay
<1>5. ASSUME UNCHANGED grant PROVE Grants'
  BY <1>3, <1>5, Untouched
<1>6. \A w : LoginOK([s EXCEPT !.pc = "reconcile", !.due = {}, !.found = "none",
                               !.bucket = NoBucket])
             \/ s.pc = "idle"
  BY <1>1 DEF LoginOK, Login
<1>10. ASSUME NEW v \in Users, LoginBegins(l, v) PROVE TypeOK' /\ RowsStay
  <2> DEFINE q == [NoLogin EXCEPT !.user = v,
                     !.pc = IF v \in listed THEN "info" ELSE "reconcile"]
  <2>1. LoginOK(q)
    BY SmallTypes DEF LoginOK, Login, NoLogin
  <2>2. login' = [login EXCEPT ![l] = q]
    BY <1>10 DEF LoginBegins
  <2> HIDE DEF q
  <2> QED
    BY <1>2, <1>3, <1>4, <1>5, <1>10, <2>1, <2>2, LoginStepTypes, CalmTypes DEF LoginBegins
<1>11. CASE LoginReads(l)
  <2> DEFINE q == [s EXCEPT !.pc = "look", !.due = References(u), !.role = LoginRole(u)]
  <2>1. LoginOK(q)
    BY <1>1, <1>11 DEF LoginReads, LoginOK, Login, References, LoginRole, Right
  <2>2. login' = [login EXCEPT ![l] = q]
    BY <1>11 DEF LoginReads
  <2> HIDE DEF q
  <2> QED
    BY <1>2, <1>3, <1>4, <1>5, <1>11, <2>1, <2>2, LoginStepTypes, CalmTypes DEF LoginReads
<1>12. ASSUME NEW b \in Buckets, NEW p \in Right, LoginLooks(l, b, p)
       PROVE  TypeOK' /\ RowsStay
  <2> DEFINE q == [s EXCEPT !.pc = "write", !.due = @ \ {<<b, p>>}, !.bucket = b,
                            !.right = p, !.found = grant[u][b]]
  <2>1. u \in Users
    BY <1>1, <1>12 DEF LoginLooks, LoginOK
  <2>2. grant[u][b] \in {"none", "ro", "rw", "lost"}
    BY <1>3, <2>1 DEF Grants, Right
  <2>3. LoginOK(q)
    BY <1>1, <2>1, <2>2 DEF LoginOK, Login
  <2>4. login' = [login EXCEPT ![l] = q]
    BY <1>12 DEF LoginLooks
  <2> HIDE DEF q
  <2> QED
    BY <1>2, <1>3, <1>4, <1>5, <1>12, <2>3, <2>4, LoginStepTypes, CalmTypes DEF LoginLooks
<1>13. CASE LoginGrants(l)
  <2> DEFINE q == [s EXCEPT !.pc = "look", !.found = "none", !.bucket = NoBucket]
  <2>1. LoginOK(q)
    BY <1>1, <1>13 DEF LoginGrants, LoginOK, Login
  <2>2. login' = [login EXCEPT ![l] = q]
    BY <1>13 DEF LoginGrants
  <2>3. u \in Users /\ s.bucket \in Buckets /\ s.right \in Right
        /\ s.found \in {"none", "ro", "rw", "lost"}
    BY <1>1, <1>13 DEF LoginGrants, LoginOK, Login
  <2>4. Upgraded(s.found, s.right) # s.found =>
          Upgraded(s.found, s.right) \in Right
    BY <2>3 DEF Upgraded
  <2>5. Grants'
    BY <1>3, <1>5, <1>13, <2>3, <2>4 DEF LoginGrants, Grants
  <2>6. calm' \subseteq Workers
    BY <1>2, <1>13, CalmTypes DEF LoginGrants
  <2>7. UNCHANGED <<tenant, codes, listed, rights, member, refresh, upload,
                    changes, faults, ever>>
    BY <1>13 DEF LoginGrants
  <2> HIDE DEF q
  <2> QED
    BY <1>3, <1>4, <2>1, <2>2, <2>5, <2>6, <2>7, LoginStepTypes
<1>14. CASE LoginGrantConflicts(l) \/ LoginFails(l)
  <2> DEFINE q == [s EXCEPT !.pc = "reconcile", !.due = {}, !.found = "none",
                            !.bucket = NoBucket]
  <2>1. LoginOK(q)
    BY <1>1, <1>14 DEF LoginGrantConflicts, LoginFails, LoginOK, Login
  <2>2. login' = [login EXCEPT ![l] = q]
    BY <1>14 DEF LoginGrantConflicts, LoginFails, Fails
  <2>3. faults' \in Nat
    BY <1>3, <1>14, FaultType DEF LoginGrantConflicts, LoginFails
  <2>4. UNCHANGED <<tenant, codes, listed, rights, member, grant, refresh, upload,
                    changes, ever>> /\ calm' = calm \ {l}
    BY <1>14 DEF LoginGrantConflicts, LoginFails
  <2> HIDE DEF q
  <2> QED
    BY <1>2, <1>4, <1>5, <2>1, <2>2, <2>3, <2>4, LoginStepTypes, CalmTypes
<1>15. CASE LoginUpserts(l)
  <2> DEFINE row == Upserted(member[u], s.role)
             q == [s EXCEPT !.pc = "clear", !.held = HeldOf(row)]
  <2>1. u \in Users /\ s.role \in Right
    BY <1>1, <1>15 DEF LoginUpserts, LoginOK, Login
  <2>2. MemberOK(row) /\ HeldOf(row) \in Held /\ row.role = s.role
    BY <1>3, <2>1, UpsertTypes DEF Members
  <2>3. member' = [member EXCEPT ![u] = row] /\ member'[u] = row
    BY <1>3, <1>15, <2>1 DEF LoginUpserts, Members
  <2>4. LoginOK(q)
    BY <1>1, <2>1, <2>2 DEF LoginOK, Login
  <2>5. login' = [login EXCEPT ![l] = q]
    BY <1>15, <2>3 DEF LoginUpserts
  <2>6. RowsStay
    BY <1>3, <2>1, <2>2, <2>3 DEF RowsStay, Members, Right
  <2> HIDE DEF q, row
  <2>7. Members'
    BY <1>3, <2>1, <2>2, <2>3, OneMember
  <2> QED
    BY <1>2, <1>3, <1>5, <1>15, <2>4, <2>5, <2>6, <2>7, LoginStepTypes, CalmTypes DEF LoginUpserts
<1>16. CASE LoginClearsCode(l) \/ LoginFillsCode(l)
  <2>1. u \in Users /\ member[u].role # "none"
    BY <1>1, <1>16 DEF LoginClearsCode, LoginFillsCode, LoginOK, Backed
  <2>2. PICK code \in BOOLEAN : SaveCode(u, s.held, code)
    <3>1. Cleared(s.held) \in BOOLEAN /\ Assigned(u, s.held) \in BOOLEAN
      BY <1>1, TypeParts DEF Cleared, Assigned, Held, Counts
    <3> QED
      BY <1>16, <3>1 DEF LoginClearsCode, LoginFillsCode
  <2>3. Members'
    BY <1>1, <1>3, <2>1, <2>2, SaveCodeTypes
  <2>4. RowsStay
    BY <1>3, <2>1, <2>2 DEF RowsStay, SaveCode, Members, Membership
  <2>5. PICK q : LoginOK(q) /\ login' = [login EXCEPT ![l] = q]
    <3>1. LoginOK([s EXCEPT !.pc = "reconcile", !.ok = TRUE]) /\ LoginOK(NoLogin)
      BY <1>1, <2>1, SmallTypes DEF LoginOK, Login
    <3> QED
      BY <1>16, <3>1 DEF LoginClearsCode, LoginFillsCode
  <2>6. UNCHANGED <<tenant, codes, listed, rights, grant, refresh, upload,
                    changes, faults, ever>> /\ Writes(l)
    BY <1>16 DEF LoginClearsCode, LoginFillsCode
  <2> QED
    BY <1>2, <1>3, <1>5, <2>3, <2>4, <2>5, <2>6, LoginStepTypes, CalmTypes
<1>17. CASE LoginReconciles(l)
  <2> DEFINE q == [s EXCEPT !.pc = "code"]  row == Reconciled(member[u], s.ok)
  <2>1. u \in Users /\ s.ok \in BOOLEAN
    BY <1>1, <1>17 DEF LoginReconciles, LoginOK, Login
  <2>2. MemberOK(row) /\ (member[u].role # "none" => row.role # "none")
    <3>1. MemberOK(member[u])
      BY <1>3, <2>1 DEF Members
    <3>2. CASE s.ok = TRUE
      BY <3>1, <3>2 DEF MemberOK, Membership, Reconciled
    <3>3. CASE s.ok = FALSE
      BY <3>1, <3>3 DEF MemberOK, Membership, Reconciled
    <3> QED
      BY <2>1, <3>2, <3>3
  <2>3. member' = [member EXCEPT ![u] = row]
    BY <1>17 DEF LoginReconciles
  <2>4. LoginOK(q)
    BY <1>1, <2>1 DEF LoginOK, Login
  <2>5. login' = [login EXCEPT ![l] = q]
    BY <1>17 DEF LoginReconciles
  <2> HIDE DEF q, row
  <2>6. RowsStay
    BY <1>3, <2>1, <2>2, <2>3 DEF RowsStay, Members
  <2>7. Members'
    BY <1>3, <2>1, <2>2, <2>3, OneMember
  <2> QED
    BY <1>2, <1>3, <1>5, <1>17, <2>4, <2>5, <2>6, <2>7, LoginStepTypes, CalmTypes
    DEF LoginReconciles
<1>18. CASE LoginReadsMember(l)
  <2>1. u \in Users
    BY <1>1, <1>18 DEF LoginReadsMember, LoginOK
  <2>2. member[u].active => HeldOf(member[u]) \in Held
    BY <1>3, <2>1 DEF Members, MemberOK, Membership, NoMembership, HeldOf, Held
  <2>3. PICK q : LoginOK(q) /\ login' = [login EXCEPT ![l] = q]
    <3>1. member[u].active =>
            LoginOK([s EXCEPT !.pc = "fill", !.held = HeldOf(member[u])])
      BY <1>1, <2>1, <2>2 DEF LoginOK, Login
    <3> QED
      BY <1>18, <3>1, SmallTypes DEF LoginReadsMember
  <2> QED
    BY <1>2, <1>3, <1>4, <1>5, <1>18, <2>3, LoginStepTypes, CalmTypes DEF LoginReadsMember
<1>19. CASE LoginDies(l)
  BY <1>2, <1>4, <1>5, <1>19, SmallTypes, LoginStepTypes, CalmTypes, FaultType DEF LoginDies
<1> QED
  BY <1>10, <1>11, <1>12, <1>13, <1>14, <1>15, <1>16, <1>17, <1>18, <1>19 DEF LoginStep

\* A step of refresh f only, up to the tenant, its codes, the memberships, the
\* grants and what logins found of them.
LEMMA RefreshStepTypes ==
    ASSUME TypeOK, NEW f \in Refreshers, NEW q, RefreshOK(q),
           refresh' = [refresh EXCEPT ![f] = q],
           UNCHANGED <<listed, rights, upload, changes, ever>>,
           tenant' \in BOOLEAN, codes' \in BOOLEAN,
           faults' \in Nat, calm' \subseteq Workers, Members', Grants', LoginsOK'
    PROVE  TypeOK'
<1>1. RefreshesOK'
  BY TypeParts, OneRefresh
<1>2. Upstream' /\ UploadsOK'
  BY TypeParts, Untouched
<1>3. Counts'
  BY TypeParts DEF Counts
<1> QED
  BY <1>1, <1>2, <1>3, TypePartsNext

LEMMA LostTypes ==
    ASSUME LoginsOK, NEW u, NEW B, login' = Lost(u, B)
    PROVE  LoginsOK'
<1>1. ASSUME NEW l \in Logins
      PROVE  LoginOK([login[l] EXCEPT !.found = "lost"]) /\ LoginOK(login[l])
  BY LoginTyped DEF LoginOK, Login
<1>2. ASSUME NEW l \in Logins PROVE LoginOK(login'[l])
  BY <1>1 DEF Lost
<1> QED
  BY <1>2 DEF LoginsOK, LoginOK, Lost

LEMMA RefreshTypes ==
    ASSUME TypeOK, Backed, NEW f \in Refreshers, RefreshStep(f) \/ RefreshDies(f)
    PROVE  TypeOK' /\ RowsStay
<1> USE ProposalsAssumption
<1> DEFINE s == refresh[f]  u == s.user
<1>1. RefreshOK(s) /\ s \in Refresh /\ s.held \in Held /\ s.read \in Rights
      /\ s.todo \subseteq Users /\ s.due \subseteq Buckets
  BY TypeParts, RefreshTyped DEF Refresh
<1>2. f \in Workers
  BY DEF Workers
<1>3. Members /\ Grants /\ LoginsOK /\ faults \in Nat /\ listed \subseteq Users
      /\ tenant \in BOOLEAN /\ codes \in BOOLEAN /\ rights \in [Users -> Rights]
  BY TypeParts DEF Counts, Upstream
<1>4. ASSUME UNCHANGED member PROVE Members' /\ RowsStay
  BY <1>3, <1>4, Untouched DEF RowsStay
<1>5. ASSUME UNCHANGED grant PROVE Grants'
  BY <1>3, <1>5, Untouched
<1>6. ASSUME UNCHANGED login PROVE LoginsOK'
  BY <1>3, <1>6, Untouched
<1>7. faults' \in Nat \/ ~(UNCHANGED faults \/ Fault)
  BY <1>3, FaultType
<1>10. CASE CreateTenant(f) \/ BeginRefresh(f)
  <2>1. \A pc \in {"load", "list"} : RefreshOK([NoRefresh EXCEPT !.pc = pc])
    BY SmallTypes DEF RefreshOK, Refresh, NoRefresh
  <2>2. PICK q : RefreshOK(q) /\ refresh' = [refresh EXCEPT ![f] = q]
    BY <1>10, <2>1 DEF CreateTenant, BeginRefresh
  <2>3. tenant' \in BOOLEAN /\ Starts(f)
        /\ UNCHANGED <<codes, listed, rights, member, grant, login, upload,
                       changes, faults, ever>>
    BY <1>3, <1>10 DEF CreateTenant, BeginRefresh
  <2> QED
    BY <1>2, <1>3, <1>4, <1>5, <1>6, <2>2, <2>3, RefreshStepTypes, CalmTypes
<1>11. CASE LoadMappings(f)
  <2>1. RefreshOK([s EXCEPT !.pc = "list"])
    BY <1>1 DEF RefreshOK, Refresh
  <2>2. codes' \in BOOLEAN /\ (UNCHANGED faults \/ Fault)
    BY <1>3, <1>11 DEF LoadMappings
  <2> QED
    BY <1>2, <1>3, <1>4, <1>5, <1>6, <1>7, <1>11, <2>1, <2>2, RefreshStepTypes, CalmTypes
    DEF LoadMappings
<1>12. CASE ListBuckets(f)
  <2>1. RefreshOK([s EXCEPT !.pc = "users", !.seen = Automatic])
        /\ RefreshOK([s EXCEPT !.pc = "users"])
    BY <1>1 DEF RefreshOK, Refresh
  <2>2. PICK q : RefreshOK(q) /\ refresh' = [refresh EXCEPT ![f] = q]
    BY <1>12, <2>1 DEF ListBuckets
  <2>3. (UNCHANGED faults \/ Fault) /\ (UNCHANGED calm \/ calm' = calm \ {f})
        /\ UNCHANGED <<tenant, codes, listed, rights, member, grant, login, upload,
                       changes, ever>>
    BY <1>12 DEF ListBuckets
  <2> QED
    BY <1>2, <1>3, <1>4, <1>5, <1>6, <1>7, <2>2, <2>3, RefreshStepTypes, CalmTypes
<1>13. CASE ListUsers(f)
  <2>1. RefreshOK([s EXCEPT !.pc = "info", !.listed = listed, !.todo = listed])
    BY <1>1, <1>3 DEF RefreshOK, Refresh
  <2> QED
    BY <1>2, <1>3, <1>4, <1>5, <1>6, <1>13, <2>1, RefreshStepTypes, CalmTypes DEF ListUsers
<1>14. ASSUME NEW v \in Users, ReadUser(f, v) PROVE TypeOK' /\ RowsStay
  <2>1. rights[v] \in Rights
    BY <1>3
  <2>2. KnownRights(f, v) \in Rights
    BY <2>1 DEF KnownRights, Rights
  <2>3. RefreshOK([s EXCEPT !.pc = "member", !.todo = s.todo \ {v}, !.user = v,
                            !.read = KnownRights(f, v)])
    BY <1>1, <2>2 DEF RefreshOK, Refresh
  <2> QED
    BY <1>2, <1>3, <1>4, <1>5, <1>6, <1>14, <2>3, RefreshStepTypes, CalmTypes DEF ReadUser
<1>15. ASSUME NEW v \in Users, SkipUser(f, v) PROVE TypeOK' /\ RowsStay
  <2>1. RefreshOK([s EXCEPT !.todo = s.todo \ {v}])
    BY <1>1 DEF RefreshOK, Refresh
  <2>2. UNCHANGED faults \/ Fault
    BY <1>15 DEF SkipUser
  <2> QED
    BY <1>2, <1>3, <1>4, <1>5, <1>6, <1>7, <1>15, <2>1, <2>2, RefreshStepTypes, CalmTypes
    DEF SkipUser
<1>16. CASE UpsertMember(f)
  <2> DEFINE row == Upserted(member[u], ReadRole(s.read))
             q == [s EXCEPT !.pc = "code", !.held = HeldOf(row)]
  <2>1. u \in Users /\ ReadRole(s.read) \in Right
    BY <1>1, <1>16 DEF UpsertMember, RefreshOK, ReadRole, Right
  <2>2. MemberOK(row) /\ HeldOf(row) \in Held /\ row.role = ReadRole(s.read)
    BY <1>3, <2>1, UpsertTypes DEF Members
  <2>3. member' = [member EXCEPT ![u] = row] /\ member'[u] = row
    BY <1>3, <1>16, <2>1 DEF UpsertMember, Members
  <2>4. RefreshOK(q)
    BY <1>1, <2>1, <2>2 DEF RefreshOK, Refresh
  <2>5. refresh' = [refresh EXCEPT ![f] = q]
    BY <1>16, <2>3 DEF UpsertMember
  <2>6. RowsStay
    BY <1>3, <2>1, <2>2, <2>3 DEF RowsStay, Members, Right
  <2> HIDE DEF q, row
  <2>7. Members'
    BY <1>3, <2>1, <2>2, <2>3, OneMember
  <2> QED
    BY <1>2, <1>3, <1>5, <1>6, <1>16, <2>4, <2>5, <2>6, <2>7, RefreshStepTypes, CalmTypes
    DEF UpsertMember
<1>17. CASE RefreshCode(f)
  <2>1. u \in Users /\ member[u].role # "none"
    BY <1>1, <1>17 DEF RefreshCode, RefreshOK, Backed
  <2>2. Assigned(u, s.held) \in BOOLEAN
    BY <1>1, <1>3 DEF Assigned, Held
  <2>3. Members'
    BY <1>1, <1>3, <1>17, <2>1, <2>2, SaveCodeTypes DEF RefreshCode
  <2>4. RowsStay
    BY <1>3, <1>17, <2>1, <2>2 DEF RowsStay, SaveCode, Members, Membership, RefreshCode
  <2>5. RefreshOK([s EXCEPT !.pc = "grant", !.due = {b \in Buckets : s.read[b] # {}}])
    BY <1>1, <2>1 DEF RefreshOK, Refresh
  <2> QED
    BY <1>2, <1>3, <1>5, <1>6, <1>17, <2>3, <2>4, <2>5, RefreshStepTypes, CalmTypes
    DEF RefreshCode
<1>18. ASSUME NEW b \in Buckets, GrantBucket(f, b) PROVE TypeOK' /\ RowsStay
  <2>1. AlsoReadOnly(s.read[b]) \in Right
    BY DEF AlsoReadOnly, Right
  <2>2. Grants'
    BY <1>3, <1>18, <2>1 DEF GrantBucket, Grants
  <2>3. RefreshOK([s EXCEPT !.due = s.due \ {b}])
    BY <1>1 DEF RefreshOK, Refresh
  <2> QED
    BY <1>2, <1>3, <1>4, <1>6, <1>18, <2>2, <2>3, RefreshStepTypes, CalmTypes
    DEF GrantBucket
<1>19. CASE PruneGrants(f)
  <2>1. Grants'
    BY <1>3, <1>19 DEF PruneGrants, Grants
  <2>2. LoginsOK'
    BY <1>3, <1>19, LostTypes DEF PruneGrants
  <2>3. NoRights \in Rights
    BY DEF NoRights, Rights
  <2>4. RefreshOK([s EXCEPT !.pc = "info", !.user = Nobody, !.read = NoRights,
                            !.held = NotHeld])
    BY <1>1, <2>3, SmallTypes DEF RefreshOK, Refresh
  <2> QED
    BY <1>2, <1>3, <1>4, <1>19, <2>1, <2>2, <2>4, RefreshStepTypes, CalmTypes DEF PruneGrants
<1>20. CASE FindStale(f)
  <2>1. RefreshOK([s EXCEPT !.pc = "sweep", !.todo = StaleMembers(f), !.listed = {}])
    BY <1>1 DEF RefreshOK, Refresh, StaleMembers
  <2> QED
    BY <1>2, <1>3, <1>4, <1>5, <1>6, <1>20, <2>1, RefreshStepTypes, CalmTypes DEF FindStale
<1>21. ASSUME NEW v \in Users, DropGrants(f, v) PROVE TypeOK' /\ RowsStay
  <2>1. Grants'
    BY <1>3, <1>21 DEF DropGrants, Grants
  <2>2. LoginsOK'
    BY <1>3, <1>21, LostTypes DEF DropGrants
  <2>3. RefreshOK([s EXCEPT !.pc = "drop", !.todo = s.todo \ {v}, !.user = v])
    BY <1>1 DEF RefreshOK, Refresh
  <2> QED
    BY <1>2, <1>3, <1>4, <1>21, <2>1, <2>2, <2>3, RefreshStepTypes, CalmTypes DEF DropGrants
<1>22. CASE Deactivate(f)
  <2>1. u \in Users /\ member[u].role # "none"
    BY <1>1, <1>22 DEF Deactivate, RefreshOK, Backed
  <2>2. MemberOK([member[u] EXCEPT !.active = FALSE])
    BY <1>3, <2>1, RowChanges DEF Members
  <2>3. member' = [member EXCEPT ![u] = [member[u] EXCEPT !.active = FALSE]]
    BY <1>22 DEF Deactivate
  <2>4. Members'
    BY <1>3, <2>1, <2>2, <2>3, OneMember
  <2>5. RowsStay
    BY <1>3, <2>1, <2>3 DEF RowsStay, Members, Membership
  <2>6. RefreshOK([s EXCEPT !.pc = "sweep", !.user = Nobody])
    BY <1>1 DEF RefreshOK, Refresh
  <2> QED
    BY <1>2, <1>3, <1>5, <1>6, <1>22, <2>4, <2>5, <2>6, RefreshStepTypes, CalmTypes
    DEF Deactivate
<1>23. CASE EndRefresh(f)
  BY <1>2, <1>3, <1>4, <1>5, <1>6, <1>23, SmallTypes, RefreshStepTypes, CalmTypes
  DEF EndRefresh
<1>24. CASE RefreshDies(f)
  BY <1>2, <1>3, <1>4, <1>5, <1>6, <1>24, SmallTypes, RefreshStepTypes, CalmTypes, FaultType
  DEF RefreshDies
<1> QED
  BY <1>10, <1>11, <1>12, <1>13, <1>14, <1>15, <1>16, <1>17, <1>18, <1>19, <1>20, <1>21,
     <1>22, <1>23, <1>24 DEF RefreshStep

LEMMA OtherTypes ==
    ASSUME TypeOK, Backed,
           \/ \E c \in Uploaders : CsvReads(c) \/ CsvStep(c) \/ CsvDies(c)
           \/ RestartLoadsMappings
           \/ \E u \in Users : UpstreamChanges(u)
    PROVE  TypeOK' /\ RowsStay
<1> USE ProposalsAssumption
<1>1. Upstream /\ Members /\ Grants /\ LoginsOK /\ RefreshesOK /\ UploadsOK /\ Counts
  BY TypeParts
<1>2. ASSUME UNCHANGED member PROVE Members' /\ RowsStay
  BY <1>1, <1>2, Untouched DEF RowsStay
<1>3. ASSUME NEW w, Writes(w) PROVE calm' \subseteq Workers
  BY <1>1, <1>3 DEF Counts, Writes
<1>4. ASSUME NEW c \in Uploaders, CsvReads(c) \/ CsvDies(c) PROVE TypeOK' /\ RowsStay
  <2>1. UploadsOK'
    <3>1. \A B \in BOOLEAN, T \in SUBSET Users :
            upload' = [upload EXCEPT ![c] = [busy |-> B, todo |-> T]] => UploadsOK'
      BY <1>1 DEF UploadsOK
    <3>2. {u \in InCsv : codes /\ WriteCapable(u) /\ ~member[u].code} \in SUBSET Users
      OBVIOUS
    <3> QED
      BY <1>4, <3>1, <3>2 DEF CsvReads, CsvDies
  <2>2. UNCHANGED <<tenant, codes, listed, rights, member, grant, login, refresh,
                    changes, ever, calm>> /\ faults' \in Nat
    BY <1>1, <1>4, FaultType DEF CsvReads, CsvDies, Counts
  <2>3. Counts'
    BY <1>1, <2>2 DEF Counts
  <2> QED
    BY <1>1, <1>2, <2>1, <2>2, <2>3, Untouched, TypePartsNext
<1>5. ASSUME NEW c \in Uploaders, NEW u \in Users, CsvSaves(c, u)
      PROVE  TypeOK' /\ RowsStay
  <2>1. member[u].role # "none" /\ u \in Users
    BY <1>5 DEF CsvSaves, Backed
  <2>2. MemberOK([member[u] EXCEPT !.code = TRUE])
    BY <1>1, <2>1 DEF Members, MemberOK, Membership
  <2>3. member' = [member EXCEPT ![u] = [member[u] EXCEPT !.code = TRUE]]
    BY <1>5 DEF CsvSaves
  <2>4. Members'
    BY <1>1, <2>1, <2>2, <2>3, OneMember
  <2>5. RowsStay
    BY <1>1, <2>1, <2>3 DEF RowsStay, Members, Membership
  <2>6. UploadsOK'
    BY <1>1, <1>5 DEF CsvSaves, UploadsOK
  <2>7. Counts'
    BY <1>1, <1>3, <1>5 DEF CsvSaves, Counts
  <2>8. UNCHANGED <<listed, rights, ever, grant, login, refresh>>
    BY <1>5 DEF CsvSaves
  <2> QED
    BY <1>1, <2>4, <2>5, <2>6, <2>7, <2>8, Untouched, TypePartsNext
<1>6. ASSUME NEW c \in Uploaders, CsvClears(c) PROVE TypeOK' /\ RowsStay
  <2>1. ASSUME NEW u \in Users
        PROVE  MemberOK(member'[u]) /\ member'[u].role = member[u].role
    <3>1. MemberOK(member[u])
      BY <1>1 DEF Members
    <3>2. member[u].code => member[u].role # "none"
      BY <3>1 DEF MemberOK, NoMembership
    <3> QED
      BY <1>6, <3>1, <3>2, RowChanges DEF CsvClears
  <2>2. Members' /\ RowsStay
    BY <1>6, <2>1 DEF CsvClears, Members, MemberOK, RowsStay
  <2>3. UploadsOK'
    BY <1>1, <1>6 DEF CsvClears, UploadsOK
  <2>4. Counts'
    BY <1>1, <1>3, <1>6 DEF CsvClears, Counts
  <2>5. UNCHANGED <<listed, rights, ever, grant, login, refresh>>
    BY <1>6 DEF CsvClears
  <2> QED
    BY <1>1, <2>2, <2>3, <2>4, <2>5, Untouched, TypePartsNext
<1>7. CASE RestartLoadsMappings
  <2>1. Counts'
    BY <1>1, <1>7 DEF RestartLoadsMappings, Counts
  <2>2. UNCHANGED <<listed, rights, ever, member, grant, login, refresh, upload>>
    BY <1>7 DEF RestartLoadsMappings
  <2> QED
    BY <1>1, <1>2, <2>1, <2>2, Untouched, TypePartsNext
<1>8. ASSUME NEW u \in Users, UpstreamChanges(u) PROVE TypeOK' /\ RowsStay
  <2>1. NoRights \in Rights
    BY DEF NoRights, Rights
  <2>2. listed' \subseteq Users /\ rights' \in [Users -> Rights]
        /\ \A v \in Users \ listed' : rights'[v] = NoRights
    <3>1. CASE listed' = listed \cup {u} /\ UNCHANGED rights
      BY <1>1, <3>1 DEF Upstream
    <3>2. CASE listed' = listed \ {u} /\ rights' = [rights EXCEPT ![u] = NoRights]
      BY <1>1, <2>1, <3>2 DEF Upstream
    <3>3. CASE /\ u \in listed /\ UNCHANGED listed
               /\ \E b \in Buckets, R \in SUBSET Right : rights' = [rights EXCEPT ![u][b] = R]
      BY <1>1, <3>3 DEF Upstream, Rights
    <3> QED
      BY <1>8, <3>1, <3>2, <3>3 DEF UpstreamChanges
  <2>3. ever' \in [Users -> Rights]
    <3>1. [b \in Buckets |-> ever[u][b] \cup rights'[u][b]] \in Rights
      BY <1>1, <2>2 DEF Upstream, Rights
    <3> QED
      BY <1>1, <1>8, <3>1 DEF UpstreamChanges, Upstream
  <2>4. Upstream'
    BY <2>2, <2>3 DEF Upstream
  <2>5. Counts'
    BY <1>1, <1>8 DEF UpstreamChanges, Counts
  <2>6. UNCHANGED <<member, grant, login, refresh, upload>>
    BY <1>8 DEF UpstreamChanges
  <2> QED
    BY <1>1, <1>2, <2>4, <2>5, <2>6, Untouched, TypePartsNext
<1> QED
  BY <1>4, <1>5, <1>6, <1>7, <1>8 DEF CsvStep

-----------------------------------------------------------------------------
(* The type invariant *)

\* What a login or a refresh is about to grant is what RGWSquared said once.
LoginSourced(q) ==
    /\ q.pc = "idle" => q.due = {}
    /\ \A d \in q.due : d[1] \in Automatic /\ d[2] \in ever[q.user][d[1]]
    /\ q.pc = "write" => q.bucket \in Automatic /\ q.right \in ever[q.user][q.bucket]
RefreshSourced(q) ==
    /\ q.seen \subseteq Automatic
    /\ q.pc \in {"member", "code", "grant"} =>
         \A b \in Buckets : q.read[b] # {} =>
           b \in Automatic /\ q.read[b] \subseteq ever[q.user][b]
    /\ q.pc = "grant" => \A b \in q.due : q.read[b] # {}
Remembered == \A u \in Users, b \in Buckets : rights[u][b] \subseteq ever[u][b]
Sourced ==
    /\ Remembered
    /\ \A l \in Logins : LoginSourced(login[l])
    /\ \A f \in Refreshers : RefreshSourced(refresh[f])

LoginBacked(q) == q.pc \in {"clear", "fill"} => member[q.user].role # "none"
RefreshBacked(q) ==
    /\ q.pc \in {"code", "drop"} => member[q.user].role # "none"
    /\ q.pc \in {"sweep", "drop"} => \A u \in q.todo : member[u].role # "none"
UploadsBacked == \A c \in Uploaders : \A u \in upload[c].todo : member[u].role # "none"

LEMMA BackedParts ==
    Backed <=> /\ \A l \in Logins : LoginBacked(login[l])
               /\ \A f \in Refreshers : RefreshBacked(refresh[f])
               /\ UploadsBacked
BY DEF Backed, LoginBacked, RefreshBacked, UploadsBacked

IInv == TypeOK /\ Backed /\ Sourced /\ NothingInvented

\* Rows stay, and what RGWSquared said stays said, so that what holds of a
\* worker's memory goes on to hold.
LEMMA MemoryStays ==
    ASSUME TypeOK, RowsStay, UNCHANGED ever
    PROVE  /\ \A l \in Logins :
                 /\ LoginBacked(login[l]) => LoginBacked(login[l])'
                    \/ login'[l] # login[l]
                 /\ LoginSourced(login[l]) => LoginSourced(login[l])'
                    \/ login'[l] # login[l]
           /\ \A f \in Refreshers :
                 /\ RefreshBacked(refresh[f]) => RefreshBacked(refresh[f])'
                    \/ refresh'[f] # refresh[f]
                 /\ RefreshSourced(refresh[f]) => RefreshSourced(refresh[f])'
                    \/ refresh'[f] # refresh[f]
<1>1. ASSUME NEW l \in Logins, login'[l] = login[l]
      PROVE  /\ LoginBacked(login[l]) => LoginBacked(login[l])'
             /\ LoginSourced(login[l]) => LoginSourced(login[l])'
  <2>1. login[l].pc # "idle" => login[l].user \in Users
    BY DEF TypeOK
  <2> QED
    BY <1>1, <2>1 DEF LoginBacked, LoginSourced, RowsStay
<1>2. ASSUME NEW f \in Refreshers, refresh'[f] = refresh[f]
      PROVE  /\ RefreshBacked(refresh[f]) => RefreshBacked(refresh[f])'
             /\ RefreshSourced(refresh[f]) => RefreshSourced(refresh[f])'
  <2>1. refresh[f].pc \in {"member", "code", "grant", "drop"} => refresh[f].user \in Users
    BY DEF TypeOK
  <2>2. refresh[f].todo \subseteq Users
    BY DEF TypeOK, Refresh
  <2> QED
    BY <1>2, <2>1, <2>2 DEF RefreshBacked, RefreshSourced, RowsStay
<1> QED
  BY <1>1, <1>2

LEMMA UploadsStay ==
    ASSUME TypeOK, RowsStay, UploadsBacked, UNCHANGED upload
    PROVE  UploadsBacked'
BY DEF TypeOK, RowsStay, UploadsBacked

\* What a step puts into a worker's memory is good afterwards.
LoginGood(q) ==
    /\ q.pc \in {"clear", "fill"} => member'[q.user].role # "none"
    /\ q.pc = "idle" => q.due = {}
    /\ \A d \in q.due : d[1] \in Automatic /\ d[2] \in ever'[q.user][d[1]]
    /\ q.pc = "write" => q.bucket \in Automatic /\ q.right \in ever'[q.user][q.bucket]
RefreshGood(q) ==
    /\ q.pc \in {"code", "drop"} => member'[q.user].role # "none"
    /\ q.pc \in {"sweep", "drop"} => \A u \in q.todo : member'[u].role # "none"
    /\ q.seen \subseteq Automatic
    /\ q.pc \in {"member", "code", "grant"} =>
         \A b \in Buckets : q.read[b] # {} =>
           b \in Automatic /\ q.read[b] \subseteq ever'[q.user][b]
    /\ q.pc = "grant" => \A b \in q.due : q.read[b] # {}

\* A step of one login keeps the invariant if what it holds then is good.
LEMMA OneLoginKeeps ==
    ASSUME IInv, RowsStay, NEW l \in Logins, NEW q,
           login' = [login EXCEPT ![l] = q],
           LoginGood(q),
           UNCHANGED <<refresh, upload, rights, ever>>
    PROVE  Backed' /\ Sourced'
<1>1. \A k \in Logins : login'[k] = IF k = l THEN q ELSE login[k]
  BY DEF IInv, TypeOK
<1>2. \A k \in Logins : LoginBacked(login[k])' /\ LoginSourced(login[k])'
  <2>1. ASSUME NEW k \in Logins, k # l
        PROVE  LoginBacked(login[k])' /\ LoginSourced(login[k])'
    BY <1>1, <2>1, MemoryStays, BackedParts DEF IInv, Sourced
  <2>2. LoginBacked(login[l])' /\ LoginSourced(login[l])'
    BY <1>1 DEF LoginBacked, LoginSourced, LoginGood
  <2> QED
    BY <2>1, <2>2
<1>3. \A f \in Refreshers : RefreshBacked(refresh[f])' /\ RefreshSourced(refresh[f])'
  BY MemoryStays, BackedParts DEF IInv, Sourced
<1>4. Remembered'
  BY DEF IInv, Sourced, Remembered
<1>5. UploadsBacked'
  BY UploadsStay, BackedParts DEF IInv
<1> QED
  BY <1>2, <1>3, <1>4, <1>5 DEF Backed, LoginBacked, RefreshBacked, UploadsBacked, Sourced

\* A step of one refresh; a row it deletes may be one that logins found.
FoundOnly == \A l \in Logins :
    /\ login'[l].pc = login[l].pc /\ login'[l].user = login[l].user
    /\ login'[l].due = login[l].due
    /\ login'[l].bucket = login[l].bucket /\ login'[l].right = login[l].right

LEMMA OneRefreshKeeps ==
    ASSUME IInv, RowsStay, NEW f \in Refreshers, NEW q,
           refresh' = [refresh EXCEPT ![f] = q],
           RefreshGood(q), FoundOnly,
           UNCHANGED <<upload, rights, ever>>
    PROVE  Backed' /\ Sourced'
<1>1. \A k \in Refreshers : refresh'[k] = IF k = f THEN q ELSE refresh[k]
  BY DEF IInv, TypeOK
<1>2. \A k \in Refreshers : RefreshBacked(refresh[k])' /\ RefreshSourced(refresh[k])'
  <2>1. ASSUME NEW k \in Refreshers, k # f
        PROVE  RefreshBacked(refresh[k])' /\ RefreshSourced(refresh[k])'
    BY <1>1, <2>1, MemoryStays, BackedParts DEF IInv, Sourced
  <2>2. RefreshBacked(refresh[f])' /\ RefreshSourced(refresh[f])'
    BY <1>1 DEF RefreshBacked, RefreshSourced, RefreshGood
  <2> QED
    BY <2>1, <2>2
<1>3. \A l \in Logins : LoginBacked(login[l])' /\ LoginSourced(login[l])'
  <2>1. ASSUME NEW l \in Logins PROVE LoginBacked(login[l])' /\ LoginSourced(login[l])'
    <3>1. LoginBacked(login[l]) /\ LoginSourced(login[l])
      BY BackedParts DEF IInv, Sourced
    <3>2. login[l].pc # "idle" => login[l].user \in Users
      BY DEF IInv, TypeOK
    <3> QED
      BY <3>1, <3>2 DEF FoundOnly, LoginBacked, LoginSourced, RowsStay
  <2> QED
    BY <2>1
<1>4. Remembered'
  BY DEF IInv, Sourced, Remembered
<1>5. UploadsBacked'
  BY UploadsStay, BackedParts DEF IInv
<1> QED
  BY <1>2, <1>3, <1>4, <1>5 DEF Backed, LoginBacked, RefreshBacked, UploadsBacked, Sourced

-----------------------------------------------------------------------------
(* The steps *)

LEMMA SameGrants ==
    ASSUME NothingInvented, UNCHANGED <<grant, ever>>
    PROVE  NothingInvented'
BY DEF NothingInvented

LEMMA LoginKeeps ==
    ASSUME IInv, NEW l \in Logins,
           LoginStep(l) \/ LoginDies(l) \/ \E u \in Users : LoginBegins(l, u)
    PROVE  IInv'
<1> USE ProposalsAssumption
<1> DEFINE s == login[l]  u == s.user
<1>1. TypeOK /\ Backed /\ Sourced /\ NothingInvented
  BY DEF IInv
<1>2. TypeOK' /\ RowsStay
  BY <1>1, LoginTypes
<1>3. LoginOK(s) /\ LoginBacked(s) /\ LoginSourced(s)
  BY <1>1, TypeParts, LoginTyped, BackedParts DEF Sourced
<1>4. login \in [Logins -> Login] /\ Members /\ Members'
  BY <1>1, <1>2, TypeParts DEF TypeOK, Members, MemberOK
<1>5. LoginGood(NoLogin)
  BY DEF LoginGood, NoLogin
<1>6. ASSUME NEW q, login' = [login EXCEPT ![l] = q], LoginGood(q),
             UNCHANGED <<refresh, upload, rights, ever>>, NothingInvented'
      PROVE  IInv'
  BY <1>2, <1>6, OneLoginKeeps DEF IInv
<1>10. ASSUME NEW v \in Users, LoginBegins(l, v) PROVE IInv'
  <2> DEFINE q == [NoLogin EXCEPT !.user = v,
                     !.pc = IF v \in listed THEN "info" ELSE "reconcile"]
  <2>1. q.pc \in {"info", "reconcile"} /\ q.due = {}
    BY DEF NoLogin
  <2>2. LoginGood(q)
    BY <2>1 DEF LoginBacked, LoginSourced, LoginGood
  <2>3. login' = [login EXCEPT ![l] = q]
    BY <1>10 DEF LoginBegins
  <2> HIDE DEF q
  <2>4. UNCHANGED <<refresh, upload, rights, ever, grant>>
    BY <1>10 DEF LoginBegins
  <2> QED
    BY <1>1, <1>6, <2>2, <2>3, <2>4, SameGrants
<1>11. CASE LoginReads(l)
  <2> DEFINE q == [s EXCEPT !.pc = "look", !.due = References(u), !.role = LoginRole(u)]
  <2>1. q.pc = "look" /\ q.due = References(u) /\ q.user = u /\ u \in Users
    BY <1>3, <1>11 DEF LoginReads, LoginOK, Login
  <2>2. UNCHANGED <<refresh, upload, rights, ever, grant>>
    BY <1>11 DEF LoginReads
  <2>3. \A d \in References(u) : d[1] \in Automatic /\ d[2] \in ever[u][d[1]]
    BY <1>1, <2>1 DEF References, Sourced, Remembered
  <2>4. login' = [login EXCEPT ![l] = q]
    BY <1>11 DEF LoginReads
  <2> HIDE DEF q
  <2>5. LoginGood(q)
    BY <2>1, <2>2, <2>3 DEF LoginBacked, LoginSourced, LoginGood
  <2> QED
    BY <1>1, <1>6, <2>2, <2>4, <2>5, SameGrants
<1>12. ASSUME NEW b \in Buckets, NEW p \in Right, LoginLooks(l, b, p) PROVE IInv'
  <2> DEFINE q == [s EXCEPT !.pc = "write", !.due = s.due \ {<<b, p>>}, !.bucket = b,
                            !.right = p, !.found = grant[u][b]]
  <2>1. q.pc = "write" /\ q.due \subseteq s.due /\ q.user = u /\ q.bucket = b
        /\ q.right = p
    BY <1>3 DEF LoginOK, Login
  <2>2. UNCHANGED <<refresh, upload, rights, ever, grant>>
    BY <1>12 DEF LoginLooks
  <2>3. <<b, p>> \in s.due
    BY <1>12 DEF LoginLooks
  <2>4. b \in Automatic /\ p \in ever[u][b]
    BY <1>3, <2>3 DEF LoginSourced
  <2>5. login' = [login EXCEPT ![l] = q]
    BY <1>12 DEF LoginLooks
  <2> HIDE DEF q
  <2>6. LoginGood(q)
    BY <1>3, <2>1, <2>2, <2>4 DEF LoginBacked, LoginSourced, LoginGood
  <2> QED
    BY <1>1, <1>6, <2>2, <2>5, <2>6, SameGrants
<1>13. CASE LoginGrants(l)
  <2> DEFINE q == [s EXCEPT !.pc = "look", !.found = "none", !.bucket = NoBucket]
  <2>1. q.pc = "look" /\ q.due = s.due /\ q.user = u
    BY <1>3 DEF LoginOK, Login
  <2>2. UNCHANGED <<refresh, upload, rights, ever>>
    BY <1>13 DEF LoginGrants
  <2>3. login' = [login EXCEPT ![l] = q]
    BY <1>13 DEF LoginGrants
  <2>4. u \in Users /\ s.bucket \in Automatic /\ s.right \in ever[u][s.bucket]
    BY <1>3, <1>13 DEF LoginGrants, LoginOK, LoginSourced
  <2>5. UNCHANGED grant \/ grant' = [grant EXCEPT ![u][s.bucket] = s.right]
    BY <1>13 DEF LoginGrants, Upgraded
  <2>8. grant \in [Users -> [Buckets -> Right \cup {"none"}]]
    BY <1>1 DEF TypeOK
  <2>9. \A v \in Users, b \in Buckets :
          \/ grant'[v][b] = grant[v][b]
          \/ v = u /\ b = s.bucket /\ grant'[v][b] = s.right
    BY <2>5, <2>8
  <2>6. NothingInvented'
    BY <1>1, <2>2, <2>4, <2>9 DEF NothingInvented
  <2> HIDE DEF q
  <2>7. LoginGood(q)
    BY <1>3, <2>1, <2>2 DEF LoginBacked, LoginSourced, LoginGood
  <2> QED
    BY <1>6, <2>2, <2>3, <2>6, <2>7
<1>14. CASE LoginGrantConflicts(l) \/ LoginFails(l)
  <2> DEFINE q == [s EXCEPT !.pc = "reconcile", !.due = {}, !.found = "none",
                            !.bucket = NoBucket]
  <2>1. q.pc = "reconcile" /\ q.due = {}
    BY <1>3 DEF LoginOK, Login
  <2>2. UNCHANGED <<refresh, upload, rights, ever, grant>>
    BY <1>14 DEF LoginGrantConflicts, LoginFails
  <2>3. login' = [login EXCEPT ![l] = q]
    BY <1>14 DEF LoginGrantConflicts, LoginFails, Fails
  <2> HIDE DEF q
  <2>4. LoginGood(q)
    BY <2>1 DEF LoginBacked, LoginSourced, LoginGood
  <2> QED
    BY <1>1, <1>6, <2>2, <2>3, <2>4, SameGrants
<1>15. CASE LoginUpserts(l)
  <2> DEFINE q == [s EXCEPT !.pc = "clear", !.held = HeldOf(member'[u])]
  <2>1. q.pc = "clear" /\ q.due = s.due /\ q.user = u /\ u \in Users /\ s.role \in Right
    BY <1>3, <1>15 DEF LoginOK, Login, LoginUpserts
  <2>2. UNCHANGED <<refresh, upload, rights, ever, grant>>
    BY <1>15 DEF LoginUpserts
  <2>3. login' = [login EXCEPT ![l] = q]
    BY <1>15 DEF LoginUpserts
  <2>4. member'[u] = Upserted(member[u], s.role) /\ MemberOK(member[u])
    BY <1>4, <1>15, <2>1 DEF LoginUpserts, Members
  <2>5. member'[u].role # "none"
    BY <2>1, <2>4, UpsertTypes DEF Right
  <2> HIDE DEF q
  <2>6. LoginGood(q)
    BY <1>3, <2>1, <2>2, <2>5 DEF LoginBacked, LoginSourced, LoginGood
  <2> QED
    BY <1>1, <1>6, <2>2, <2>3, <2>6, SameGrants
<1>16. CASE LoginClearsCode(l)
  <2> DEFINE q == [s EXCEPT !.pc = "reconcile", !.ok = TRUE]
  <2>1. q.pc = "reconcile" /\ q.due = s.due /\ q.user = u
    BY <1>3 DEF LoginOK, Login
  <2>2. UNCHANGED <<refresh, upload, rights, ever, grant>>
    BY <1>16 DEF LoginClearsCode
  <2>3. login' = [login EXCEPT ![l] = q]
    BY <1>16 DEF LoginClearsCode
  <2> HIDE DEF q
  <2>4. LoginGood(q)
    BY <1>3, <2>1, <2>2 DEF LoginBacked, LoginSourced, LoginGood
  <2> QED
    BY <1>1, <1>6, <2>2, <2>3, <2>4, SameGrants
<1>17. CASE LoginReconciles(l)
  <2> DEFINE q == [s EXCEPT !.pc = "code"]
  <2>1. q.pc = "code" /\ q.due = s.due /\ q.user = u
    BY <1>3 DEF LoginOK, Login
  <2>2. UNCHANGED <<refresh, upload, rights, ever, grant>>
    BY <1>17 DEF LoginReconciles
  <2>3. login' = [login EXCEPT ![l] = q]
    BY <1>17 DEF LoginReconciles
  <2> HIDE DEF q
  <2>4. LoginGood(q)
    BY <1>3, <2>1, <2>2 DEF LoginBacked, LoginSourced, LoginGood
  <2> QED
    BY <1>1, <1>6, <2>2, <2>3, <2>4, SameGrants
<1>18. CASE LoginReadsMember(l)
  <2>1. UNCHANGED <<refresh, upload, rights, ever, grant, member>>
    BY <1>18 DEF LoginReadsMember
  <2>2. CASE member[u].active
    <3> DEFINE q == [s EXCEPT !.pc = "fill", !.held = HeldOf(member[u])]
    <3>1. q.pc = "fill" /\ q.due = s.due /\ q.user = u /\ u \in Users
      BY <1>3, <1>18 DEF LoginOK, Login, LoginReadsMember
    <3>2. login' = [login EXCEPT ![l] = q]
      BY <1>18, <2>2 DEF LoginReadsMember
    <3>3. member[u].role # "none"
      BY <1>4, <2>2, <3>1 DEF Members, MemberOK, NoMembership
    <3> HIDE DEF q
    <3>4. LoginGood(q)
      BY <1>3, <2>1, <3>1, <3>3 DEF LoginBacked, LoginSourced, LoginGood
    <3> QED
      BY <1>1, <1>6, <2>1, <3>2, <3>4, SameGrants
  <2>3. CASE ~member[u].active
    <3>1. login' = [login EXCEPT ![l] = NoLogin]
      BY <1>18, <2>3 DEF LoginReadsMember
    <3> QED
      BY <1>1, <1>5, <1>6, <2>1, <3>1, SameGrants
  <2> QED
    BY <2>2, <2>3
<1>19. CASE LoginFillsCode(l) \/ LoginDies(l)
  <2>1. UNCHANGED <<refresh, upload, rights, ever, grant>>
        /\ login' = [login EXCEPT ![l] = NoLogin]
    BY <1>19 DEF LoginFillsCode, LoginDies
  <2> QED
    BY <1>1, <1>5, <1>6, <2>1, SameGrants
<1> QED
  BY <1>10, <1>11, <1>12, <1>13, <1>14, <1>15, <1>16, <1>17, <1>18, <1>19 DEF LoginStep

LEMMA LostOnly ==
    ASSUME TypeOK, NEW u, NEW B, login' = Lost(u, B)
    PROVE  FoundOnly
<1>1. ASSUME NEW l \in Logins
      PROVE  LET q == [login[l] EXCEPT !.found = "lost"] IN
             /\ q.pc = login[l].pc /\ q.user = login[l].user /\ q.due = login[l].due
             /\ q.bucket = login[l].bucket /\ q.right = login[l].right
  BY DEF TypeOK, Login
<1> QED
  BY <1>1 DEF FoundOnly, Lost

LEMMA RefreshKeeps ==
    ASSUME IInv, NEW f \in Refreshers, RefreshStep(f) \/ RefreshDies(f)
    PROVE  IInv'
<1> USE ProposalsAssumption
<1> DEFINE s == refresh[f]  u == s.user
<1>1. TypeOK /\ Backed /\ Sourced /\ NothingInvented
  BY DEF IInv
<1>2. TypeOK' /\ RowsStay
  BY <1>1, RefreshTypes
<1>3. RefreshOK(s) /\ RefreshBacked(s) /\ RefreshSourced(s)
  BY <1>1, TypeParts, RefreshTyped, BackedParts DEF Sourced
<1>4. Members /\ Members' /\ Grants
  BY <1>1, <1>2, TypeParts DEF TypeOK, Members, MemberOK
<1>5. UNCHANGED login => FoundOnly
  BY DEF FoundOnly
<1>6. ASSUME NEW q, refresh' = [refresh EXCEPT ![f] = q], RefreshGood(q), FoundOnly, UNCHANGED <<upload, rights, ever>>,
             NothingInvented'
      PROVE  IInv'
  BY <1>2, <1>6, OneRefreshKeeps DEF IInv
<1>7. \A pc \in {"idle", "load", "list"} :
        RefreshGood([NoRefresh EXCEPT !.pc = pc])
  BY DEF RefreshBacked, RefreshSourced, RefreshGood, NoRefresh
<1>8. NoRefresh = [NoRefresh EXCEPT !.pc = "idle"]
  BY DEF NoRefresh
<1>10. CASE CreateTenant(f) \/ BeginRefresh(f) \/ EndRefresh(f) \/ RefreshDies(f)
  <2>1. PICK q : /\ refresh' = [refresh EXCEPT ![f] = q]
                 /\ RefreshGood(q)
    BY <1>7, <1>8, <1>10 DEF CreateTenant, BeginRefresh, EndRefresh, RefreshDies
  <2>2. UNCHANGED <<login, upload, rights, ever, grant>>
    BY <1>10 DEF CreateTenant, BeginRefresh, EndRefresh, RefreshDies
  <2> QED
    BY <1>1, <1>5, <1>6, <2>1, <2>2, SameGrants
<1>11. CASE LoadMappings(f) \/ ListBuckets(f) \/ ListUsers(f)
  <2>1. PICK q : /\ refresh' = [refresh EXCEPT ![f] = q]
                 /\ q.pc \in {"list", "users", "info"}
                 /\ q.seen \subseteq Automatic
    <3> DEFINE q1 == [s EXCEPT !.pc = "list"]
               q2 == [s EXCEPT !.pc = "users", !.seen = Automatic]
               q3 == [s EXCEPT !.pc = "users"]
               q4 == [s EXCEPT !.pc = "info", !.listed = listed, !.todo = listed]
    <3>1. \A q \in {q1, q2, q3, q4} :
            q.pc \in {"list", "users", "info"} /\ q.seen \subseteq Automatic
      BY <1>3 DEF RefreshOK, Refresh, RefreshSourced
    <3>2. \E q \in {q1, q2, q3, q4} : refresh' = [refresh EXCEPT ![f] = q]
      BY <1>11 DEF LoadMappings, ListBuckets, ListUsers
    <3> HIDE DEF q1, q2, q3, q4
    <3> QED
      BY <3>1, <3>2
  <2>2. RefreshGood(q)
    BY <2>1 DEF RefreshBacked, RefreshSourced, RefreshGood
  <2>3. UNCHANGED <<login, upload, rights, ever, grant>>
    BY <1>11 DEF LoadMappings, ListBuckets, ListUsers
  <2> QED
    BY <1>1, <1>5, <1>6, <2>1, <2>2, <2>3, SameGrants
<1>14. ASSUME NEW v \in Users, ReadUser(f, v) PROVE IInv'
  <2> DEFINE q == [s EXCEPT !.pc = "member", !.todo = s.todo \ {v}, !.user = v,
                            !.read = KnownRights(f, v)]
  <2>1. q.pc = "member" /\ q.user = v /\ q.read = KnownRights(f, v) /\ q.seen = s.seen
    BY <1>3 DEF RefreshOK, Refresh
  <2>2. UNCHANGED <<login, upload, rights, ever, grant>>
    BY <1>14 DEF ReadUser
  <2>3. \A b \in Buckets : KnownRights(f, v)[b] # {} =>
          b \in Automatic /\ KnownRights(f, v)[b] \subseteq ever[v][b]
    BY <1>1, <1>3 DEF KnownRights, RefreshSourced, Sourced, Remembered
  <2>4. refresh' = [refresh EXCEPT ![f] = q]
    BY <1>14 DEF ReadUser
  <2> HIDE DEF q
  <2>5. RefreshGood(q)
    BY <1>3, <2>1, <2>2, <2>3 DEF RefreshBacked, RefreshSourced, RefreshGood
  <2> QED
    BY <1>1, <1>5, <1>6, <2>2, <2>4, <2>5, SameGrants
<1>15. ASSUME NEW v \in Users, SkipUser(f, v) PROVE IInv'
  <2> DEFINE q == [s EXCEPT !.todo = s.todo \ {v}]
  <2>1. q.pc = "info" /\ q.seen = s.seen
    BY <1>3, <1>15 DEF RefreshOK, Refresh, SkipUser
  <2>2. UNCHANGED <<login, upload, rights, ever, grant>>
    BY <1>15 DEF SkipUser
  <2>3. refresh' = [refresh EXCEPT ![f] = q]
    BY <1>15 DEF SkipUser
  <2> HIDE DEF q
  <2>4. RefreshGood(q)
    BY <1>3, <2>1 DEF RefreshBacked, RefreshSourced, RefreshGood
  <2> QED
    BY <1>1, <1>5, <1>6, <2>2, <2>3, <2>4, SameGrants
<1>16. CASE UpsertMember(f)
  <2> DEFINE q == [s EXCEPT !.pc = "code", !.held = HeldOf(member'[u])]
  <2>1. q.pc = "code" /\ q.user = u /\ q.read = s.read /\ q.seen = s.seen /\ u \in Users
    BY <1>3, <1>16 DEF RefreshOK, Refresh, UpsertMember
  <2>2. UNCHANGED <<login, upload, rights, ever, grant>>
    BY <1>16 DEF UpsertMember
  <2>3. refresh' = [refresh EXCEPT ![f] = q]
    BY <1>16 DEF UpsertMember
  <2>4. member'[u] = Upserted(member[u], ReadRole(s.read)) /\ MemberOK(member[u])
    BY <1>4, <1>16, <2>1 DEF UpsertMember, Members
  <2>5. ReadRole(s.read) \in Right
    BY DEF ReadRole, Right
  <2>6. member'[u].role # "none"
    BY <2>4, <2>5, UpsertTypes DEF Right
  <2> HIDE DEF q
  <2>7. RefreshGood(q)
    BY <1>3, <1>16, <2>1, <2>2, <2>6 DEF RefreshBacked, RefreshSourced, RefreshGood, UpsertMember
  <2> QED
    BY <1>1, <1>5, <1>6, <2>2, <2>3, <2>7, SameGrants
<1>17. CASE RefreshCode(f)
  <2> DEFINE q == [s EXCEPT !.pc = "grant", !.due = {b \in Buckets : s.read[b] # {}}]
  <2>1. q.pc = "grant" /\ q.user = u /\ q.read = s.read /\ q.seen = s.seen
        /\ q.due = {b \in Buckets : s.read[b] # {}}
    BY <1>3 DEF RefreshOK, Refresh
  <2>2. UNCHANGED <<login, upload, rights, ever, grant>>
    BY <1>17 DEF RefreshCode
  <2>3. refresh' = [refresh EXCEPT ![f] = q]
    BY <1>17 DEF RefreshCode
  <2> HIDE DEF q
  <2>4. RefreshGood(q)
    BY <1>3, <1>17, <2>1, <2>2 DEF RefreshBacked, RefreshSourced, RefreshGood, RefreshCode
  <2> QED
    BY <1>1, <1>5, <1>6, <2>2, <2>3, <2>4, SameGrants
<1>18. ASSUME NEW b \in Buckets, GrantBucket(f, b) PROVE IInv'
  <2> DEFINE q == [s EXCEPT !.due = s.due \ {b}]
  <2>1. q.pc = "grant" /\ q.user = u /\ q.read = s.read /\ q.seen = s.seen
        /\ q.due \subseteq s.due /\ u \in Users /\ b \in s.due
    BY <1>3, <1>18 DEF RefreshOK, Refresh, GrantBucket
  <2>2. UNCHANGED <<login, upload, rights, ever>>
        /\ grant' = [grant EXCEPT ![u][b] = AlsoReadOnly(s.read[b])]
    BY <1>18 DEF GrantBucket
  <2>3. refresh' = [refresh EXCEPT ![f] = q]
    BY <1>18 DEF GrantBucket
  <2>4. s.read[b] # {} /\ s.read[b] \subseteq Right
    BY <1>3, <1>18, <2>1 DEF RefreshSourced, GrantBucket, RefreshOK, Refresh, Rights
  <2>5. AlsoReadOnly(s.read[b]) \in s.read[b]
    BY <2>4 DEF AlsoReadOnly, Right
  <2>6. b \in Automatic /\ AlsoReadOnly(s.read[b]) \in ever[u][b]
    BY <1>3, <1>18, <2>4, <2>5 DEF RefreshSourced, GrantBucket
  <2>7. NothingInvented'
    BY <1>1, <1>4, <2>1, <2>2, <2>6 DEF NothingInvented, Grants
  <2> HIDE DEF q
  <2>8. RefreshGood(q)
    BY <1>3, <1>18, <2>1, <2>2 DEF RefreshBacked, RefreshSourced, RefreshGood, GrantBucket
  <2> QED
    BY <1>5, <1>6, <2>2, <2>3, <2>7, <2>8
<1>19. CASE PruneGrants(f)
  <2> DEFINE q == [s EXCEPT !.pc = "info", !.user = Nobody, !.read = NoRights,
                            !.held = NotHeld]
  <2>1. q.pc = "info" /\ q.seen = s.seen
    BY <1>3 DEF RefreshOK, Refresh
  <2>2. UNCHANGED <<upload, rights, ever>> /\ FoundOnly
    BY <1>1, <1>19, LostOnly DEF PruneGrants
  <2>3. refresh' = [refresh EXCEPT ![f] = q]
    BY <1>19 DEF PruneGrants
  <2>4. \A v \in Users, b \in Buckets : grant'[v][b] \in {"none", grant[v][b]}
    BY <1>4, <1>19 DEF PruneGrants, Grants
  <2>5. NothingInvented'
    BY <1>1, <2>2, <2>4 DEF NothingInvented
  <2> HIDE DEF q
  <2>6. RefreshGood(q)
    BY <1>3, <2>1 DEF RefreshBacked, RefreshSourced, RefreshGood
  <2> QED
    BY <1>6, <2>2, <2>3, <2>5, <2>6
<1>20. CASE FindStale(f)
  <2> DEFINE q == [s EXCEPT !.pc = "sweep", !.todo = StaleMembers(f), !.listed = {}]
  <2>1. q.pc = "sweep" /\ q.seen = s.seen /\ q.todo = StaleMembers(f)
    BY <1>3 DEF RefreshOK, Refresh
  <2>2. UNCHANGED <<login, upload, rights, ever, grant, member>>
    BY <1>20 DEF FindStale
  <2>3. refresh' = [refresh EXCEPT ![f] = q]
    BY <1>20 DEF FindStale
  <2>4. \A v \in StaleMembers(f) : member[v].role # "none"
    BY <1>4 DEF StaleMembers, Members, MemberOK, NoMembership
  <2> HIDE DEF q
  <2>5. RefreshGood(q)
    BY <1>3, <2>1, <2>2, <2>4 DEF RefreshBacked, RefreshSourced, RefreshGood
  <2> QED
    BY <1>1, <1>5, <1>6, <2>2, <2>3, <2>5, SameGrants
<1>21. ASSUME NEW v \in Users, DropGrants(f, v) PROVE IInv'
  <2> DEFINE q == [s EXCEPT !.pc = "drop", !.todo = s.todo \ {v}, !.user = v]
  <2>1. q.pc = "drop" /\ q.seen = s.seen /\ q.user = v /\ q.todo \subseteq s.todo
    BY <1>3 DEF RefreshOK, Refresh
  <2>2. UNCHANGED <<upload, rights, ever, member>> /\ FoundOnly
    BY <1>1, <1>21, LostOnly DEF DropGrants
  <2>3. refresh' = [refresh EXCEPT ![f] = q]
    BY <1>21 DEF DropGrants
  <2>4. \A w \in Users, b \in Buckets : grant'[w][b] \in {"none", grant[w][b]}
    BY <1>4, <1>21 DEF DropGrants, Grants
  <2>5. NothingInvented'
    BY <1>1, <2>2, <2>4 DEF NothingInvented
  <2>6. member[v].role # "none" /\ \A w \in s.todo : member[w].role # "none"
    BY <1>3, <1>21 DEF DropGrants, RefreshBacked
  <2> HIDE DEF q
  <2>7. RefreshGood(q)
    BY <1>3, <2>1, <2>2, <2>6 DEF RefreshBacked, RefreshSourced, RefreshGood
  <2> QED
    BY <1>6, <2>2, <2>3, <2>5, <2>7
<1>22. CASE Deactivate(f)
  <2> DEFINE q == [s EXCEPT !.pc = "sweep", !.user = Nobody]
  <2>1. q.pc = "sweep" /\ q.seen = s.seen /\ q.todo = s.todo /\ s.todo \subseteq Users
    BY <1>3 DEF RefreshOK, Refresh
  <2>2. UNCHANGED <<login, upload, rights, ever, grant>>
    BY <1>22 DEF Deactivate
  <2>3. refresh' = [refresh EXCEPT ![f] = q]
    BY <1>22 DEF Deactivate
  <2>4. \A v \in s.todo : member[v].role # "none"
    BY <1>3, <1>22 DEF Deactivate, RefreshBacked
  <2>5. \A v \in s.todo : member'[v].role # "none"
    BY <1>2, <2>1, <2>4 DEF RowsStay
  <2> HIDE DEF q
  <2>6. RefreshGood(q)
    BY <1>3, <2>1, <2>5 DEF RefreshSourced, RefreshGood
  <2> QED
    BY <1>1, <1>5, <1>6, <2>2, <2>3, <2>6, SameGrants
<1> QED
  BY <1>10, <1>11, <1>14, <1>15, <1>16, <1>17, <1>18, <1>19, <1>20, <1>21, <1>22
  DEF RefreshStep

\* The other steps: the CSV, the mapping file, RGWSquared itself.
LEMMA OtherKeeps ==
    ASSUME IInv,
           \/ \E c \in Uploaders : CsvReads(c) \/ CsvStep(c) \/ CsvDies(c)
           \/ RestartLoadsMappings
           \/ \E u \in Users : UpstreamChanges(u)
    PROVE  IInv'
<1>1. TypeOK /\ Backed /\ Sourced /\ NothingInvented
  BY DEF IInv
<1>2. TypeOK' /\ RowsStay
  BY <1>1, OtherTypes
<1>3. UNCHANGED <<login, refresh, grant>>
  BY DEF CsvStep, CsvReads, CsvSaves, CsvClears, CsvDies, RestartLoadsMappings,
         UpstreamChanges
<1>4. \A u \in Users, b \in Buckets :
        ever[u][b] \subseteq ever'[u][b] /\ rights'[u][b] \subseteq ever'[u][b]
  <2>1. CASE UNCHANGED <<rights, ever>>
    BY <1>1, <2>1 DEF Sourced, Remembered
  <2>2. ASSUME NEW v \in Users, UpstreamChanges(v)
        PROVE  \A u \in Users, b \in Buckets :
                 ever[u][b] \subseteq ever'[u][b] /\ rights'[u][b] \subseteq ever'[u][b]
    <3>1. rights \in [Users -> Rights] /\ ever \in [Users -> Rights]
      BY <1>1 DEF TypeOK
    <3>2. ever' = [ever EXCEPT ![v] = [b \in Buckets |-> ever[v][b] \cup rights'[v][b]]]
      BY <2>2 DEF UpstreamChanges
    <3>3. \A u \in Users : u # v => rights'[u] = rights[u] /\ ever'[u] = ever[u]
      BY <2>2, <3>1, <3>2 DEF UpstreamChanges
    <3>4. \A b \in Buckets : ever'[v][b] = ever[v][b] \cup rights'[v][b]
      BY <3>1, <3>2
    <3> QED
      BY <1>1, <3>3, <3>4 DEF Sourced, Remembered
  <2> QED
    BY <2>1, <2>2 DEF CsvStep, CsvReads, CsvSaves, CsvClears, CsvDies,
                      RestartLoadsMappings
<1>5. UploadsBacked'
  <2>1. ASSUME NEW d \in Uploaders, NEW u \in upload'[d].todo
        PROVE  u \in Users /\ member[u].role # "none"
    <3>1. \A c \in Uploaders : upload[c].todo \subseteq Users
      BY <1>1 DEF TypeOK
    <3>2. \A c \in Uploaders : \A w \in upload[c].todo : w \in Users /\ member[w].role # "none"
      BY <1>1, <3>1, BackedParts DEF UploadsBacked
    <3>3. upload'[d].todo \subseteq upload[d].todo
          \/ \A w \in upload'[d].todo : w \in InCsv /\ WriteCapable(w)
      BY <1>1 DEF TypeOK, CsvStep, CsvReads, CsvSaves, CsvClears, CsvDies,
                  RestartLoadsMappings, UpstreamChanges
    <3> QED
      BY <3>2, <3>3, ProposalsAssumption DEF WriteCapable
  <2> QED
    BY <1>2, <2>1 DEF RowsStay, UploadsBacked
<1>6. ASSUME NEW l \in Logins PROVE LoginBacked(login[l])' /\ LoginSourced(login[l])'
  <2>1. LoginBacked(login[l]) /\ LoginSourced(login[l])
    BY <1>1, BackedParts DEF Sourced
  <2>2. login[l].pc # "idle" => login[l].user \in Users
    BY <1>1 DEF TypeOK
  <2>3. login[l].due \subseteq Buckets \X Right
        /\ (login[l].pc = "write" => login[l].bucket \in Buckets)
    BY <1>1 DEF TypeOK, Login
  <2> QED
    BY <1>2, <1>3, <1>4, <2>1, <2>2, <2>3 DEF LoginBacked, LoginSourced, RowsStay
<1>7. ASSUME NEW f \in Refreshers
      PROVE  RefreshBacked(refresh[f])' /\ RefreshSourced(refresh[f])'
  <2>1. RefreshBacked(refresh[f]) /\ RefreshSourced(refresh[f])
    BY <1>1, BackedParts DEF Sourced
  <2>2. refresh[f].pc \in {"member", "code", "grant", "drop"} => refresh[f].user \in Users
    BY <1>1 DEF TypeOK
  <2>3. refresh[f].todo \subseteq Users
    BY <1>1 DEF TypeOK, Refresh
  <2> QED
    BY <1>2, <1>3, <1>4, <2>1, <2>2, <2>3 DEF RefreshBacked, RefreshSourced, RowsStay
<1>8. NothingInvented'
  BY <1>1, <1>3, <1>4 DEF NothingInvented
<1>9. Backed' /\ Sourced'
  BY <1>4, <1>5, <1>6, <1>7
  DEF Backed, Sourced, Remembered, LoginBacked, RefreshBacked, UploadsBacked
<1> QED
  BY <1>2, <1>8, <1>9 DEF IInv

LEMMA InitKeeps == Init => IInv
<1> SUFFICES ASSUME Init PROVE IInv
  OBVIOUS
<1>1. \A l \in Logins : login[l] = NoLogin
  BY DEF Init
<1>2. \A f \in Refreshers : refresh[f] = NoRefresh
  BY DEF Init
<1>3. TypeOK
  <2>1. rights \in [Users -> Rights]
    BY ProposalsAssumption DEF Init, Rights, Right, NoRights
  <2>2. Members /\ Grants
    BY SmallTypes DEF Init, Members, Grants, MemberOK, NoMembership
  <2>3. LoginsOK /\ RefreshesOK
    BY <1>1, <1>2, SmallTypes DEF Init, LoginsOK, RefreshesOK, LoginOK, RefreshOK
  <2>4. Upstream /\ UploadsOK /\ Counts
    BY <2>1, ProposalsAssumption DEF Init, Upstream, UploadsOK, Counts, Workers
  <2> QED
    BY <2>2, <2>3, <2>4, TypeParts
<1>4. Backed
  BY <1>1, <1>2 DEF Init, Backed, NoLogin, NoRefresh
<1>5. Sourced
  BY <1>1, <1>2 DEF Init, Sourced, Remembered, LoginSourced, RefreshSourced, NoLogin,
                    NoRefresh
<1>6. NothingInvented
  BY DEF Init, NothingInvented
<1> QED
  BY <1>3, <1>4, <1>5, <1>6 DEF IInv

LEMMA StepKeeps == IInv /\ [Next]_vars => IInv'
<1> SUFFICES ASSUME IInv, [Next]_vars PROVE IInv'
  OBVIOUS
<1>1. CASE Next
  BY <1>1, LoginKeeps, RefreshKeeps, OtherKeeps DEF Next
<1>2. CASE UNCHANGED vars
  BY <1>2 DEF vars, IInv, TypeOK, Backed, Sourced, Remembered, LoginSourced,
              RefreshSourced, NothingInvented
<1> QED
  BY <1>1, <1>2

THEOREM InvariantHolds == Spec => []IInv
BY InitKeeps, StepKeeps, PTL DEF Spec

\* In every state, for any users, buckets and numbers of workers: a right is
\* kept for listed users only, a revoked or coded membership is one that
\* exists, a worker in the middle of something knows for whom.
THEOREM ProposalTypeCorrect == Spec => []TypeOK
<1>1. IInv => TypeOK
  BY DEF IInv
<1> QED
  BY <1>1, InvariantHolds, PTL

\* For any users, buckets and numbers of logins, refreshes and CSV uploads, any
\* failures and any changes in RGWSquared: a permission names a proposal bucket
\* and a right that RGWSquared gave this very user at some time, however stale
\* the answer from which a login or a refresh (pipeline.py:646, sync_service.py:449)
\* wrote it.
THEOREM GrantsNotInvented == Spec => []NothingInvented
<1>1. IInv => NothingInvented
  BY DEF IInv
<1> QED
  BY <1>1, InvariantHolds, PTL
-----------------------------------------------------------------------------
(***************************************************************************)
(* Undisturbed work.  While nobody interferes, a login has covered every   *)
(* reference that is not due any more, and a refresh mirrored every user   *)
(* that it has been through.                                               *)
(***************************************************************************)

\* A grant that shows at least right p.
Covers(g, p) == g # "none" /\ (p = "rw" => g = "rw")
Reaches(u, due) ==
    \A b \in Automatic, p \in Right :
        p \in rights[u][b] /\ <<b, p>> \notin due => Covers(grant[u][b], p)

Admitted(u) == member[u].active /\ member[u].role = LoginRole(u)

Shows(q) ==
    /\ q.pc \in {"look", "write"} => q.role = LoginRole(q.user)
    /\ q.pc = "look" => Reaches(q.user, q.due)
    /\ q.pc = "write" => /\ Reaches(q.user, q.due \cup {<<q.bucket, q.right>>})
                         /\ q.found = grant[q.user][q.bucket]
    /\ q.pc = "clear" => Reaches(q.user, {}) /\ Admitted(q.user)
    /\ q.pc \in {"clear", "fill"} => q.held = HeldOf(member[q.user])
    /\ q.ok /\ q.pc \in {"reconcile", "code", "fill"} =>
         /\ Reaches(q.user, {}) /\ Admitted(q.user)
         /\ member[q.user].code => member[q.user].role = "rw"
    /\ q.ok /\ q.pc \in {"code", "fill"} => ~member[q.user].revoked

\* The rights a refresh reads of a user, once it has the buckets.
ProposalRights(u) == [b \in Buckets |-> IF b \in Automatic THEN rights[u][b] ELSE {}]
Granted(u, B) == \A b \in B : ProposalRights(u)[b] # {}
                              => grant[u][b] = AlsoReadOnly(ProposalRights(u)[b])

Mirrors(q) ==
    /\ q.pc \in {"users", "info", "member", "code", "grant"} => q.seen = Automatic
    /\ q.pc \in {"info", "member", "code", "grant"} => q.listed = listed /\ q.todo \subseteq listed
    /\ q.pc = "info" => \A u \in listed \ q.todo : Mirrored(u)
    /\ q.pc \in {"member", "code", "grant"} =>
         /\ q.user \in listed /\ q.read = ProposalRights(q.user)
         /\ \A u \in listed \ (q.todo \cup {q.user}) : Mirrored(u)
    /\ q.pc \in {"code", "grant"} =>
         member[q.user].active /\ member[q.user].role = AutomaticRole(q.user)
    /\ q.pc = "code" => q.held = HeldOf(member[q.user])
    /\ q.pc = "grant" => RightCode(q.user) /\ Granted(q.user, Buckets \ q.due)
    /\ q.pc \in {"sweep", "drop"} =>
         /\ \A u \in listed : Mirrored(u)
         /\ q.todo \cap listed = {}
    /\ q.pc = "sweep" => \A u \in Users \ (q.todo \cup listed) : ~member[u].active
    /\ q.pc = "drop" => /\ q.user \notin listed
                        /\ \A u \in Users \ (q.todo \cup {q.user} \cup listed) : ~member[u].active

CalmWork ==
    /\ \A l \in Logins : l \in calm => Shows(login[l])
    /\ \A f \in Refreshers : f \in calm => Mirrors(refresh[f])

LoginMoves(l) == LoginStep(l) \/ LoginDies(l) \/ \E u \in Users : LoginBegins(l, u)
RefreshMoves(f) == RefreshStep(f) \/ RefreshDies(f)

\* All that the two conditions speak of.
Facts == <<codes, listed, rights, member, grant>>

\* A step of another worker that matters disturbs this one.
LEMMA OthersDisturb ==
    ASSUME TypeOK, [Next]_vars, NEW w \in Workers, w \in calm',
           w \in Logins => ~LoginMoves(w), w \in Refreshers => ~RefreshMoves(w)
    PROVE  /\ w \in calm /\ UNCHANGED Facts
           /\ w \in Logins => login'[w] = login[w]
           /\ w \in Refreshers => refresh'[w] = refresh[w]
<1> USE ProposalsAssumption
<1> USE DEF Facts
<1>1. ASSUME NEW l \in Logins, LoginMoves(l), l # w
      PROVE  /\ calm' \subseteq calm \cup {l} /\ UNCHANGED Facts /\ UNCHANGED refresh
             /\ \A k \in Logins : k # l => login'[k] = login[k]
  <2>1. ASSUME ~Writes(l)
        PROVE  calm' \subseteq calm \cup {l} /\ UNCHANGED Facts
    BY <1>1, <2>1
    DEF LoginMoves, LoginStep, LoginDies, LoginBegins, LoginReads, LoginLooks, LoginGrants,
        LoginGrantConflicts, LoginUpserts, LoginClearsCode, LoginFails, LoginReconciles,
        LoginReadsMember, LoginFillsCode, Starts
  <2>2. ~Writes(l)
    BY <1>1 DEF Writes
  <2>3. UNCHANGED refresh /\ \E q : login' = [login EXCEPT ![l] = q]
    BY <1>1
    DEF LoginMoves, LoginStep, LoginDies, LoginBegins, LoginReads, LoginLooks, LoginGrants,
        LoginGrantConflicts, LoginUpserts, LoginClearsCode, LoginFails, LoginReconciles,
        LoginReadsMember, LoginFillsCode, Fails
  <2>4. \A k \in Logins : k # l => login'[k] = login[k]
    BY <2>3 DEF TypeOK
  <2> QED
    BY <2>1, <2>2, <2>3, <2>4
<1>2. ASSUME NEW f \in Refreshers, RefreshMoves(f), f # w
      PROVE  /\ calm' \subseteq calm \cup {f} /\ UNCHANGED Facts /\ UNCHANGED login
             /\ \A k \in Refreshers : k # f => refresh'[k] = refresh[k]
  <2>1. ASSUME ~Writes(f)
        PROVE  calm' \subseteq calm \cup {f} /\ UNCHANGED Facts /\ UNCHANGED login
    BY <1>2, <2>1
    DEF RefreshMoves, RefreshStep, RefreshDies, CreateTenant, LoadMappings, BeginRefresh,
        ListBuckets, ListUsers, ReadUser, SkipUser, DropGrants, UpsertMember, RefreshCode,
        GrantBucket, PruneGrants, FindStale, Deactivate, EndRefresh, Starts
  <2>2. ~Writes(f)
    BY <1>2 DEF Writes
  <2>3. \E q : refresh' = [refresh EXCEPT ![f] = q]
    BY <1>2
    DEF RefreshMoves, RefreshStep, RefreshDies, CreateTenant, LoadMappings, BeginRefresh,
        ListBuckets, ListUsers, ReadUser, SkipUser, DropGrants, UpsertMember, RefreshCode,
        GrantBucket, PruneGrants, FindStale, Deactivate, EndRefresh
  <2>4. \A k \in Refreshers : k # f => refresh'[k] = refresh[k]
    BY <2>3 DEF TypeOK
  <2> QED
    BY <2>1, <2>2, <2>4
<1>3. ASSUME NEW c \in Uploaders, CsvReads(c) \/ CsvStep(c) \/ CsvDies(c)
      PROVE  calm' \subseteq calm /\ UNCHANGED Facts /\ UNCHANGED <<login, refresh>>
  <2>1. c # w
    BY DEF Workers
  <2> QED
    BY <1>3, <2>1 DEF CsvReads, CsvStep, CsvDies, CsvSaves, CsvClears, Writes
<1>4. ~RestartLoadsMappings /\ \A u \in Users : ~UpstreamChanges(u)
  BY DEF RestartLoadsMappings, UpstreamChanges
<1>5. CASE UNCHANGED vars
  BY <1>5 DEF vars
<1> QED
  BY <1>1, <1>2, <1>3, <1>4, <1>5 DEF Next, LoginMoves, RefreshMoves, Workers

-----------------------------------------------------------------------------
(* Logins *)

\* Granting right p on b covers it and what was covered before.
LEMMA GrantCovers ==
    ASSUME NEW found \in Right \cup {"none"}, NEW p \in Right
    PROVE  /\ Covers(Upgraded(found, p), p)
           /\ \A r \in Right : Covers(found, r) => Covers(Upgraded(found, p), r)
BY DEF Covers, Upgraded, Right

\* Saving a code that was read from the row as it is changes the code only.
LEMMA CodeSaved ==
    ASSUME Members, NEW u \in Users, NEW held, held = HeldOf(member[u]),
           NEW code, SaveCode(u, held, code)
    PROVE  /\ member'[u].code = code
           /\ member'[u].active = member[u].active /\ member'[u].role = member[u].role
           /\ member'[u].revoked = member[u].revoked
           /\ \A v \in Users : v # u => member'[v] = member[v]
<1>1. member[u] \in Membership /\ held.code = member[u].code
  BY DEF Members, HeldOf
<1>2. CASE code = held.code
  BY <1>1, <1>2 DEF SaveCode
<1>3. CASE code # held.code
  <2>1. member' = [member EXCEPT ![u] = [member[u] EXCEPT !.code = code]]
    BY <1>3 DEF SaveCode
  <2>2. member'[u] = [member[u] EXCEPT !.code = code]
        /\ \A v \in Users : v # u => member'[v] = member[v]
    BY <2>1 DEF Members
  <2> QED
    BY <1>1, <2>2 DEF Membership
<1> QED
  BY <1>2, <1>3

LEMMA LoginShows ==
    ASSUME TypeOK, CalmWork, NEW l \in Logins, l \in calm', LoginMoves(l)
    PROVE  Shows(login[l])'
<1> USE ProposalsAssumption
<1> DEFINE s == login[l]  t == login'[l]
<1>1. s \in Login /\ LoginOK(s) /\ login \in [Logins -> Login] /\ Members /\ Grants
  BY TypeParts, LoginTyped DEF LoginsOK
<1>2. l \in calm => Shows(s)
  BY DEF CalmWork
<1>3. CASE t = NoLogin
  BY <1>3 DEF Shows, NoLogin
<1>4. ASSUME NEW u \in Users, LoginBegins(l, u) PROVE Shows(login[l])'
  <2>1. t.pc \in {"info", "reconcile"} /\ ~t.ok
    BY <1>1, <1>4 DEF LoginBegins, NoLogin
  <2> QED
    BY <2>1 DEF Shows
<1>5. CASE LoginReads(l)
  <2> PICK u \in Users : u = s.user
    BY <1>1, <1>5 DEF LoginReads, LoginOK
  <2>1. t = [s EXCEPT !.pc = "look", !.due = References(u), !.role = LoginRole(u)]
    BY <1>1, <1>5 DEF LoginReads
  <2>2. t.pc = "look" /\ t.due = References(u) /\ t.role = LoginRole(u) /\ t.user = u
    BY <1>1, <2>1 DEF Login
  <2>3. UNCHANGED rights
    BY <1>5 DEF LoginReads
  <2>4. LoginRole(u)' = LoginRole(u)
    BY <2>3 DEF LoginRole
  <2> PICK due : due = References(u)
    OBVIOUS
  <2>5. Reaches(u, due)'
    BY <2>3 DEF Reaches, References
  <2> QED
    BY <2>2, <2>3, <2>4, <2>5 DEF Shows, Reaches
<1>6. ASSUME NEW b \in Buckets, NEW p \in Right, LoginLooks(l, b, p)
      PROVE  Shows(login[l])'
  <2> PICK u \in Users : u = s.user
    BY <1>1, <1>6 DEF LoginLooks, LoginOK
  <2>1. /\ t.pc = "write" /\ t.due = s.due \ {<<b, p>>} /\ t.bucket = b /\ t.right = p
        /\ t.found = grant[u][b] /\ t.user = u /\ t.role = s.role
    BY <1>1, <1>6 DEF LoginLooks, Login
  <2>2. UNCHANGED <<rights, grant>> /\ l \in calm
    BY <1>6 DEF LoginLooks
  <2>3. Reaches(u, s.due) /\ s.role = LoginRole(u)
    BY <1>2, <1>6, <2>2 DEF Shows, LoginLooks
  <2> PICK due : due = t.due \cup {<<t.bucket, t.right>>}
    OBVIOUS
  <2>4. Reaches(u, due)'
    BY <2>1, <2>2, <2>3 DEF Reaches
  <2>5. LoginRole(u)' = LoginRole(u)
    BY <2>2 DEF LoginRole
  <2> QED
    BY <2>1, <2>2, <2>3, <2>4, <2>5 DEF Shows, Reaches
<1>7. CASE LoginGrants(l)
  <2> PICK u \in Users : u = s.user
    BY <1>1, <1>7 DEF LoginGrants, LoginOK
  <2> PICK b \in Buckets : b = s.bucket
    BY <1>1, <1>7 DEF LoginGrants, LoginOK
  <2> PICK p \in Right : p = s.right
    BY <1>1 DEF Login
  <2>1. t.pc = "look" /\ t.due = s.due /\ t.user = u /\ t.role = s.role
    BY <1>1, <1>7 DEF LoginGrants, Login
  <2>2. UNCHANGED rights /\ l \in calm /\ s.pc = "write"
    BY <1>7 DEF LoginGrants, Writes
  <2>3. Reaches(u, s.due \cup {<<b, p>>}) /\ s.role = LoginRole(u) /\ s.found = grant[u][b]
    BY <1>2, <2>2 DEF Shows
  <2>4. grant[u][b] \in Right \cup {"none"}
    BY <1>1 DEF Grants
  <2>5. IF Upgraded(s.found, p) = s.found THEN UNCHANGED grant
        ELSE grant' = [grant EXCEPT ![u][b] = Upgraded(s.found, p)]
    BY <1>7, <2>3, <2>4 DEF LoginGrants, Right
  <2>6. grant'[u][b] = Upgraded(grant[u][b], p)
        /\ \A d \in Buckets : d # b => grant'[u][d] = grant[u][d]
    BY <1>1, <2>3, <2>5 DEF Grants
  <2> PICK due : due = s.due
    OBVIOUS
  <2>7. Reaches(u, due)'
    BY <2>2, <2>3, <2>4, <2>6, GrantCovers DEF Reaches
  <2>8. LoginRole(u)' = LoginRole(u)
    BY <2>2 DEF LoginRole
  <2> QED
    BY <2>1, <2>3, <2>7, <2>8 DEF Shows, Reaches
<1>8. ~LoginGrantConflicts(l) /\ ~LoginFails(l)
  BY DEF LoginGrantConflicts, LoginFails
<1>9. CASE LoginUpserts(l)
  <2> PICK u \in Users : u = s.user
    BY <1>1, <1>9 DEF LoginUpserts, LoginOK
  <2>1. UNCHANGED <<rights, grant>> /\ l \in calm /\ s.pc = "look" /\ s.due = {}
    BY <1>9 DEF LoginUpserts, Writes
  <2>2. t.pc = "clear" /\ t.user = u /\ t.held = HeldOf(member'[u])
    BY <1>1, <1>9 DEF LoginUpserts, Login
  <2>3. Reaches(u, {}) /\ s.role = LoginRole(u) /\ s.role \in Right
    BY <1>1, <1>2, <2>1 DEF Shows, Login
  <2>4. member'[u] = Upserted(member[u], s.role) /\ MemberOK(member[u])
    BY <1>1, <1>9 DEF LoginUpserts, Members
  <2>5. member'[u].active /\ member'[u].role = s.role
    BY <2>3, <2>4, UpsertTypes
  <2>6. LoginRole(u)' = LoginRole(u) /\ Reaches(u, {})'
    BY <2>1, <2>3 DEF LoginRole, Reaches
  <2>7. Admitted(u)'
    BY <2>3, <2>5, <2>6 DEF Admitted
  <2> QED
    BY <2>2, <2>6, <2>7 DEF Shows
<1>10. CASE LoginClearsCode(l)
  <2> PICK u \in Users : u = s.user
    BY <1>1, <1>10 DEF LoginClearsCode, LoginOK
  <2>1. UNCHANGED <<rights, grant>> /\ l \in calm /\ s.pc = "clear"
    BY <1>10 DEF LoginClearsCode, Writes
  <2>2. t.pc = "reconcile" /\ t.user = u
    BY <1>1, <1>10 DEF LoginClearsCode, Login
  <2>3. Reaches(u, {}) /\ Admitted(u) /\ s.held = HeldOf(member[u])
    BY <1>2, <2>1 DEF Shows
  <2>4. LoginRole(u)' = LoginRole(u) /\ Reaches(u, {})'
    BY <2>1, <2>3 DEF LoginRole, Reaches
  <2> PICK held : held = s.held
    OBVIOUS
  <2> PICK code : code = Cleared(held)
    OBVIOUS
  <2>5. SaveCode(u, held, code) /\ held = HeldOf(member[u])
    BY <1>10, <2>3 DEF LoginClearsCode
  <2>8. code => held.role = "rw"
    BY DEF Cleared
  <2>9. held.role = member[u].role
    BY <2>5 DEF HeldOf
  <2>10. member'[u].code = code /\ member'[u].active = member[u].active
         /\ member'[u].role = member[u].role
    BY <1>1, <2>5, CodeSaved
  <2>6. /\ member'[u].active = member[u].active /\ member'[u].role = member[u].role
        /\ member'[u].code => member'[u].role = "rw"
    BY <2>8, <2>9, <2>10
  <2>7. Admitted(u)'
    BY <2>3, <2>4, <2>6 DEF Admitted
  <2> QED
    BY <2>2, <2>4, <2>6, <2>7 DEF Shows
<1>11. CASE LoginReconciles(l)
  <2> PICK u \in Users : u = s.user
    BY <1>1, <1>11 DEF LoginReconciles, LoginOK
  <2>1. UNCHANGED <<rights, grant>> /\ l \in calm /\ s.pc = "reconcile"
    BY <1>11 DEF LoginReconciles, Writes
  <2>2. t.pc = "code" /\ t.user = u /\ t.ok = s.ok
    BY <1>1, <1>11 DEF LoginReconciles, Login
  <2>3. CASE ~s.ok
    BY <2>2, <2>3 DEF Shows
  <2>4. CASE s.ok
    <3>1. Reaches(u, {}) /\ Admitted(u) /\ (member[u].code => member[u].role = "rw")
      BY <1>2, <2>1, <2>4 DEF Shows
    <3>2. LoginRole(u)' = LoginRole(u) /\ Reaches(u, {})' /\ LoginRole(u) # "none"
      BY <2>1, <3>1 DEF LoginRole, Reaches
    <3>3. member'[u] = [member[u] EXCEPT !.revoked = FALSE] /\ member[u] \in Membership
      BY <1>1, <1>11, <2>4, <3>1, <3>2 DEF LoginReconciles, Reconciled, Members, Admitted
    <3>4. /\ member'[u].active = member[u].active /\ member'[u].role = member[u].role
          /\ member'[u].code = member[u].code /\ ~member'[u].revoked
      BY <3>3 DEF Membership
    <3>5. Admitted(u)'
      BY <3>1, <3>2, <3>4 DEF Admitted
    <3> QED
      BY <2>2, <3>1, <3>2, <3>4, <3>5 DEF Shows
  <2> QED
    BY <2>3, <2>4
<1>12. CASE LoginReadsMember(l)
  <2> PICK u \in Users : u = s.user
    BY <1>1, <1>12 DEF LoginReadsMember, LoginOK
  <2>1. UNCHANGED <<rights, grant, member>> /\ l \in calm /\ s.pc = "code"
    BY <1>12 DEF LoginReadsMember
  <2>2. CASE ~member[u].active
    BY <1>1, <1>3, <1>12, <2>2 DEF LoginReadsMember
  <2>3. CASE member[u].active
    <3>1. t.pc = "fill" /\ t.user = u /\ t.ok = s.ok /\ t.held = HeldOf(member[u])
      BY <1>1, <1>12, <2>3 DEF LoginReadsMember, Login
    <3>2. LoginRole(u)' = LoginRole(u) /\ (Reaches(u, {}) => Reaches(u, {})')
          /\ (Admitted(u) => Admitted(u)')
      BY <2>1 DEF LoginRole, Reaches, Admitted
    <3>3. s.ok => /\ Reaches(u, {}) /\ Admitted(u) /\ ~member[u].revoked
                  /\ member[u].code => member[u].role = "rw"
      BY <1>2, <2>1 DEF Shows
    <3> QED
      BY <2>1, <3>1, <3>2, <3>3 DEF Shows
  <2> QED
    BY <2>2, <2>3
<1>13. CASE LoginFillsCode(l) \/ LoginDies(l)
  BY <1>1, <1>3, <1>13 DEF LoginFillsCode, LoginDies
<1> QED
  BY <1>4, <1>5, <1>6, <1>7, <1>8, <1>9, <1>10, <1>11, <1>12, <1>13 DEF LoginMoves, LoginStep

\* Assigning codes to the row as it was read makes its code right.
LEMMA CodeAssigned ==
    ASSUME Members, NEW u \in Users, NEW held, held = HeldOf(member[u]),
           NEW code, code = Assigned(u, held), SaveCode(u, held, code), UNCHANGED codes,
           member[u].role \in Right
    PROVE  RightCode(u)'
<1>1. /\ held.role = member[u].role /\ held.code = member[u].code
  BY DEF HeldOf
<1>2. member'[u].code = code /\ member'[u].role = member[u].role
  BY CodeSaved
<1>3. (code => held.role = "rw") /\ (held.role = "rw" /\ u \in Affiliated /\ codes => code)
  BY DEF Assigned
<1> QED
  BY <1>1, <1>2, <1>3 DEF RightCode, Right

\* What the last step of an undisturbed login shows.
LEMMA LoginEndsShown ==
    ASSUME TypeOK, CalmWork, NEW l \in Logins, NEW u \in Users,
           LoginFillsCode(l), login[l].user = u, login[l].ok, l \in calm
    PROVE  /\ member'[u].active /\ ~member'[u].revoked
           /\ member'[u].role = LoginRole(u)
           /\ RightCode(u)'
           /\ \A b \in Automatic : rights[u][b] # {} =>
                grant'[u][b] \in {"rw", Strongest(rights[u][b])}
<1> USE ProposalsAssumption
<1>1. Members /\ Grants /\ rights \in [Users -> Rights]
  BY TypeParts DEF Upstream
<1>2. login[l].pc = "fill" /\ UNCHANGED <<codes, grant>>
  BY DEF LoginFillsCode
<1>3. /\ Reaches(u, {}) /\ Admitted(u) /\ ~member[u].revoked
      /\ login[l].held = HeldOf(member[u])
  BY <1>2 DEF CalmWork, Shows
<1> PICK held : held = login[l].held
  OBVIOUS
<1> PICK code : code = Assigned(u, held)
  OBVIOUS
<1>4. SaveCode(u, held, code) /\ held = HeldOf(member[u])
  BY <1>3 DEF LoginFillsCode
<1>5. member[u].role = LoginRole(u) /\ member[u].active /\ member[u].role \in Right
  BY <1>3 DEF Admitted, LoginRole, Right
<1>6. member'[u].active /\ ~member'[u].revoked /\ member'[u].role = LoginRole(u)
  BY <1>1, <1>3, <1>4, <1>5, CodeSaved
<1>7. RightCode(u)'
  BY <1>1, <1>2, <1>4, <1>5, CodeAssigned
<1>8. ASSUME NEW b \in Automatic, rights[u][b] # {}
      PROVE  grant'[u][b] \in {"rw", Strongest(rights[u][b])}
  <2>1. rights[u][b] \subseteq Right /\ grant[u][b] \in Right \cup {"none"}
    BY <1>1 DEF Rights, Grants
  <2>2. \A p \in rights[u][b] : Covers(grant[u][b], p)
    BY <1>3, <2>1 DEF Reaches
  <2> QED
    BY <1>2, <1>8, <2>1, <2>2 DEF Covers, Strongest, AlsoReadOnly, Right
<1> QED
  BY <1>6, <1>7, <1>8

-----------------------------------------------------------------------------
(* Refreshes *)

\* Where nothing changed for a user, nothing changes about being mirrored.
LEMMA MirroredStays ==
    ASSUME NEW u, Mirrored(u), UNCHANGED <<codes, listed, rights>>,
           member'[u] = member[u], grant'[u] = grant[u]
    PROVE  Mirrored(u)'
BY DEF Mirrored, AutomaticRole, RightCode

LEMMA RefreshMirrors ==
    ASSUME TypeOK, CalmWork, NEW f \in Refreshers, f \in calm', RefreshMoves(f)
    PROVE  Mirrors(refresh[f])'
<1> USE ProposalsAssumption
<1> DEFINE s == refresh[f]  t == refresh'[f]
<1>1. s \in Refresh /\ RefreshOK(s) /\ refresh \in [Refreshers -> Refresh] /\ Members /\ Grants
      /\ listed \subseteq Users /\ rights \in [Users -> Rights]
  BY TypeParts, RefreshTyped DEF RefreshesOK, Upstream
<1>2. f \in calm => Mirrors(s)
  BY DEF CalmWork
<1>3. CASE t.pc \in {"idle", "load", "list"}
  BY <1>3 DEF Mirrors
<1>4. CASE CreateTenant(f) \/ BeginRefresh(f) \/ LoadMappings(f) \/ EndRefresh(f) \/ RefreshDies(f)
  BY <1>1, <1>3, <1>4
  DEF CreateTenant, BeginRefresh, LoadMappings, EndRefresh, RefreshDies, NoRefresh, Refresh
<1>5. CASE ListBuckets(f)
  <2>1. refresh' = [refresh EXCEPT ![f] = [s EXCEPT !.pc = "users", !.seen = Automatic]]
    BY <1>5 DEF ListBuckets
  <2>2. t.pc = "users" /\ t.seen = Automatic
    BY <1>1, <2>1 DEF Refresh
  <2> QED
    BY <2>2 DEF Mirrors
<1>6. CASE ListUsers(f)
  <2>1. UNCHANGED listed /\ f \in calm /\ s.pc = "users"
    BY <1>6 DEF ListUsers
  <2>2. t.pc = "info" /\ t.listed = listed /\ t.todo = listed /\ t.seen = s.seen
    BY <1>1, <1>6 DEF ListUsers, Refresh
  <2>3. s.seen = Automatic
    BY <1>2, <2>1 DEF Mirrors
  <2> QED
    BY <2>1, <2>2, <2>3 DEF Mirrors
<1>7. ASSUME NEW u \in Users, ReadUser(f, u) PROVE Mirrors(refresh[f])'
  <2>1. UNCHANGED Facts /\ f \in calm /\ s.pc = "info" /\ u \in s.todo /\ u \in listed
    BY <1>7 DEF ReadUser, Facts
  <2>2. t.pc = "member" /\ t.listed = s.listed /\ t.todo = s.todo \ {u} /\ t.seen = s.seen
        /\ t.user = u /\ t.read = KnownRights(f, u)
    BY <1>1, <1>7 DEF ReadUser, Refresh
  <2>3. s.seen = Automatic /\ s.listed = listed /\ s.todo \subseteq listed
        /\ \A v \in listed \ s.todo : Mirrored(v)
    BY <1>2, <2>1 DEF Mirrors
  <2>4. t.read = ProposalRights(u) /\ ProposalRights(u)' = ProposalRights(u)
    BY <2>1, <2>2, <2>3 DEF KnownRights, ProposalRights, Facts
  <2>5. ASSUME NEW v \in listed \ s.todo PROVE Mirrored(v)'
    BY <2>1, <2>3, MirroredStays DEF Facts
  <2>6. listed' = listed /\ listed \ (t.todo \cup {t.user}) \subseteq listed \ s.todo
    BY <2>1, <2>2 DEF Facts
  <2> QED
    BY <2>1, <2>2, <2>3, <2>4, <2>5, <2>6 DEF Mirrors
<1>8. \A u \in Users : ~SkipUser(f, u)
  BY DEF SkipUser
<1>9. CASE UpsertMember(f)
  <2> PICK u \in Users : u = s.user
    BY <1>1, <1>9 DEF UpsertMember, RefreshOK
  <2>1. UNCHANGED <<codes, listed, rights, grant>> /\ f \in calm /\ s.pc = "member"
    BY <1>9 DEF UpsertMember, Writes
  <2>2. t.pc = "code" /\ t.listed = s.listed /\ t.todo = s.todo /\ t.seen = s.seen
        /\ t.user = u /\ t.read = s.read /\ t.held = HeldOf(member'[u])
    BY <1>1, <1>9 DEF UpsertMember, Refresh
  <2>3. /\ s.seen = Automatic /\ s.listed = listed /\ s.todo \subseteq listed
        /\ u \in listed /\ s.read = ProposalRights(u)
        /\ \A v \in listed \ (s.todo \cup {u}) : Mirrored(v)
    BY <1>2, <2>1 DEF Mirrors
  <2>4. member'[u] = Upserted(member[u], ReadRole(s.read)) /\ MemberOK(member[u])
        /\ \A v \in Users : v # u => member'[v] = member[v]
    BY <1>1, <1>9 DEF UpsertMember, Members
  <2>5. ReadRole(s.read) \in Right /\ ReadRole(s.read) = AutomaticRole(u)
    BY <2>3 DEF ReadRole, ProposalRights, AutomaticRole, Right
  <2>6. member'[u].active /\ member'[u].role = AutomaticRole(u)
    BY <2>4, <2>5, UpsertTypes
  <2>7. ProposalRights(u)' = ProposalRights(u) /\ AutomaticRole(u)' = AutomaticRole(u)
    BY <2>1 DEF ProposalRights, AutomaticRole
  <2>8. ASSUME NEW v \in listed \ (s.todo \cup {u}) PROVE Mirrored(v)'
    BY <1>1, <2>1, <2>3, <2>4, MirroredStays
  <2> QED
    BY <2>1, <2>2, <2>3, <2>6, <2>7, <2>8 DEF Mirrors
<1>10. CASE RefreshCode(f)
  <2> PICK u \in Users : u = s.user
    BY <1>1, <1>10 DEF RefreshCode, RefreshOK
  <2> PICK held : held = s.held
    OBVIOUS
  <2> PICK code : code = Assigned(u, held)
    OBVIOUS
  <2>1. UNCHANGED <<codes, listed, rights, grant>> /\ f \in calm /\ s.pc = "code"
    BY <1>10 DEF RefreshCode, Writes
  <2>2. t.pc = "grant" /\ t.listed = s.listed /\ t.todo = s.todo /\ t.seen = s.seen
        /\ t.user = u /\ t.read = s.read /\ t.due = {b \in Buckets : s.read[b] # {}}
    BY <1>1, <1>10 DEF RefreshCode, Refresh
  <2>3. /\ s.seen = Automatic /\ s.listed = listed /\ s.todo \subseteq listed
        /\ u \in listed /\ s.read = ProposalRights(u)
        /\ \A v \in listed \ (s.todo \cup {u}) : Mirrored(v)
        /\ member[u].active /\ member[u].role = AutomaticRole(u)
        /\ held = HeldOf(member[u])
    BY <1>2, <2>1 DEF Mirrors
  <2>4. SaveCode(u, held, code) /\ member[u].role \in Right
    BY <1>10, <2>3 DEF RefreshCode, AutomaticRole, Right
  <2>5. member'[u].active /\ member'[u].role = AutomaticRole(u)
        /\ \A v \in Users : v # u => member'[v] = member[v]
    BY <1>1, <2>3, <2>4, CodeSaved
  <2>6. RightCode(u)'
    BY <1>1, <2>1, <2>3, <2>4, CodeAssigned
  <2>7. ProposalRights(u)' = ProposalRights(u) /\ AutomaticRole(u)' = AutomaticRole(u)
    BY <2>1 DEF ProposalRights, AutomaticRole
  <2>8. ASSUME NEW v \in listed \ (s.todo \cup {u}) PROVE Mirrored(v)'
    BY <1>1, <2>1, <2>3, <2>5, MirroredStays
  <2> PICK due : due = t.due
    OBVIOUS
  <2>9. Granted(u, Buckets \ due)'
    BY <2>2, <2>3, <2>7 DEF Granted
  <2> QED
    BY <2>1, <2>2, <2>3, <2>5, <2>6, <2>7, <2>8, <2>9 DEF Mirrors
<1>11. ASSUME NEW b \in Buckets, GrantBucket(f, b) PROVE Mirrors(refresh[f])'
  <2> PICK u \in Users : u = s.user
    BY <1>1, <1>11 DEF GrantBucket, RefreshOK
  <2>1. UNCHANGED <<codes, listed, rights, member>> /\ f \in calm /\ s.pc = "grant"
    BY <1>11 DEF GrantBucket, Writes
  <2>2. t.pc = "grant" /\ t.listed = s.listed /\ t.todo = s.todo /\ t.seen = s.seen
        /\ t.user = u /\ t.read = s.read /\ t.due = s.due \ {b}
    BY <1>1, <1>11 DEF GrantBucket, Refresh
  <2>3. /\ s.seen = Automatic /\ s.listed = listed /\ s.todo \subseteq listed
        /\ u \in listed /\ s.read = ProposalRights(u)
        /\ \A v \in listed \ (s.todo \cup {u}) : Mirrored(v)
        /\ member[u].active /\ member[u].role = AutomaticRole(u)
        /\ RightCode(u) /\ Granted(u, Buckets \ s.due)
    BY <1>2, <2>1 DEF Mirrors
  <2>4. grant'[u][b] = AlsoReadOnly(s.read[b])
        /\ (\A d \in Buckets : d # b => grant'[u][d] = grant[u][d])
        /\ (\A v \in Users : v # u => grant'[v] = grant[v])
    BY <1>1, <1>11 DEF GrantBucket, Grants
  <2>5. RightCode(u)'
    BY <2>1, <2>3 DEF RightCode
  <2>7. ProposalRights(u)' = ProposalRights(u) /\ AutomaticRole(u)' = AutomaticRole(u)
    BY <2>1 DEF ProposalRights, AutomaticRole
  <2>8. ASSUME NEW v \in listed \ (s.todo \cup {u}) PROVE Mirrored(v)'
    BY <1>1, <2>1, <2>3, <2>4, MirroredStays
  <2> PICK due : due = t.due
    OBVIOUS
  <2>9. Granted(u, Buckets \ due)'
    BY <2>2, <2>3, <2>4, <2>7 DEF Granted
  <2> QED
    BY <2>1, <2>2, <2>3, <2>5, <2>7, <2>8, <2>9 DEF Mirrors
<1>12. CASE PruneGrants(f)
  <2> PICK u \in Users : u = s.user
    BY <1>1, <1>12 DEF PruneGrants, RefreshOK
  <2>1. UNCHANGED <<codes, listed, rights, member>> /\ f \in calm /\ s.pc = "grant" /\ s.due = {}
    BY <1>12 DEF PruneGrants, Writes
  <2>2. t.pc = "info" /\ t.listed = s.listed /\ t.todo = s.todo /\ t.seen = s.seen
    BY <1>1, <1>12 DEF PruneGrants, Refresh
  <2>3. /\ s.seen = Automatic /\ s.listed = listed /\ s.todo \subseteq listed
        /\ u \in listed /\ s.read = ProposalRights(u)
        /\ \A v \in listed \ (s.todo \cup {u}) : Mirrored(v)
        /\ member[u].active /\ member[u].role = AutomaticRole(u)
        /\ RightCode(u) /\ Granted(u, Buckets)
    BY <1>2, <2>1 DEF Mirrors, Granted
  <2>4. (\A d \in Buckets :
           grant'[u][d] = IF ProposalRights(u)[d] = {} THEN "none" ELSE grant[u][d])
        /\ (\A v \in Users : v # u => grant'[v] = grant[v])
    BY <1>1, <1>12, <2>3 DEF PruneGrants, Unread, Grants
  <2>5. RightCode(u)' /\ member'[u].active
    BY <2>1, <2>3 DEF RightCode
  <2>6. ProposalRights(u)' = ProposalRights(u) /\ AutomaticRole(u)' = AutomaticRole(u)
    BY <2>1 DEF ProposalRights, AutomaticRole
  <2>7. ASSUME NEW d \in Buckets
        PROVE  grant'[u][d] = IF d \in Automatic THEN Strongest(rights[u][d]) ELSE "none"
    BY <2>3, <2>4 DEF Granted, ProposalRights, Strongest
  <2>8. Mirrored(u)'
    BY <2>1, <2>3, <2>5, <2>6, <2>7 DEF Mirrored
  <2>9. ASSUME NEW v \in listed \ (s.todo \cup {u}) PROVE Mirrored(v)'
    BY <1>1, <2>1, <2>3, <2>4, <2>9, MirroredStays
  <2>10. ASSUME NEW v \in listed \ s.todo PROVE Mirrored(v)'
    BY <2>8, <2>9
  <2> QED
    BY <2>1, <2>2, <2>3, <2>10 DEF Mirrors
<1>13. CASE FindStale(f)
  <2>1. UNCHANGED Facts /\ f \in calm /\ s.pc = "info" /\ s.todo = {}
    BY <1>13 DEF FindStale, Facts
  <2>2. t.pc = "sweep" /\ t.todo = StaleMembers(f)
    BY <1>1, <1>13 DEF FindStale, Refresh
  <2>3. s.listed = listed /\ \A v \in listed : Mirrored(v)
    BY <1>2, <2>1 DEF Mirrors
  <2>4. t.todo = {v \in Users : member[v].active /\ v \notin listed}
    BY <2>2, <2>3 DEF StaleMembers
  <2>5. ASSUME NEW v \in listed PROVE Mirrored(v)'
    BY <2>1, <2>3, MirroredStays DEF Facts
  <2>6. \A v \in Users \ (t.todo \cup listed) : ~member'[v].active
    BY <2>1, <2>4 DEF Facts
  <2> QED
    BY <2>1, <2>2, <2>4, <2>5, <2>6 DEF Mirrors, Facts
<1>14. ASSUME NEW u \in Users, DropGrants(f, u) PROVE Mirrors(refresh[f])'
  <2>1. UNCHANGED <<codes, listed, rights, member>> /\ f \in calm /\ s.pc = "sweep"
        /\ u \in s.todo
    BY <1>14 DEF DropGrants, Writes
  <2>2. t.pc = "drop" /\ t.todo = s.todo \ {u} /\ t.user = u
    BY <1>1, <1>14 DEF DropGrants, Refresh
  <2>3. /\ \A v \in listed : Mirrored(v)
        /\ s.todo \cap listed = {}
        /\ \A v \in Users \ (s.todo \cup listed) : ~member[v].active
    BY <1>2, <2>1 DEF Mirrors
  <2>4. \A v \in Users : v # u => grant'[v] = grant[v]
    BY <1>1, <1>14 DEF DropGrants, Grants
  <2>5. ASSUME NEW v \in listed PROVE Mirrored(v)'
    BY <1>1, <2>1, <2>3, <2>4, MirroredStays
  <2> QED
    BY <2>1, <2>2, <2>3, <2>5 DEF Mirrors
<1>15. CASE Deactivate(f)
  <2> PICK u \in Users : u = s.user
    BY <1>1, <1>15 DEF Deactivate, RefreshOK
  <2>1. UNCHANGED <<codes, listed, rights, grant>> /\ f \in calm /\ s.pc = "drop"
    BY <1>15 DEF Deactivate, Writes
  <2>2. t.pc = "sweep" /\ t.todo = s.todo
    BY <1>1, <1>15 DEF Deactivate, Refresh
  <2>3. /\ \A v \in listed : Mirrored(v)
        /\ s.todo \cap listed = {} /\ u \notin listed
        /\ \A v \in Users \ (s.todo \cup {u} \cup listed) : ~member[v].active
    BY <1>2, <2>1 DEF Mirrors
  <2>4. ~member'[u].active /\ \A v \in Users : v # u => member'[v] = member[v]
    BY <1>1, <1>15 DEF Deactivate, Members, Membership
  <2>5. ASSUME NEW v \in listed PROVE Mirrored(v)'
    BY <1>1, <2>1, <2>3, <2>4, MirroredStays
  <2> QED
    BY <2>1, <2>2, <2>3, <2>4, <2>5 DEF Mirrors
<1> QED
  BY <1>4, <1>5, <1>6, <1>7, <1>8, <1>9, <1>10, <1>11, <1>12, <1>13, <1>14, <1>15
  DEF RefreshMoves, RefreshStep

LEMMA CalmWorkStep == TypeOK /\ CalmWork /\ [Next]_vars => CalmWork'
<1> SUFFICES ASSUME TypeOK, CalmWork, [Next]_vars PROVE CalmWork'
  OBVIOUS
<1>1. ASSUME NEW l \in Logins, l \in calm' PROVE Shows(login[l])'
  <2>1. CASE LoginMoves(l)
    BY <1>1, <2>1, LoginShows
  <2>2. CASE ~LoginMoves(l)
    <3>1. l \in calm /\ UNCHANGED Facts /\ login'[l] = login[l]
      BY <1>1, <2>2, OthersDisturb, ProposalsAssumption DEF Workers
    <3>2. Shows(login[l])
      BY <1>1, <3>1 DEF CalmWork
    <3> QED
      BY <3>1, <3>2 DEF Shows, Reaches, Admitted, LoginRole, Facts
  <2> QED
    BY <2>1, <2>2
<1>2. ASSUME NEW f \in Refreshers, f \in calm' PROVE Mirrors(refresh[f])'
  <2>1. CASE RefreshMoves(f)
    BY <1>2, <2>1, RefreshMirrors
  <2>2. CASE ~RefreshMoves(f)
    <3>1. f \in calm /\ UNCHANGED Facts /\ refresh'[f] = refresh[f]
      BY <1>2, <2>2, OthersDisturb, ProposalsAssumption DEF Workers
    <3>2. Mirrors(refresh[f])
      BY <1>2, <3>1 DEF CalmWork
    <3> PICK u : u = refresh[f].user
      OBVIOUS
    <3> PICK done : done = Buckets \ refresh[f].due
      OBVIOUS
    <3>3. /\ RightCode(u) => RightCode(u)'
          /\ AutomaticRole(u)' = AutomaticRole(u) /\ ProposalRights(u)' = ProposalRights(u)
      BY <3>1 DEF Facts, RightCode, AutomaticRole, ProposalRights
    <3>4. Granted(u, done) => Granted(u, done)'
      BY <3>1, <3>3 DEF Facts, Granted
    <3>5. ASSUME NEW v, Mirrored(v) PROVE Mirrored(v)'
      BY <3>1, <3>5, MirroredStays DEF Facts
    <3> QED
      BY <3>1, <3>2, <3>3, <3>4, <3>5 DEF Mirrors, Facts
  <2> QED
    BY <2>1, <2>2
<1> QED
  BY <1>1, <1>2 DEF CalmWork

LEMMA CalmWorkHolds == Spec => [](TypeOK /\ CalmWork)
<1>1. Init => CalmWork
  BY DEF Init, CalmWork
<1>2. IInv => TypeOK
  BY DEF IInv
<1> QED
  BY <1>1, <1>2, CalmWorkStep, InvariantHolds, PTL DEF Spec

\* For any users, buckets and numbers of logins, refreshes and CSV uploads, and
\* whatever earlier races, failures and crashes left: a refresh that nobody
\* interfered with leaves the membership, role, code and permissions of every
\* listed user as RGWSquared has them, and nobody else active
\* (refresh_local_cache, sync_service.py).
THEOREM CalmRefreshesMirror == Spec => CalmRefreshMirrors
<1> DEFINE Mirroring == \A f \in Refreshers :
                          EndRefresh(f) /\ f \in calm => \A u \in Users : Mirrored(u)'
<1>1. TypeOK /\ CalmWork /\ [Next]_vars => [Mirroring]_vars
  <2> SUFFICES ASSUME TypeOK, CalmWork, NEW f \in Refreshers, EndRefresh(f), f \in calm,
                      NEW u \in Users
               PROVE  Mirrored(u)'
    OBVIOUS
  <2>1. /\ refresh[f].pc = "sweep" /\ refresh[f].todo = {}
        /\ UNCHANGED <<codes, listed, rights, member, grant>>
    BY DEF EndRefresh
  <2>2. Mirrored(u)
    BY <2>1 DEF CalmWork, Mirrors, Mirrored
  <2> QED
    BY <2>1, <2>2, MirroredStays
<1>2. Spec => [][Mirroring]_vars
  BY <1>1, CalmWorkHolds, PTL DEF Spec
<1> QED
  BY <1>2 DEF CalmRefreshMirrors

\* For any users, buckets and numbers of workers: a login that nobody interfered
\* with and that RGWSquared confirmed ends with access, the role and the code
\* that RGWSquared's answer demands, and no proposal bucket less than it gives
\* (_sync_user_buckets_on_login, pipeline.py), whatever the rows were before.
THEOREM CalmLoginsShow == Spec => CalmLoginShows
<1> DEFINE Showing == \A l \in Logins, u \in Users :
                        LoginFillsCode(l) /\ login[l].user = u /\ login[l].ok /\ l \in calm =>
                        /\ member'[u].active /\ ~member'[u].revoked
                        /\ member'[u].role = LoginRole(u)
                        /\ RightCode(u)'
                        /\ \A b \in Automatic : rights[u][b] # {} =>
                             grant'[u][b] \in {"rw", Strongest(rights[u][b])}
<1>1. TypeOK /\ CalmWork /\ [Next]_vars => [Showing]_vars
  BY LoginEndsShown
<1>2. Spec => [][Showing]_vars
  BY <1>1, CalmWorkHolds, PTL DEF Spec
<1> QED
  BY <1>2 DEF CalmLoginShows
=============================================================================
