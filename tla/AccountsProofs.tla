---------------------------- MODULE AccountsProofs ----------------------------
(***************************************************************************)
(* Proofs about Accounts: its type invariant, that nobody gets into        *)
(* somebody else's account but over its session, and where memberships get *)
(* their names from.                                                       *)
(***************************************************************************)
EXTENDS Accounts, TLAPS

-----------------------------------------------------------------------------
(* Types *)

LEMMA SmallTypes ==
    /\ NoAccount \in Account /\ NoLogin \in Login /\ NoRefresh \in Refresh
    /\ NoId \notin Ids
    /\ \A s \in Subjects, name \in Username : NewAccount(s, name) \in Account
    /\ \A n \in Names : PlaceholderFor(n) \in Account
<1> USE AccountsAssumption
<1>1. NoAccount \in Account
  BY DEF NoAccount, Account
<1>2. \A n \in Names : PlaceholderFor(n) \in Account
  BY DEF PlaceholderFor, Account, Username, Tries
<1> QED
  BY <1>1, <1>2 DEF NoLogin, Login, NoRefresh, Refresh, NoId, Ids, NewAccount, Account

LEMMA FilledType ==
    ASSUME NEW row \in Account, NEW s \in Subjects
    PROVE  /\ Filled(row, s) \in Account
           /\ Filled(row, s).name = row.name
           /\ Filled(row, s).ext = IF row.ext = Placeholder THEN s ELSE row.ext
BY AccountsAssumption DEF Filled, Account

LEMMA RefreshTypes ==
    ASSUME NEW r \in Refresh, NEW n \in Names, NEW i \in Ids \cup {NoId}
    PROVE  /\ [r EXCEPT !.target = i] \in Refresh
           /\ [NoRefresh EXCEPT !.todo = r.todo] \in Refresh
           /\ [todo |-> r.todo \ {n}, cur |-> n, target |-> i] \in Refresh
BY SmallTypes DEF Refresh, NoRefresh

-----------------------------------------------------------------------------
(* The inductive invariant: what a login or a refresh holds on to stays    *)
(* its own while others move.                                              *)

Own(i, s) == i \in Ids /\ Exists(i) /\ Entitled(i, s)

\* What a login loaded of account i and may save to it again.
RowOwn(i, row) ==
    /\ row.name = account[i].name
    /\ row.ext = Placeholder \/ (row.ext \in Subjects /\ Entitled(i, row.ext))

Explained(i, n) ==
    /\ i \in Ids /\ Exists(i)
    /\ \/ account[i].name = <<n, 0>>
       \/ \E s \in Subjects : social[s] = i /\ Preferred[s] = n

Homeless == {"idle", "dead", "name", "create"}
LoginOwn(w) ==
    /\ login[w].pc \notin {"idle", "dead"} => login[w].subject \in Subjects
    /\ login[w].pc \notin Homeless => Own(login[w].id, login[w].subject)
    /\ login[w].pc = "create" => login[w].found \in Username
    /\ login[w].pc = "show" => login[w].found \in Display
    /\ login[w].pc = "display" => login[w].row.mail \in Mailboxes
    /\ login[w].pc \in {"save", "display", "show", "associate", "details"} =>
         RowOwn(login[w].id, login[w].row)
    /\ login[w].pc \in {"details", "persist", "admit"} =>
         social[login[w].subject] = login[w].id

RefreshExplained(f) ==
    refresh[f].target # NoId => refresh[f].cur # NoName /\ Explained(refresh[f].target, refresh[f].cur)

AccountsRight ==
    \A i \in Ids : /\ ~Exists(i) => account[i].name = NoName
                   /\ account[i].ext = Placeholder => account[i].name = <<madeFor[i], 0>>
                   /\ account[i].ext \in Subjects => Entitled(i, account[i].ext)

IInv ==
    /\ TypeOK
    /\ AccountsRight
    /\ \A s \in Subjects : social[s] # NoId => Own(social[s], s)
    /\ \A i \in Ids : ceph[i] # NoName => Explained(i, ceph[i])
    /\ \A w \in Logins : LoginOwn(w)
    /\ \A i \in sessions : Exists(i)
    /\ \A f \in Refreshers : RefreshExplained(f)

LEMMA HeldTypes ==
    ASSUME IInv, NEW w \in Logins
    PROVE  /\ login \in [Logins -> Login] /\ login[w] \in Login
           /\ login[w].row \in Account /\ account \in [Ids -> Account]
           /\ login[w].pc \notin {"idle", "dead"} => login[w].subject \in Subjects
           /\ login[w].pc \notin Homeless =>
                login[w].id \in Ids /\ Own(login[w].id, login[w].subject)
BY DEF IInv, TypeOK, LoginOwn, Login, Own

-----------------------------------------------------------------------------
(* What a step leaves as it was *)

\* What may happen to accounts: nothing to their names and to what they were made
\* for, guests are added, and an association stays.
Evolves ==
    /\ account' \in [Ids -> Account] /\ social' \in [Subjects -> Ids \cup {NoId}]
    /\ madeFor' \in [Ids -> Names \cup {NoName}] /\ guests' \in [Ids -> SUBSET Subjects]
    /\ \A i \in Ids : /\ guests[i] \subseteq guests'[i]
                      /\ Exists(i) => /\ Exists(i)' /\ account'[i].name = account[i].name
                                      /\ madeFor'[i] = madeFor[i]
    /\ \A s \in Subjects : social[s] # NoId => social'[s] = social[s]

LEMMA StaysOwn ==
    ASSUME Evolves, NEW i, NEW s, Own(i, s)
    PROVE  Own(i, s)'
BY DEF Evolves, Own, Entitled

LEMMA StaysExplained ==
    ASSUME Evolves, NEW i, NEW n, Explained(i, n)
    PROVE  Explained(i, n)'
<1>1. i \in Ids /\ Exists(i) /\ Exists(i)' /\ account'[i].name = account[i].name
  BY DEF Explained, Evolves
<1>2. \A s \in Subjects : social[s] = i => social'[s] = i
  BY <1>1 DEF Evolves, Ids, NoId
<1> QED
  BY <1>1, <1>2 DEF Explained

LEMMA RowStays ==
    ASSUME Evolves, NEW i, NEW s, Own(i, s), NEW row, RowOwn(i, row)
    PROVE  RowOwn(i, row)'
BY DEF Evolves, Own, RowOwn, Entitled

LEMMA LoginStays ==
    ASSUME IInv, Evolves, NEW w \in Logins, login'[w] = login[w]
    PROVE  LoginOwn(w)'
<1>1. LoginOwn(w)
  BY DEF IInv
<1>2. CASE login[w].pc \in Homeless
  BY <1>1, <1>2 DEF LoginOwn, Homeless
<1>3. CASE login[w].pc \notin Homeless
  <2>1. PICK i, s, row : i = login[w].id /\ s = login[w].subject /\ row = login[w].row
    OBVIOUS
  <2>2. Own(i, s) /\ i \in Ids /\ s \in Subjects
    BY <1>1, <1>3, <2>1 DEF LoginOwn, Homeless, Own
  <2>3. Own(i, s)'
    BY <2>2, StaysOwn
  <2>4. RowOwn(i, row) => RowOwn(i, row)'
    BY <2>2, RowStays
  <2>5. social[s] = i => social'[s] = i
    BY <2>2 DEF Evolves, Ids, NoId
  <2>6. /\ Own(login[w].id, login[w].subject)'
        /\ RowOwn(login[w].id, login[w].row) => RowOwn(login[w].id, login[w].row)'
    BY <2>1, <2>3, <2>4 DEF Own, RowOwn, Entitled, Exists
  <2> QED
    BY <1>1, <1>3, <2>1, <2>2, <2>5, <2>6 DEF LoginOwn, Homeless
<1> QED
  BY <1>2, <1>3

LEMMA RefreshStays ==
    ASSUME IInv, Evolves, NEW f \in Refreshers, refresh'[f] = refresh[f]
    PROVE  RefreshExplained(f)'
<1>1. PICK i, n : i = refresh[f].target /\ n = refresh[f].cur
  OBVIOUS
<1>2. i # NoId => n # NoName /\ Explained(i, n)
  BY <1>1 DEF IInv, RefreshExplained
<1>3. i # NoId => n # NoName /\ Explained(i, n)'
  BY <1>2, StaysExplained
<1> QED
  BY <1>1, <1>3 DEF RefreshExplained, Explained, Exists

\* Whoever steps, these are what is left to show.
LEMMA Assembled ==
    ASSUME IInv, Evolves, AccountsRight',
           \A s \in Subjects : social'[s] # NoId => social'[s] = social[s] \/ Own(social[s], s)',
           \A i \in Ids : ceph'[i] # NoName => ceph'[i] = ceph[i] \/ Explained(i, ceph[i])',
           known' \subseteq Subjects, sessions' \subseteq Ids,
           \A i \in sessions' : i \in sessions \/ Exists(i)',
           ceph' \in [Ids -> Names \cup {NoName}], upstream' \subseteq Names,
           login' \in [Logins -> Login], refresh' \in [Refreshers -> Refresh],
           \A w \in Logins : login'[w] = login[w] \/ LoginOwn(w)',
           \A f \in Refreshers : refresh'[f] = refresh[f] \/ RefreshExplained(f)'
    PROVE  IInv'
<1>1. TypeOK'
  BY DEF TypeOK, Evolves
<1>2. (\A s \in Subjects : social[s] # NoId => Own(social[s], s))'
  <2>1. ASSUME NEW s \in Subjects, social'[s] # NoId, social'[s] = social[s]
        PROVE  Own(social[s], s)'
    <3>1. PICK i : i = social[s]
      OBVIOUS
    <3>2. Own(i, s)
      BY <2>1, <3>1 DEF IInv
    <3>3. Own(i, s)'
      BY <3>2, StaysOwn
    <3> QED
      BY <2>1, <3>1, <3>3 DEF Own, Exists, Entitled
  <2> QED
    BY <2>1
<1>3. (\A i \in Ids : ceph[i] # NoName => Explained(i, ceph[i]))'
  <2>1. ASSUME NEW i \in Ids, ceph'[i] # NoName, ceph'[i] = ceph[i]
        PROVE  Explained(i, ceph[i])'
    <3>1. PICK n : n = ceph[i]
      OBVIOUS
    <3>2. Explained(i, n)
      BY <2>1, <3>1 DEF IInv
    <3>3. Explained(i, n)'
      BY <3>2, StaysExplained
    <3> QED
      BY <2>1, <3>1, <3>3 DEF Explained, Exists
  <2> QED
    BY <2>1
<1>4. (\A w \in Logins : LoginOwn(w))'
  BY LoginStays
<1>5. (\A f \in Refreshers : RefreshExplained(f))'
  BY RefreshStays
<1>6. (\A i \in sessions : Exists(i))'
  BY DEF IInv, Evolves, TypeOK
<1> QED
  BY <1>1, <1>2, <1>3, <1>4, <1>5, <1>6 DEF IInv

LEMMA Stuck ==
    ASSUME IInv, UNCHANGED <<account, social, madeFor, guests>>
    PROVE  Evolves /\ AccountsRight'
<1>1. Evolves
  BY DEF IInv, TypeOK, Evolves, Exists
<1>2. AccountsRight'
  BY DEF IInv, AccountsRight, Exists, Entitled
<1> QED
  BY <1>1, <1>2

\* Saving what a login loaded, once it has a subject.
LEMMA SavedRight ==
    ASSUME IInv, NEW i \in Ids, NEW s, Own(i, s), NEW row \in Account, RowOwn(i, row),
           row.ext \in Subjects, account' = [account EXCEPT ![i] = row],
           UNCHANGED <<social, madeFor, guests>>
    PROVE  Evolves /\ AccountsRight' /\ RowOwn(i, row)'
<1>1. account \in [Ids -> Account]
  BY DEF IInv, TypeOK
<1>2. /\ account' \in [Ids -> Account] /\ account'[i] = row
      /\ \A j \in Ids \ {i} : account'[j] = account[j]
  BY <1>1
<1>3. row.ext # Nobody /\ row.ext # Placeholder
  BY AccountsAssumption
<1>4. row.name = account[i].name /\ Entitled(i, row.ext) /\ Exists(i)
  BY <1>3 DEF RowOwn, Own
<1>5. Evolves
  BY <1>2, <1>3, <1>4 DEF IInv, TypeOK, Evolves, Exists
<1>6. AccountsRight'
  <2>1. ASSUME NEW j \in Ids
        PROVE  (/\ ~Exists(j) => account[j].name = NoName
                /\ account[j].ext = Placeholder => account[j].name = <<madeFor[j], 0>>
                /\ account[j].ext \in Subjects => Entitled(j, account[j].ext))'
    <3>1. CASE j = i
      BY <1>2, <1>3, <1>4, <3>1 DEF Exists, Entitled
    <3>2. CASE j # i
      BY <1>2, <3>2 DEF IInv, AccountsRight, Exists, Entitled
    <3> QED
      BY <3>1, <3>2
  <2> QED
    BY <2>1 DEF AccountsRight
<1>7. RowOwn(i, row)'
  BY <1>2, <1>3, <1>4 DEF RowOwn, Entitled
<1> QED
  BY <1>5, <1>6, <1>7

-----------------------------------------------------------------------------
(* The actions of a login *)

\* A step of login w alone, which leaves it at l.
LEMMA LoginMoved ==
    ASSUME IInv, Evolves, AccountsRight', NEW w \in Logins, NEW l \in Login,
           login' = [login EXCEPT ![w] = l], LoginOwn(w)',
           UNCHANGED <<social, known, ceph, upstream, sessions, refresh>>
    PROVE  IInv'
<1>1. /\ login' \in [Logins -> Login]
      /\ \A v \in Logins : login'[v] = login[v] \/ LoginOwn(v)'
  BY DEF IInv, TypeOK
<1>2. /\ known' \subseteq Subjects /\ sessions' \subseteq Ids
      /\ ceph' \in [Ids -> Names \cup {NoName}] /\ upstream' \subseteq Names
      /\ refresh' \in [Refreshers -> Refresh]
  BY DEF IInv, TypeOK
<1> QED
  BY <1>1, <1>2, Assembled

LEMMA Ended ==
    ASSUME IInv, NEW w \in Logins, NEW l \in Login, l.pc \in {"idle", "dead"},
           login' = [login EXCEPT ![w] = l]
    PROVE  LoginOwn(w)'
<1>1. login'[w] = l
  BY DEF IInv, TypeOK
<1> QED
  BY <1>1 DEF LoginOwn, Homeless

LEMMA FailsKeeps ==
    ASSUME IInv, NEW w \in Logins, Fails(w),
           UNCHANGED <<account, social, known, ceph, upstream, sessions, refresh, history>>
    PROVE  IInv'
<1>1. NoLogin \in Login /\ NoLogin.pc = "idle"
  BY SmallTypes DEF NoLogin
<1>2. UNCHANGED <<account, social, madeFor, guests>>
  BY DEF history
<1>3. Evolves /\ AccountsRight'
  BY <1>2, Stuck
<1>4. login' = [login EXCEPT ![w] = NoLogin]
  BY DEF Fails
<1>5. LoginOwn(w)'
  BY <1>1, <1>4, Ended
<1> QED
  BY <1>1, <1>3, <1>4, <1>5, LoginMoved

\* Going on with an account that is, and stays, one's own.
LEMMA GoesOn ==
    ASSUME IInv, Evolves, NEW w \in Logins, NEW l \in Login, login' = [login EXCEPT ![w] = l],
           l.subject \in Subjects, Own(l.id, l.subject), l.pc \notin Homeless,
           l.pc = "show" => l.found \in Display,
           l.pc = "display" => l.row.mail \in Mailboxes,
           l.pc \in {"save", "display", "show", "associate", "details"} => RowOwn(l.id, l.row)',
           l.pc \in {"details", "persist", "admit"} => social'[l.subject] = l.id
    PROVE  LoginOwn(w)'
<1>1. login'[w] = l
  BY DEF IInv, TypeOK
<1>2. Own(l.id, l.subject)'
  BY StaysOwn
<1> QED
  BY <1>1, <1>2 DEF LoginOwn, Homeless, Own, RowOwn, Entitled, Exists

\* Loading an account of one's own, from which the pipeline goes on.
LEMMA LoadKeeps ==
    ASSUME IInv, NEW w \in Logins, NEW s \in Subjects, NEW i \in Ids, Loads(w, s, i),
           Evolves, AccountsRight', Own(i, s)', UNCHANGED <<account, madeFor>>,
           UNCHANGED <<social, known, ceph, upstream, sessions, refresh>>
    PROVE  IInv'
<1> DEFINE l == [pc |-> "save", subject |-> s, id |-> i, row |-> account[i], found |-> NoName]
<1>1. account[i] \in Account /\ login \in [Logins -> Login]
  BY DEF IInv, TypeOK
<1>2. l \in Login
  BY <1>1 DEF Login
<1>3. login' = [login EXCEPT ![w] = l]
  BY DEF Loads
<1>4. Exists(i) /\ RowOwn(i, account[i])'
  <2>1. Exists(i)
    BY DEF Own, Exists
  <2>2. account[i].ext \in Subjects \cup {Placeholder}
    BY <1>1, <2>1 DEF Exists, Account
  <2>3. account[i].ext \in Subjects => Entitled(i, account[i].ext)'
    BY DEF AccountsRight
  <2> QED
    BY <2>1, <2>2, <2>3 DEF RowOwn, Entitled
<1>5. LoginOwn(w)'
  <2>1. login'[w] = l
    BY <1>1, <1>3
  <2>2. /\ login'[w].pc = "save" /\ login'[w].subject = s /\ login'[w].id = i
        /\ login'[w].row = account[i]
    BY <2>1
  <2> HIDE DEF l
  <2> QED
    BY <1>4, <2>2 DEF LoginOwn, Homeless, Own, RowOwn, Entitled, Exists
<1> HIDE DEF l
<1> QED
  BY <1>2, <1>3, <1>5, LoginMoved
LEMMA BeginsKeeps ==
    ASSUME IInv, NEW w \in Logins, NEW s \in Subjects, LoginBegins(w, s)
    PROVE  IInv'
<1>1. UNCHANGED <<account, social, known, ceph, upstream, sessions, refresh, madeFor, guests>>
  BY DEF LoginBegins, history
<1>2. Evolves /\ AccountsRight'
  BY <1>1, Stuck
<1>3. ASSUME NEW i \in Ids, Own(i, s), Loads(w, s, i)
      PROVE  IInv'
  <2>1. Own(i, s)'
    BY <1>2, <1>3, StaysOwn
  <2> QED
    BY <1>1, <1>2, <1>3, <2>1, LoadKeeps
<1>4. CASE social[s] # NoId /\ Loads(w, s, social[s])
  <2>1. PICK i : i = social[s]
    OBVIOUS
  <2>2. Own(i, s) /\ i \in Ids /\ Loads(w, s, i)
    BY <1>4, <2>1 DEF IInv, Own
  <2> QED
    BY <1>3, <2>2
<1>5. ASSUME NEW i \in Ids, social[s] = NoId, Claimable(i, s), Loads(w, s, i)
      PROVE  IInv'
  <2>1. ceph[i] = Preferred[s] /\ account[i].ext = Placeholder
    BY <1>5 DEF Claimable
  <2>2. Explained(i, Preferred[s])
    BY <2>1, AccountsAssumption DEF IInv, NoName
  <2>3. ASSUME NEW t \in Subjects, social[t] = i, Preferred[t] = Preferred[s]
        PROVE  FALSE
    <3>1. t = s
      BY <2>3, AccountsAssumption
    <3> QED
      BY <1>5, <2>3, <3>1 DEF Ids, NoId
  <2>4. account[i].name = <<Preferred[s], 0>>
    BY <2>2, <2>3 DEF Explained
  <2>5. account[i].name = <<madeFor[i], 0>>
    BY <2>1 DEF IInv, AccountsRight
  <2>6. madeFor[i] = Preferred[s]
    BY <2>4, <2>5
  <2>7. Own(i, s)
    BY <2>2, <2>6 DEF Own, Entitled, Explained
  <2> QED
    BY <1>3, <1>5, <2>7
<1>6. CASE login' = [login EXCEPT ![w] = [NoLogin EXCEPT !.pc = "name", !.subject = s]]
  <2> DEFINE l == [NoLogin EXCEPT !.pc = "name", !.subject = s]
  <2>1. l \in Login /\ l.pc = "name" /\ l.subject = s
    BY SmallTypes DEF NoLogin, Login
  <2>2. login' = [login EXCEPT ![w] = l]
    BY <1>6
  <2> HIDE DEF l
  <2>3. login'[w] = l
    BY <2>2 DEF IInv, TypeOK
  <2>4. LoginOwn(w)'
    BY <2>1, <2>3 DEF LoginOwn, Homeless
  <2> QED
    BY <1>1, <1>2, <2>1, <2>2, <2>4, LoginMoved
<1> QED
  BY <1>4, <1>5, <1>6 DEF LoginBegins

\* A guest is entered in guests, and so is at home in the session's account.
LEMMA OverSessionKeeps ==
    ASSUME IInv, NEW w \in Logins, NEW s \in Subjects, NEW i \in Ids, LoginOverSession(w, s, i)
    PROVE  IInv'
<1>1. UNCHANGED <<account, social, known, ceph, upstream, sessions, refresh, madeFor>>
  BY DEF LoginOverSession
<1>2. /\ guests \in [Ids -> SUBSET Subjects] /\ guests' \in [Ids -> SUBSET Subjects]
      /\ \A j \in Ids : guests[j] \subseteq guests'[j]
      /\ social[s] = NoId => s \in guests'[i]
  BY DEF LoginOverSession, IInv, TypeOK
<1>3. Evolves
  BY <1>1, <1>2 DEF Evolves, IInv, TypeOK, Exists
<1>4. AccountsRight'
  BY <1>1, <1>2 DEF IInv, AccountsRight, Exists, Entitled
<1>5. Own(i, s)'
  <2>1. CASE social[s] = NoId
    BY <1>1, <1>2, <2>1 DEF LoginOverSession, IInv, Own, Exists, Entitled
  <2>2. CASE social[s] = i
    <3>1. Own(i, s)
      BY <2>2 DEF IInv, Ids, NoId
    <3> QED
      BY <1>3, <3>1, StaysOwn
  <2> QED
    BY <2>1, <2>2 DEF LoginOverSession
<1>6. Loads(w, s, i)
  BY DEF LoginOverSession
<1> QED
  BY <1>1, <1>3, <1>4, <1>5, <1>6, LoadKeeps

LEMMA PickUsernameKeeps ==
    ASSUME IInv, NEW w \in Logins, PickUsername(w)
    PROVE  IInv'
<1>1. UNCHANGED <<account, social, known, ceph, upstream, sessions, refresh, madeFor, guests>>
  BY DEF PickUsername, history
<1>2. Evolves /\ AccountsRight'
  BY <1>1, Stuck
<1>3. login \in [Logins -> Login] /\ login[w] \in Login /\ login[w].subject \in Subjects
  BY HeldTypes DEF PickUsername
<1>4. PICK n \in Tries :
        login' = [login EXCEPT ![w].pc = "create",
                               ![w].found = <<LocalName[login[w].subject], n>>]
  BY DEF PickUsername
<1> DEFINE l == [login[w] EXCEPT !.pc = "create", !.found = <<LocalName[login[w].subject], n>>]
<1>5. <<LocalName[login[w].subject], n>> \in Username
  BY <1>3, AccountsAssumption DEF Username
<1>6. /\ l \in Login /\ l.pc = "create" /\ l.subject = login[w].subject
      /\ l.found \in Username
  BY <1>3, <1>5 DEF Login
<1>7. login' = [login EXCEPT ![w] = l]
  BY <1>4
<1> HIDE DEF l
<1>8. login'[w] = l
  BY <1>3, <1>7
<1>9. LoginOwn(w)'
  BY <1>3, <1>6, <1>8 DEF LoginOwn, Homeless
<1> QED
  BY <1>1, <1>2, <1>6, <1>7, <1>9, LoginMoved

LEMMA CreateUserKeeps ==
    ASSUME IInv, NEW w \in Logins, NEW i \in Ids, CreateUser(w, i)
    PROVE  IInv'
<1>1. PICK s \in Subjects, row \in Account :
        /\ s = login[w].subject /\ row = NewAccount(s, login[w].found)
        /\ row.ext = s /\ row.name = login[w].found
  <2>1. login[w].subject \in Subjects /\ login[w].found \in Username
    BY DEF IInv, LoginOwn, CreateUser
  <2> QED
    BY <2>1, SmallTypes DEF NewAccount
<1> DEFINE l == [pc |-> "save", subject |-> s, id |-> i, row |-> row, found |-> NoName]
<1>3. account \in [Ids -> Account] /\ ~Exists(i) /\ account' = [account EXCEPT ![i] = row]
  BY <1>1 DEF IInv, TypeOK, CreateUser, FreshId
<1>4. madeFor' = [madeFor EXCEPT ![i] = Preferred[s]] /\ Preferred[s] \in Names
  BY <1>1, AccountsAssumption DEF CreateUser
<1>5. UNCHANGED <<social, known, ceph, upstream, sessions, refresh, guests>>
  BY DEF CreateUser
<1>6. login' = [login EXCEPT ![w] = l]
  BY <1>1 DEF CreateUser
<1>7. l \in Login
  BY DEF Login
<1>8. /\ l.pc = "save" /\ l.subject = s /\ l.id = i /\ l.row = row
  OBVIOUS
<1> HIDE DEF l
<1>9. /\ account' \in [Ids -> Account] /\ account'[i] = row
      /\ \A j \in Ids \ {i} : account'[j] = account[j]
      /\ madeFor' \in [Ids -> Names \cup {NoName}] /\ madeFor'[i] = Preferred[s]
      /\ \A j \in Ids \ {i} : madeFor'[j] = madeFor[j]
  BY <1>3, <1>4 DEF IInv, TypeOK
<1>10. Evolves
  BY <1>3, <1>5, <1>9 DEF Evolves, IInv, TypeOK, Exists
<1>11. Exists(i)' /\ Entitled(i, s)'
  BY <1>1, <1>9, AccountsAssumption DEF Exists, Entitled
<1>12. AccountsRight'
  <2>1. ASSUME NEW j \in Ids
        PROVE  (/\ ~Exists(j) => account[j].name = NoName
                /\ account[j].ext = Placeholder => account[j].name = <<madeFor[j], 0>>
                /\ account[j].ext \in Subjects => Entitled(j, account[j].ext))'
    <3>1. CASE j = i
      <4>1. account'[j].ext = s /\ s # Placeholder
        BY <1>1, <1>9, <3>1, AccountsAssumption
      <4> QED
        BY <1>9, <1>11, <3>1, <4>1 DEF Exists, Entitled
    <3>2. CASE j # i
      BY <1>5, <1>9, <3>2 DEF IInv, AccountsRight, Exists, Entitled
    <3> QED
      BY <3>1, <3>2
  <2> QED
    BY <2>1 DEF AccountsRight
<1>13. RowOwn(i, row)'
  BY <1>1, <1>9, <1>11 DEF RowOwn, Entitled
<1>14. LoginOwn(w)'
  <2>1. login'[w] = l
    BY <1>6 DEF IInv, TypeOK
  <2>2. Own(i, s)'
    BY <1>11 DEF Own
  <2> QED
    BY <1>1, <1>8, <1>13, <2>1, <2>2 DEF LoginOwn, Homeless, Own, RowOwn, Entitled, Exists
<1> QED
  BY <1>5, <1>6, <1>7, <1>10, <1>12, <1>14, LoginMoved

LEMMA CreateUserConflictsKeeps ==
    ASSUME IInv, NEW w \in Logins, CreateUserConflicts(w)
    PROVE  IInv'
<1> DEFINE s == login[w].subject
<1>1. UNCHANGED <<account, social, known, ceph, upstream, sessions, refresh, madeFor, guests>>
  BY DEF CreateUserConflicts, history
<1>2. Evolves /\ AccountsRight'
  BY <1>1, Stuck
<1>3. s \in Subjects
  BY DEF IInv, LoginOwn, CreateUserConflicts
<1>4. ASSUME NEW i \in Ids, account[i].ext = s, Loads(w, s, i)
      PROVE  IInv'
  <2>1. PICK t \in Subjects : t = s
    BY <1>3
  <2>2. account[i].ext = t /\ Loads(w, t, i)
    BY <1>4, <2>1
  <2>3. Own(i, t)
    BY <2>2, AccountsAssumption DEF IInv, AccountsRight, Own, Exists
  <2>4. Own(i, t)'
    BY <1>2, <2>3, StaysOwn
  <2> QED
    BY <1>1, <1>2, <2>2, <2>4, LoadKeeps
<1>5. ASSUME Fails(w)
      PROVE  IInv'
  BY <1>1, <1>5, FailsKeeps DEF history
<1> QED
  BY <1>4, <1>5 DEF CreateUserConflicts

\* Goto leaves a login at its own account.
LEMMA GotoOwn ==
    ASSUME IInv, Evolves, NEW w \in Logins, login[w].pc \notin Homeless,
           NEW i, i = login[w].id, NEW s, s = login[w].subject,
           NEW pc \in {"associate", "details", "persist", "admit"}, NEW row \in Account,
           Goto(w, pc, row), pc \in {"associate", "details"} => RowOwn(i, row)',
           pc # "associate" => social'[s] = i
    PROVE  \E l \in Login : login' = [login EXCEPT ![w] = l] /\ LoginOwn(w)'
<1> DEFINE m == [login[w] EXCEPT !.pc = pc, !.row = row, !.found = NoName]
<1>1. login[w] \in Login /\ s \in Subjects /\ Own(i, s)
  BY HeldTypes DEF Homeless
<1>2. m \in Login /\ m.pc = pc /\ m.row = row /\ m.subject = s /\ m.id = i
  BY <1>1 DEF Login
<1>3. PICK l \in Login : l = m
  BY <1>2
<1>4. login' = [login EXCEPT ![w] = l]
  BY <1>3 DEF Goto
<1>5. l.pc = pc /\ l.row = row /\ l.subject = s /\ l.id = i
  BY <1>2, <1>3
<1>6. /\ l.pc \in {"save", "display", "show", "associate", "details"} => RowOwn(l.id, l.row)'
      /\ l.pc \in {"details", "persist", "admit"} => social'[l.subject] = l.id
  BY <1>5
<1> HIDE DEF m
<1>7. LoginOwn(w)'
  BY <1>1, <1>4, <1>5, <1>6, GoesOn DEF Homeless
<1> QED
  BY <1>4, <1>7

\* So does going on from a save of the row.
LEMMA GoesOnOwn ==
    ASSUME IInv, Evolves, NEW w \in Logins, login[w].pc = "save",
           NEW i, i = login[w].id, NEW s, s = login[w].subject,
           NEW row \in Account, GoesOnWith(w, row), RowOwn(i, row)'
    PROVE  \E l \in Login : login' = [login EXCEPT ![w] = l] /\ LoginOwn(w)'
<1>1. CASE ~NeedsDisplay(row)
  <2>1. Goto(w, "associate", row)
    BY <1>1 DEF GoesOnWith
  <2> QED
    BY <2>1, GotoOwn DEF Homeless
<1>2. CASE NeedsDisplay(row)
  <2> DEFINE m == [login[w] EXCEPT !.pc = "display", !.row = row]
  <2>1. login[w] \in Login /\ s \in Subjects /\ Own(i, s)
    BY HeldTypes DEF Homeless
  <2>2. m \in Login /\ m.pc = "display" /\ m.row = row /\ m.subject = s /\ m.id = i
    BY <2>1 DEF Login
  <2>3. PICK l \in Login : l = m
    BY <2>2
  <2>4. login' = [login EXCEPT ![w] = l]
    BY <1>2, <2>3 DEF GoesOnWith
  <2>5. l.pc = "display" /\ l.row = row /\ l.subject = s /\ l.id = i
    BY <2>2, <2>3
  <2> HIDE DEF m
  <2>6. row.mail \in Mailboxes
    BY <1>2 DEF NeedsDisplay, Account
  <2>7. RowOwn(l.id, l.row)'
    BY <2>5
  <2>8. LoginOwn(w)'
    BY <2>1, <2>4, <2>5, <2>6, <2>7, GoesOn DEF Homeless
  <2> QED
    BY <2>4, <2>8
<1> QED
  BY <1>1, <1>2

\* What a login holds.
LEMMA Held ==
    ASSUME IInv, NEW w \in Logins, login[w].pc \notin Homeless
    PROVE  \E i \in Ids, s \in Subjects, row \in Account :
             /\ i = login[w].id /\ s = login[w].subject /\ row = login[w].row /\ Own(i, s)
             /\ login[w].pc \in {"save", "display", "show", "associate", "details"} => RowOwn(i, row)
             /\ login[w].pc \in {"details", "persist", "admit"} => social[s] = i
<1>1. /\ login[w].row \in Account /\ login[w].subject \in Subjects /\ login[w].id \in Ids
      /\ Own(login[w].id, login[w].subject)
  BY HeldTypes DEF Homeless
<1> QED
  BY <1>1 DEF IInv, LoginOwn

LEMMA SaveUserKeeps ==
    ASSUME IInv, NEW w \in Logins, SaveUser(w)
    PROVE  IInv'
<1>1. login[w].pc = "save" /\ login[w].pc \notin Homeless
  BY DEF SaveUser, Homeless
<1>2. PICK i \in Ids, s \in Subjects, old \in Account :
        /\ i = login[w].id /\ s = login[w].subject /\ old = login[w].row
        /\ Own(i, s) /\ RowOwn(i, old)
  BY <1>1, Held
<1>3. PICK row \in Account : row = Filled(old, s)
  BY FilledType
<1>4. row.ext \in Subjects /\ RowOwn(i, row)
  BY <1>2, <1>3, FilledType, AccountsAssumption DEF RowOwn, Own
<1>5. /\ account' = [account EXCEPT ![i] = row] /\ GoesOnWith(w, row)
      /\ UNCHANGED <<social, known, ceph, upstream, sessions, refresh, madeFor, guests>>
  BY <1>2, <1>3 DEF SaveUser, history
<1>6. Evolves /\ AccountsRight' /\ RowOwn(i, row)'
  BY <1>2, <1>4, <1>5, SavedRight
<1>7. PICK l \in Login : login' = [login EXCEPT ![w] = l] /\ LoginOwn(w)'
  BY <1>1, <1>2, <1>5, <1>6, GoesOnOwn
<1> QED
  BY <1>5, <1>6, <1>7, LoginMoved

LEMMA SaveUserConflictsKeeps ==
    ASSUME IInv, NEW w \in Logins, SaveUserConflicts(w)
    PROVE  IInv'
<1>1. login[w].pc = "save" /\ login[w].pc \notin Homeless
  BY DEF SaveUserConflicts, Homeless
<1>2. PICK i \in Ids, s \in Subjects :
        i = login[w].id /\ s = login[w].subject /\ Own(i, s)
  BY <1>1, Held
<1>3. UNCHANGED <<account, social, known, ceph, upstream, sessions, refresh, madeFor, guests>>
  BY DEF SaveUserConflicts, history
<1>4. Evolves /\ AccountsRight'
  BY <1>3, Stuck
<1>5. CASE GoesOnWith(w, account[login[w].id])
  <2>1. PICK row \in Account : row = account[i]
    BY DEF IInv, TypeOK
  <2>2. GoesOnWith(w, row)
    BY <1>2, <1>5, <2>1
  <2>3. Exists(i) /\ row.ext \in Subjects \cup {Placeholder}
    BY <1>2, <2>1 DEF Own, Exists, Account
  <2>4. row.ext \in Subjects => Entitled(i, row.ext)
    BY <2>1 DEF IInv, AccountsRight
  <2>5. RowOwn(i, row)
    BY <2>1, <2>3, <2>4 DEF RowOwn
  <2>6. RowOwn(i, row)'
    BY <1>2, <1>4, <2>5, RowStays
  <2>7. PICK l \in Login : login' = [login EXCEPT ![w] = l] /\ LoginOwn(w)'
    BY <1>1, <1>2, <1>4, <2>2, <2>6, GoesOnOwn
  <2> QED
    BY <1>3, <1>4, <2>7, LoginMoved
<1>6. CASE Fails(w)
  BY <1>3, <1>6, FailsKeeps DEF history
<1> QED
  BY <1>5, <1>6 DEF SaveUserConflicts

LEMMA PickDisplayKeeps ==
    ASSUME IInv, NEW w \in Logins, PickDisplay(w)
    PROVE  IInv'
<1>1. login[w].pc = "display" /\ login[w].pc \notin Homeless
  BY DEF PickDisplay, Homeless
<1>2. PICK i \in Ids, s \in Subjects, row \in Account :
        /\ i = login[w].id /\ s = login[w].subject /\ row = login[w].row
        /\ Own(i, s) /\ RowOwn(i, row)
  BY <1>1, Held
<1>3. UNCHANGED <<account, social, known, ceph, upstream, sessions, refresh, madeFor, guests>>
  BY DEF PickDisplay, history
<1>4. Evolves /\ AccountsRight'
  BY <1>3, Stuck
<1>5. PICK n \in Tries :
        login' = [login EXCEPT ![w].pc = "show", ![w].found = <<login[w].row.mail, n>>]
  BY DEF PickDisplay
<1>6. PICK d \in Display : d = <<login[w].row.mail, n>>
  BY <1>1 DEF IInv, LoginOwn, Display
<1> DEFINE m == [login[w] EXCEPT !.pc = "show", !.found = d]
<1>7. login[w] \in Login
  BY HeldTypes
<1>8. /\ m \in Login /\ m.pc = "show" /\ m.found = d /\ m.row = row /\ m.subject = s
      /\ m.id = i
  BY <1>2, <1>7 DEF Login
<1>9. PICK l \in Login : l = m
  BY <1>8
<1>10. login' = [login EXCEPT ![w] = l]
  BY <1>5, <1>6, <1>9
<1>11. /\ l.pc = "show" /\ l.found = d /\ l.row = row /\ l.subject = s /\ l.id = i
  BY <1>8, <1>9
<1> HIDE DEF m
<1>12. RowOwn(i, row)'
  BY <1>2, <1>4, RowStays
<1>13. RowOwn(l.id, l.row)'
  BY <1>11, <1>12
<1>14. LoginOwn(w)'
  BY <1>2, <1>4, <1>10, <1>11, <1>13, GoesOn DEF Homeless
<1> QED
  BY <1>3, <1>4, <1>10, <1>14, LoginMoved

LEMMA SaveDisplayKeeps ==
    ASSUME IInv, NEW w \in Logins, SaveDisplay(w)
    PROVE  IInv'
<1>1. login[w].pc = "show" /\ login[w].pc \notin Homeless
  BY DEF SaveDisplay, Homeless
<1>2. PICK i \in Ids, s \in Subjects, old \in Account :
        /\ i = login[w].id /\ s = login[w].subject /\ old = login[w].row
        /\ Own(i, s) /\ RowOwn(i, old)
  BY <1>1, Held
<1>3. UNCHANGED <<social, known, ceph, upstream, sessions, refresh, madeFor, guests>>
  BY DEF SaveDisplay, history
<1>4. CASE Fails(w) /\ UNCHANGED account
  BY <1>3, <1>4, FailsKeeps DEF history
<1>5. CASE /\ Goto(w, "associate", [login[w].row EXCEPT !.display = login[w].found])
           /\ account' = [account EXCEPT ![login[w].id].display = login[w].found]
  <2>1. PICK d \in Display : d = login[w].found
    BY <1>1 DEF IInv, LoginOwn
  <2>2. account \in [Ids -> Account] /\ account[i] \in Account
    BY DEF IInv, TypeOK
  <2>3. /\ account' = [account EXCEPT ![i] = [@ EXCEPT !.display = d]]
        /\ [account[i] EXCEPT !.display = d] \in Account
    BY <1>2, <1>5, <2>1, <2>2 DEF Account
  <2>4. /\ account' \in [Ids -> Account]
        /\ \A j \in Ids : account'[j].name = account[j].name /\ account'[j].ext = account[j].ext
    BY <2>2, <2>3 DEF Account
  <2>5. Evolves /\ AccountsRight'
    BY <1>3, <2>4 DEF Evolves, IInv, TypeOK, AccountsRight, Exists, Entitled
  <2>6. PICK row \in Account : row = [old EXCEPT !.display = d]
    BY DEF Account
  <2>7. row.name = old.name /\ row.ext = old.ext
    BY <2>6 DEF Account
  <2>8. RowOwn(i, row)
    BY <1>2, <2>7 DEF RowOwn
  <2>9. RowOwn(i, row)' /\ Goto(w, "associate", row)
    BY <1>2, <1>5, <2>1, <2>5, <2>6, <2>8, RowStays
  <2>10. PICK l \in Login : login' = [login EXCEPT ![w] = l] /\ LoginOwn(w)'
    BY <1>1, <1>2, <2>5, <2>9, GotoOwn
  <2> QED
    BY <1>3, <2>5, <2>10, LoginMoved
<1> QED
  BY <1>4, <1>5 DEF SaveDisplay

\* The association leads to the account that is the login's own.
LEMMA AssociateUserKeeps ==
    ASSUME IInv, NEW w \in Logins, AssociateUser(w)
    PROVE  IInv'
<1>1. login[w].pc = "associate" /\ login[w].pc \notin Homeless
  BY DEF AssociateUser, Homeless
<1>2. PICK i \in Ids, s \in Subjects, row \in Account :
        /\ i = login[w].id /\ s = login[w].subject /\ row = login[w].row
        /\ Own(i, s) /\ RowOwn(i, row)
  BY <1>1, Held
<1>3. UNCHANGED <<account, known, ceph, upstream, sessions, refresh, madeFor, guests>>
  BY DEF AssociateUser, history
<1>4. CASE Fails(w) /\ UNCHANGED social
  BY <1>3, <1>4, FailsKeeps DEF history
<1>5. CASE /\ social[s] \in {NoId, i} /\ Goto(w, "details", row)
           /\ social' = [social EXCEPT ![s] = i]
  <2>1. /\ social' \in [Subjects -> Ids \cup {NoId}] /\ social'[s] = i
        /\ \A t \in Subjects \ {s} : social'[t] = social[t]
    BY <1>2, <1>5 DEF IInv, TypeOK
  <2>2. Evolves
    BY <1>3, <1>5, <2>1 DEF Evolves, IInv, TypeOK, Exists
  <2>3. AccountsRight'
    BY <1>3 DEF IInv, AccountsRight, Exists, Entitled
  <2>4. RowOwn(i, row)' /\ Own(i, s)'
    BY <1>2, <2>2, RowStays, StaysOwn
  <2>5. PICK l \in Login : login' = [login EXCEPT ![w] = l] /\ LoginOwn(w)'
    BY <1>1, <1>2, <1>5, <2>1, <2>2, <2>4, GotoOwn
  <2>6. /\ login' \in [Logins -> Login]
        /\ \A v \in Logins : login'[v] = login[v] \/ LoginOwn(v)'
    BY <2>5 DEF IInv, TypeOK
  <2>7. \A t \in Subjects : social'[t] # NoId => social'[t] = social[t] \/ Own(social[t], t)'
    <3>1. ASSUME NEW t \in Subjects, t = s
          PROVE  Own(social[t], t)'
      BY <2>1, <2>4, <3>1 DEF Own, Exists, Entitled
    <3> QED
      BY <2>1, <3>1
  <2>8. /\ known' \subseteq Subjects /\ sessions' \subseteq Ids
        /\ ceph' \in [Ids -> Names \cup {NoName}] /\ upstream' \subseteq Names
        /\ refresh' \in [Refreshers -> Refresh]
    BY <1>3 DEF IInv, TypeOK
  <2> QED
    BY <1>3, <2>2, <2>3, <2>6, <2>7, <2>8, Assembled
<1> QED
  BY <1>2, <1>4, <1>5 DEF AssociateUser

\* The subject that user_details writes is entitled, as the login's own.
LEMMA UserDetailsKeeps ==
    ASSUME IInv, NEW w \in Logins, UserDetails(w)
    PROVE  IInv'
<1>1. login[w].pc = "details" /\ login[w].pc \notin Homeless
  BY DEF UserDetails, Homeless
<1>2. PICK i \in Ids, s \in Subjects, old \in Account :
        /\ i = login[w].id /\ s = login[w].subject /\ old = login[w].row
        /\ Own(i, s) /\ RowOwn(i, old) /\ social[s] = i
  BY <1>1, Held
<1>3. UNCHANGED <<social, known, ceph, upstream, sessions, refresh, madeFor, guests>>
  BY DEF UserDetails, history
<1>4. PICK row \in Account : row = Detailed(old, s) /\ row.name = old.name /\ row.ext = s
  <2>1. /\ Detailed(old, s) \in Account
        /\ Detailed(old, s).name = old.name /\ Detailed(old, s).ext = s
    BY DEF Detailed, Account
  <2> QED
    BY <2>1
<1>5. RowOwn(i, row)
  BY <1>2, <1>4 DEF RowOwn, Own
<1>6. CASE Fails(w) /\ UNCHANGED account
  BY <1>3, <1>6, FailsKeeps DEF history
<1>7. ASSUME Evolves, AccountsRight', Goto(w, "persist", NoAccount)
      PROVE  IInv'
  <2>1. social'[s] = i
    BY <1>2, <1>3
  <2>2. PICK l \in Login : login' = [login EXCEPT ![w] = l] /\ LoginOwn(w)'
    BY <1>1, <1>2, <1>7, <2>1, SmallTypes, GotoOwn
  <2> QED
    BY <1>3, <1>7, <2>2, LoginMoved
<1>8. CASE account' = [account EXCEPT ![i] = row] /\ Goto(w, "persist", NoAccount)
  <2>1. Evolves /\ AccountsRight'
    BY <1>2, <1>3, <1>4, <1>5, <1>8, SavedRight
  <2> QED
    BY <1>7, <1>8, <2>1
<1>9. CASE UNCHANGED account /\ Goto(w, "persist", NoAccount)
  <2>1. Evolves /\ AccountsRight'
    BY <1>3, <1>9, Stuck
  <2> QED
    BY <1>7, <1>9, <2>1
<1> QED
  BY <1>2, <1>4, <1>6, <1>8, <1>9 DEF UserDetails

LEMMA PersistGroupsKeeps ==
    ASSUME IInv, NEW w \in Logins, PersistGroups(w)
    PROVE  IInv'
<1>1. login[w].pc = "persist" /\ login[w].pc \notin Homeless
  BY DEF PersistGroups, Homeless
<1>2. PICK i \in Ids, s \in Subjects :
        i = login[w].id /\ s = login[w].subject /\ social[s] = i
  BY <1>1, Held
<1>3. /\ UNCHANGED <<account, social, ceph, upstream, sessions, refresh, madeFor, guests>>
      /\ known' = known \cup {s} /\ Goto(w, "admit", NoAccount)
  BY <1>2 DEF PersistGroups, history
<1>4. Evolves /\ AccountsRight'
  BY <1>3, Stuck
<1>5. PICK l \in Login : login' = [login EXCEPT ![w] = l] /\ LoginOwn(w)'
  BY <1>1, <1>2, <1>3, <1>4, SmallTypes, GotoOwn
<1>6. /\ login' \in [Logins -> Login]
      /\ \A v \in Logins : login'[v] = login[v] \/ LoginOwn(v)'
  BY <1>5 DEF IInv, TypeOK
<1>7. /\ known' \subseteq Subjects /\ sessions' \subseteq Ids
      /\ ceph' \in [Ids -> Names \cup {NoName}] /\ upstream' \subseteq Names
      /\ refresh' \in [Refreshers -> Refresh]
  BY <1>3 DEF IInv, TypeOK
<1> QED
  BY <1>3, <1>4, <1>6, <1>7, Assembled

LEMMA AdmitKeeps ==
    ASSUME IInv, NEW w \in Logins, Admit(w)
    PROVE  IInv'
<1>1. login[w].pc = "admit" /\ login[w].pc \notin Homeless
  BY DEF Admit, Homeless
<1>2. PICK i \in Ids, s \in Subjects :
        i = login[w].id /\ s = login[w].subject /\ Own(i, s) /\ social[s] = i
  BY <1>1, Held
<1>3. PICK n \in Names : n = Preferred[s]
  BY AccountsAssumption
<1>4. /\ UNCHANGED <<account, social, known, upstream, refresh, madeFor, guests>> /\ Fails(w)
      /\ ceph' = [ceph EXCEPT ![i] = n] \/ ceph' = ceph
      /\ sessions' \subseteq sessions \cup {i}
  BY <1>2, <1>3 DEF Admit, history
<1>5. Evolves /\ AccountsRight'
  BY <1>4, Stuck
<1>6. Explained(i, n)' /\ Exists(i)'
  <2>1. Explained(i, n) /\ Exists(i)
    BY <1>2, <1>3 DEF Explained, Own
  <2> QED
    BY <1>5, <2>1, StaysExplained DEF Evolves
<1>7. /\ login' \in [Logins -> Login]
      /\ \A v \in Logins : login'[v] = login[v] \/ LoginOwn(v)'
  <2>1. NoLogin \in Login /\ NoLogin.pc = "idle" /\ login' = [login EXCEPT ![w] = NoLogin]
    BY <1>4, SmallTypes DEF NoLogin, Fails
  <2>2. LoginOwn(w)'
    BY <2>1, Ended
  <2> QED
    BY <2>1, <2>2 DEF IInv, TypeOK
<1>8. /\ ceph' \in [Ids -> Names \cup {NoName}]
      /\ \A j \in Ids : ceph'[j] = ceph[j] \/ (j = i /\ ceph'[j] = n)
  BY <1>4 DEF IInv, TypeOK
<1>9. \A j \in Ids : ceph'[j] # NoName => ceph'[j] = ceph[j] \/ Explained(j, ceph[j])'
  BY <1>6, <1>8 DEF Explained, Exists
<1>10. /\ known' \subseteq Subjects /\ sessions' \subseteq Ids /\ upstream' \subseteq Names
       /\ \A j \in sessions' : j \in sessions \/ Exists(j)'
       /\ refresh' \in [Refreshers -> Refresh]
  BY <1>4, <1>6 DEF IInv, TypeOK, Exists
<1> QED
  BY <1>5, <1>4, <1>7, <1>8, <1>9, <1>10, Assembled

LEMMA LoginDiesKeeps ==
    ASSUME IInv, NEW w \in Logins, LoginDies(w)
    PROVE  IInv'
<1>1. UNCHANGED <<account, social, known, ceph, upstream, sessions, refresh, madeFor, guests>>
  BY DEF LoginDies, history
<1>2. PICK l \in Login : l = [NoLogin EXCEPT !.pc = "dead"] /\ l.pc = "dead"
  <2>1. /\ [NoLogin EXCEPT !.pc = "dead"] \in Login
        /\ [NoLogin EXCEPT !.pc = "dead"].pc = "dead"
    BY SmallTypes DEF NoLogin, Login
  <2> QED
    BY <2>1
<1>3. login' = [login EXCEPT ![w] = l]
  BY <1>2 DEF LoginDies
<1>4. LoginOwn(w)'
  BY <1>2, <1>3, Ended
<1>5. Evolves /\ AccountsRight'
  BY <1>1, Stuck
<1> QED
  BY <1>1, <1>3, <1>4, <1>5, LoginMoved

-----------------------------------------------------------------------------
(* The actions of a refresh *)

\* A step of refresh f that leaves it at r.
LEMMA RefreshMoved ==
    ASSUME IInv, NEW f \in Refreshers, NEW r \in Refresh, refresh' = [refresh EXCEPT ![f] = r],
           r.target # NoId => r.cur # NoName /\ Explained(r.target, r.cur),
           UNCHANGED <<account, social, known, ceph, upstream, sessions, login, madeFor, guests>>
    PROVE  IInv'
<1>1. Evolves /\ AccountsRight'
  BY Stuck
<1>2. refresh \in [Refreshers -> Refresh]
  BY DEF IInv, TypeOK
<1>3. refresh' \in [Refreshers -> Refresh] /\ refresh'[f] = r
      /\ \A g \in Refreshers \ {f} : refresh'[g] = refresh[g]
  BY <1>2
<1>4. RefreshExplained(f)'
  BY <1>3 DEF RefreshExplained, Explained, Exists
<1>5. \A g \in Refreshers : refresh'[g] = refresh[g] \/ RefreshExplained(g)'
  BY <1>3, <1>4
<1>6. /\ known' \subseteq Subjects /\ sessions' \subseteq Ids
      /\ ceph' \in [Ids -> Names \cup {NoName}] /\ upstream' \subseteq Names
      /\ login' \in [Logins -> Login]
  BY DEF IInv, TypeOK
<1> QED
  BY <1>1, <1>3, <1>5, <1>6, Assembled

LEMMA Idles ==
    ASSUME IInv, NEW f \in Refreshers
    PROVE  /\ refresh[f] \in Refresh
           /\ NoRefresh \in Refresh /\ NoRefresh.target = NoId
           /\ \A todo \in SUBSET Names : /\ [NoRefresh EXCEPT !.todo = todo] \in Refresh
                                       /\ [NoRefresh EXCEPT !.todo = todo].target = NoId
<1>1. refresh[f] \in Refresh
  BY DEF IInv, TypeOK
<1> QED
  BY <1>1, SmallTypes DEF NoRefresh, Refresh

LEMMA ListUsersKeeps ==
    ASSUME IInv, NEW f \in Refreshers, ListUsers(f)
    PROVE  IInv'
<1> DEFINE r == [NoRefresh EXCEPT !.todo = upstream]
<1>1. r \in Refresh /\ r.target = NoId
  BY Idles DEF IInv, TypeOK
<1>2. refresh' = [refresh EXCEPT ![f] = r]
  BY DEF ListUsers
<1> HIDE DEF r
<1> QED
  BY <1>1, <1>2, RefreshMoved DEF ListUsers, history

\* Each of the three ways to find somebody finds one it is right about.
LEMMA ResolvedIsExplained ==
    ASSUME IInv, NEW n \in Names, NEW i \in Resolved(n), i # NoId
    PROVE  Explained(i, n)
<1>1. CASE i \in WithCeph(n)
  BY <1>1, AccountsAssumption DEF WithCeph, IInv, NoName
<1>2. CASE i \in WithUsername(n)
  <2>1. i \in Ids /\ account[i].name = <<n, 0>>
    BY <1>2 DEF WithUsername
  <2>2. <<n, 0>> # NoName
    BY SMT DEF NoName
  <2>3. Exists(i)
    BY <2>1, <2>2 DEF IInv, AccountsRight
  <2> QED
    BY <2>1, <2>3 DEF Explained
<1>3. CASE i \in WithAssociation(n)
  <2>1. PICK s \in known : Preferred[s] = n /\ i = social[s]
    BY <1>3 DEF WithAssociation
  <2>2. s \in Subjects /\ Own(i, s)
    BY <2>1 DEF IInv, TypeOK
  <2> QED
    BY <2>1, <2>2 DEF Explained, Own
<1> QED
  BY <1>1, <1>2, <1>3 DEF Resolved

LEMMA ResolvedType ==
    ASSUME IInv, NEW n \in Names
    PROVE  Resolved(n) \subseteq Ids \cup {NoId}
BY DEF Resolved, WithCeph, WithUsername, WithAssociation, IInv, TypeOK

LEMMA ResolveUserKeeps ==
    ASSUME IInv, NEW f \in Refreshers, NEW n \in Names, ResolveUser(f, n)
    PROVE  IInv'
<1>1. PICK i \in Ids \cup {NoId} :
        /\ i # NoId => Explained(i, n)
        /\ refresh' = [refresh EXCEPT ![f] = [todo |-> refresh[f].todo \ {n}, cur |-> n,
                                              target |-> i]]
  BY ResolvedIsExplained, ResolvedType DEF ResolveUser, IInv, TypeOK
<1> DEFINE r == [todo |-> refresh[f].todo \ {n}, cur |-> n, target |-> i]
<1>2. r \in Refresh
  BY Idles, RefreshTypes
<1>3. r.target # NoId => r.cur # NoName /\ Explained(r.target, r.cur)
  BY <1>1, AccountsAssumption DEF NoName
<1>4. refresh' = [refresh EXCEPT ![f] = r]
  BY <1>1
<1> HIDE DEF r
<1> QED
  BY <1>2, <1>3, <1>4, RefreshMoved DEF ResolveUser, history

LEMMA CreatePlaceholderKeeps ==
    ASSUME IInv, NEW f \in Refreshers, NEW i \in Ids, CreatePlaceholder(f, i)
    PROVE  IInv'
<1>1. PICK n \in Names : n = refresh[f].cur
  BY Idles DEF CreatePlaceholder, Refresh
<1>2. UNCHANGED <<social, known, ceph, upstream, sessions, login, guests>>
  BY DEF CreatePlaceholder
<1>3. CASE refresh' = [refresh EXCEPT ![f] = NoRefresh] /\ UNCHANGED <<account, madeFor>>
  BY <1>2, <1>3, Idles, RefreshMoved
<1>4. CASE /\ refresh' = [refresh EXCEPT ![f].target = i]
           /\ account' = [account EXCEPT ![i] = PlaceholderFor(n)]
           /\ madeFor' = [madeFor EXCEPT ![i] = n]
  <2>1. /\ ~Exists(i) /\ PlaceholderFor(n) \in Account
        /\ PlaceholderFor(n).name = <<n, 0>> /\ PlaceholderFor(n).ext = Placeholder
    BY SmallTypes DEF CreatePlaceholder, FreshId, PlaceholderFor
  <2>2. /\ account' \in [Ids -> Account]
        /\ account'[i].name = <<n, 0>> /\ account'[i].ext = Placeholder
        /\ \A j \in Ids \ {i} : account'[j] = account[j]
        /\ madeFor' \in [Ids -> Names \cup {NoName}] /\ madeFor'[i] = n
        /\ \A j \in Ids \ {i} : madeFor'[j] = madeFor[j]
    BY <1>4, <2>1 DEF IInv, TypeOK
  <2>3. Evolves
    BY <1>2, <2>1, <2>2 DEF Evolves, IInv, TypeOK, Exists
  <2>4. AccountsRight'
    <3>1. ASSUME NEW j \in Ids
          PROVE  (/\ ~Exists(j) => account[j].name = NoName
                  /\ account[j].ext = Placeholder => account[j].name = <<madeFor[j], 0>>
                  /\ account[j].ext \in Subjects => Entitled(j, account[j].ext))'
      <4>1. CASE j = i
        BY <2>2, <4>1, AccountsAssumption DEF Exists
      <4>2. CASE j # i
        BY <1>2, <2>2, <4>2 DEF IInv, AccountsRight, Exists, Entitled
      <4> QED
        BY <4>1, <4>2
    <3> QED
      BY <3>1 DEF AccountsRight
  <2>5. refresh \in [Refreshers -> Refresh] /\ [refresh[f] EXCEPT !.target = i] \in Refresh
    BY Idles DEF IInv, TypeOK, Refresh
  <2>6. /\ refresh' \in [Refreshers -> Refresh] /\ refresh'[f].target = i /\ refresh'[f].cur = n
        /\ \A g \in Refreshers \ {f} : refresh'[g] = refresh[g]
    BY <1>1, <1>4, <2>5 DEF Refresh
  <2>7. RefreshExplained(f)'
    BY <2>2, <2>6, AccountsAssumption DEF RefreshExplained, Explained, Exists, NoName
  <2>8. \A g \in Refreshers : refresh'[g] = refresh[g] \/ RefreshExplained(g)'
    BY <2>6, <2>7
  <2>9. /\ known' \subseteq Subjects /\ sessions' \subseteq Ids
        /\ ceph' \in [Ids -> Names \cup {NoName}] /\ upstream' \subseteq Names
        /\ login' \in [Logins -> Login]
    BY <1>2 DEF IInv, TypeOK
  <2> QED
    BY <1>2, <2>3, <2>4, <2>6, <2>8, <2>9, Assembled
<1> QED
  BY <1>1, <1>3, <1>4 DEF CreatePlaceholder

LEMMA ImportMembershipKeeps ==
    ASSUME IInv, NEW f \in Refreshers, ImportMembership(f)
    PROVE  IInv'
<1>1. PICK i \in Ids, n \in Names :
        i = refresh[f].target /\ n = refresh[f].cur /\ Explained(i, n)
  <2>1. /\ refresh[f].target \in Ids /\ refresh[f].cur \in Names
        /\ Explained(refresh[f].target, refresh[f].cur)
    BY Idles DEF ImportMembership, Refresh, IInv, RefreshExplained, NoName
  <2> QED
    BY <2>1
<1> DEFINE r == [NoRefresh EXCEPT !.todo = refresh[f].todo]
<1>2. UNCHANGED <<account, social, known, upstream, sessions, login, madeFor, guests>>
  BY DEF ImportMembership, history
<1>3. r \in Refresh /\ r.target = NoId
  BY Idles DEF Refresh
<1>4. CASE refresh' = [refresh EXCEPT ![f] = NoRefresh] /\ UNCHANGED ceph
  BY <1>2, <1>4, Idles, RefreshMoved
<1>5. CASE refresh' = [refresh EXCEPT ![f] = r] /\ ceph' = [ceph EXCEPT ![i] = n]
  <2> HIDE DEF r
  <2>1. Evolves /\ AccountsRight'
    BY <1>2, Stuck
  <2>2. /\ refresh' \in [Refreshers -> Refresh] /\ refresh'[f].target = NoId
        /\ \A g \in Refreshers \ {f} : refresh'[g] = refresh[g]
    BY <1>3, <1>5 DEF IInv, TypeOK
  <2>3. \A g \in Refreshers : refresh'[g] = refresh[g] \/ RefreshExplained(g)'
    BY <2>2 DEF RefreshExplained
  <2>4. /\ ceph' \in [Ids -> Names \cup {NoName}]
        /\ \A j \in Ids : ceph'[j] = ceph[j] \/ (j = i /\ ceph'[j] = n)
    BY <1>5 DEF IInv, TypeOK
  <2>5. Explained(i, n)'
    BY <1>1, <2>1, StaysExplained
  <2>6. \A j \in Ids : ceph'[j] # NoName => ceph'[j] = ceph[j] \/ Explained(j, ceph[j])'
    BY <2>4, <2>5 DEF Explained, Exists
  <2>7. /\ known' \subseteq Subjects /\ sessions' \subseteq Ids /\ upstream' \subseteq Names
        /\ login' \in [Logins -> Login]
    BY <1>2 DEF IInv, TypeOK
  <2> QED
    BY <1>2, <2>1, <2>2, <2>3, <2>4, <2>6, <2>7, Assembled
<1> QED
  BY <1>1, <1>4, <1>5 DEF ImportMembership

LEMMA SkipUserKeeps ==
    ASSUME IInv, NEW f \in Refreshers, SkipUser(f)
    PROVE  IInv'
<1> DEFINE r == [NoRefresh EXCEPT !.todo = refresh[f].todo]
<1>1. r \in Refresh /\ r.target = NoId
  BY Idles DEF Refresh
<1>2. refresh' = [refresh EXCEPT ![f] = r]
  BY DEF SkipUser
<1> HIDE DEF r
<1> QED
  BY <1>1, <1>2, RefreshMoved DEF SkipUser, history

LEMMA RefreshDiesKeeps ==
    ASSUME IInv, NEW f \in Refreshers, RefreshDies(f)
    PROVE  IInv'
BY Idles, RefreshMoved DEF RefreshDies, history

LEMMA UpstreamAddsKeeps ==
    ASSUME IInv, NEW s \in Subjects, UpstreamAdds(s)
    PROVE  IInv'
<1>1. UNCHANGED <<account, social, known, ceph, login, refresh, sessions, madeFor, guests>>
  BY DEF UpstreamAdds, history
<1>2. Evolves /\ AccountsRight'
  BY <1>1, Stuck
<1>3. /\ upstream' \subseteq Names /\ known' \subseteq Subjects /\ sessions' \subseteq Ids
      /\ ceph' \in [Ids -> Names \cup {NoName}]
      /\ login' \in [Logins -> Login] /\ refresh' \in [Refreshers -> Refresh]
  BY <1>1, AccountsAssumption DEF UpstreamAdds, IInv, TypeOK
<1> QED
  BY <1>1, <1>2, <1>3, Assembled

-----------------------------------------------------------------------------
(* The theorems *)

LEMMA InitOwn == Init => IInv
<1> SUFFICES ASSUME Init PROVE IInv
  OBVIOUS
<1>1. TypeOK
  BY SmallTypes DEF Init, TypeOK
<1>2. AccountsRight
  BY AccountsAssumption DEF Init, AccountsRight, Exists, NoAccount
<1>3. \A w \in Logins : LoginOwn(w)
  BY DEF Init, LoginOwn, NoLogin, Homeless
<1>4. \A f \in Refreshers : RefreshExplained(f)
  BY DEF Init, RefreshExplained, NoRefresh
<1> QED
  BY <1>1, <1>2, <1>3, <1>4 DEF Init, IInv

LEMMA NextOwn == IInv /\ [Next]_vars => IInv'
<1> SUFFICES ASSUME IInv, [Next]_vars PROVE IInv'
  OBVIOUS
<1>1. ASSUME NEW w \in Logins, LoginContinues(w) PROVE IInv'
  BY <1>1, PickUsernameKeeps, CreateUserKeeps, CreateUserConflictsKeeps, SaveUserKeeps,
     SaveUserConflictsKeeps, PickDisplayKeeps, SaveDisplayKeeps, AssociateUserKeeps,
     UserDetailsKeeps, PersistGroupsKeeps, AdmitKeeps DEF LoginContinues
<1>2. ASSUME NEW f \in Refreshers, RefreshStep(f) PROVE IInv'
  BY <1>2, ListUsersKeeps, ResolveUserKeeps, CreatePlaceholderKeeps, ImportMembershipKeeps,
     SkipUserKeeps DEF RefreshStep
<1>3. CASE UNCHANGED vars
  <2>1. /\ UNCHANGED <<account, social, known, ceph, upstream, sessions, login, refresh>>
        /\ UNCHANGED <<madeFor, guests>>
    BY <1>3 DEF vars, history
  <2>2. Evolves /\ AccountsRight'
    BY <2>1, Stuck
  <2>3. /\ upstream' \subseteq Names /\ known' \subseteq Subjects /\ sessions' \subseteq Ids
        /\ ceph' \in [Ids -> Names \cup {NoName}]
        /\ login' \in [Logins -> Login] /\ refresh' \in [Refreshers -> Refresh]
    BY <2>1 DEF IInv, TypeOK
  <2> QED
    BY <2>1, <2>2, <2>3, Assembled
<1> QED
  BY <1>1, <1>2, <1>3, BeginsKeeps, OverSessionKeeps, LoginDiesKeeps, RefreshDiesKeeps,
     UpstreamAddsKeeps DEF Next

LEMMA AlwaysOwn == Spec => []IInv
BY InitOwn, NextOwn, PTL DEF Spec

\* Accounts, associations, memberships, logins and refreshes keep their types
\* through every step of the pipeline and of the refresh.
THEOREM AccountsTypeCorrect == Spec => []TypeOK
<1>1. IInv => TypeOK
  BY DEF IInv
<1> QED
  BY <1>1, AlwaysOwn, PTL

\* social_user, associate_by_ceph_username, create_user, the saves of the loaded
\* row and user_details never lead a person into an account that was made for
\* somebody else, nor write their subject to it, but for the guests who came over
\* that account's session, whatever other logins and refreshes do in between.
THEOREM AccountsAreOwn == Spec => []AccountIsOwn
<1>1. IInv => AccountIsOwn
  BY DEF IInv, AccountsRight, AccountIsOwn, Own
<1> QED
  BY <1>1, AlwaysOwn, PTL

\* A membership's Ceph user name is that of a person who is associated with the
\* account, or the local name that the account was given, by which the refresh
\* looked it up.
THEOREM CephNamesExplained == Spec => []CephNameExplained
<1>1. IInv => CephNameExplained
  BY DEF IInv, CephNameExplained, Explained
<1> QED
  BY <1>1, AlwaysOwn, PTL
=============================================================================
