------------------------------- MODULE Accounts -------------------------------
(***************************************************************************)
(* Who is who.  A person is an OIDC subject of Authentik; RGWSquared knows *)
(* people by Ceph user names, which are their preferred_usernames; Django  *)
(* has accounts.  A first login makes an account and associates it with    *)
(* the subject; the refresh of an RGWSquared-synced tenant looks up each   *)
(* listed name and makes a placeholder account for one it does not know,   *)
(* which a later login claims.                                             *)
(*                                                                         *)
(* The social-auth pipeline is a chain of separate commits: it loads an    *)
(* account, searches for a free user name, creates, saves every field of   *)
(* what it loaded, searches for a free display name, saves it, associates, *)
(* saves every field again, admits.  Other logins, of other people or the  *)
(* same, and refreshes run in between.  social_core's own steps are        *)
(* external.                                                               *)
(*                                                                         *)
(* A login leaves a Django session in the browser.  A person who logs in   *)
(* over somebody's live session is a guest: the pipeline starts with that  *)
(* account and, if the person has none, makes it theirs too.               *)
(*                                                                         *)
(* One synced tenant, whose group everybody has.  RGWSquared adds names    *)
(* and never drops one (TenantAccess has the deactivations).  Names are    *)
(* without "@", so that a placeholder never has a real address.            *)
(***************************************************************************)
EXTENDS Naturals, FiniteSets

CONSTANTS
    Subjects,       \* OIDC subjects
    Names,          \* Ceph user names, and what they sanitise to
    Preferred,      \* preferred_username of each subject
    LocalName,      \* the same in lower case with "_" for blanks and dots
    Mailboxes,
    Mailbox,        \* local part of each subject's address
    NoMail,         \* <name>@placeholder.local
    MaxAccounts,    \* bound on the rows of User
    Placeholder,    \* an external_id ms:<structure>:<name>
    Nobody,
    Logins,
    Refreshers,
    Mortal,         \* login workers that may be killed
    Visitors,       \* bound: subjects who may log in over a live session
    Members         \* bound: subjects whom the institution may add to RGWSquared

ASSUME AccountsAssumption ==
    /\ Preferred \in [Subjects -> Names]
    /\ \A s, t \in Subjects : Preferred[s] = Preferred[t] => s = t
    /\ LocalName \in [Subjects -> Names]
    /\ <<>> \notin Names
    /\ Mailbox \in [Subjects -> Mailboxes] /\ NoMail \notin Mailboxes
    /\ MaxAccounts \in Nat
    /\ Placeholder \notin Subjects /\ Nobody \notin Subjects /\ Placeholder # Nobody
    /\ Mortal \subseteq Logins /\ Visitors \subseteq Subjects /\ Members \subseteq Subjects

VARIABLES
    account,    \* account[i]: row i of User
    social,     \* social[s]: the account of UserSocialAuth's row for s
    known,      \* subjects whose row holds their preferred_username
    ceph,       \* ceph[i]: ceph_username of i's membership
    upstream,   \* user names RGWSquared has
    sessions,   \* accounts that some browser is logged in to
    login,      \* login[w]: the login worker w is serving
    refresh,    \* refresh[f]: the refresh worker f is running
    madeFor,    \* history: the Ceph user name that account i was made for
    guests      \* history: who started a login over a session of i

history == <<madeFor, guests>>
vars == <<account, social, known, ceph, upstream, sessions, login, refresh, history>>

\* Primary keys count up.
Ids == 1 .. MaxAccounts
NoId == 0

\* A number distinguishes equal names: base, base_1, ...; and base, base-2, ...
Tries == 0 .. MaxAccounts
Username == Names \X Tries
Display == Mailboxes \X Tries
NoName == <<>>

Account == [name: Username \cup {NoName}, ext: Subjects \cup {Placeholder, Nobody},
            mail: Mailboxes \cup {NoMail}, display: Display \cup {NoName}]
NoAccount == [name |-> NoName, ext |-> Nobody, mail |-> NoMail, display |-> NoName]
Exists(i) == account[i].ext # Nobody
FreshId(i) == ~Exists(i) /\ \A j \in Ids : j < i => Exists(j)

\* What the pipeline passes on: the account it works on, as it loaded it, and
\* the name it found free.
Login == [pc: {"idle", "name", "create", "save", "display", "show", "associate",
               "details", "persist", "admit", "dead"},
          subject: Subjects \cup {Nobody}, id: Ids \cup {NoId}, row: Account,
          found: Username \cup Display \cup {NoName}]
NoLogin == [pc |-> "idle", subject |-> Nobody, id |-> NoId, row |-> NoAccount,
            found |-> NoName]

Refresh == [todo: SUBSET Names, cur: Names \cup {NoName}, target: Ids \cup {NoId}]
NoRefresh == [todo |-> {}, cur |-> NoName, target |-> NoId]

TypeOK ==
    /\ account \in [Ids -> Account]
    /\ social \in [Subjects -> Ids \cup {NoId}]
    /\ known \subseteq Subjects
    /\ ceph \in [Ids -> Names \cup {NoName}]
    /\ upstream \subseteq Names
    /\ sessions \subseteq Ids
    /\ login \in [Logins -> Login]
    /\ refresh \in [Refreshers -> Refresh]
    /\ madeFor \in [Ids -> Names \cup {NoName}]
    /\ guests \in [Ids -> SUBSET Subjects]

Init ==
    /\ account = [i \in Ids |-> NoAccount]
    /\ social = [s \in Subjects |-> NoId]
    /\ known = {}
    /\ ceph = [i \in Ids |-> NoName]
    /\ upstream = {}
    /\ sessions = {}
    /\ login = [w \in Logins |-> NoLogin]
    /\ refresh = [f \in Refreshers |-> NoRefresh]
    /\ madeFor = [i \in Ids |-> NoName]
    /\ guests = [i \in Ids |-> {}]

\* The pipeline goes on with the object it has; what later steps do not read is
\* forgotten.
Goto(w, pc, row) == login' = [login EXCEPT ![w] = [@ EXCEPT !.pc = pc, !.row = row,
                                                            !.found = NoName]]
Fails(w) == login' = [login EXCEPT ![w] = NoLogin]

-----------------------------------------------------------------------------
(* The pipeline *)

\* social_user, then associate_by_ceph_username.
AnyMember(i, s) == ceph[i] = Preferred[s]
Claimable(i, s) == ceph[i] = Preferred[s] /\ account[i].ext = Placeholder

Loads(w, s, i) ==
    login' = [login EXCEPT ![w] = [pc |-> "save", subject |-> s, id |-> i,
                                   row |-> account[i], found |-> NoName]]

\* Without a live session.
LoginBegins(w, s) ==
    /\ login[w].pc = "idle"
    /\ \/ social[s] # NoId /\ Loads(w, s, social[s])
       \/ /\ social[s] = NoId
          /\ \E i \in Ids : Claimable(i, s) /\ Loads(w, s, i)
       \/ /\ social[s] = NoId
          /\ ~\E i \in Ids : Claimable(i, s)
          /\ login' = [login EXCEPT ![w] = [NoLogin EXCEPT !.pc = "name", !.subject = s]]
    /\ UNCHANGED <<account, social, known, ceph, upstream, sessions, refresh, history>>

\* With one, of account i.  The sessions of both exchanges expire in the end; a
\* login without one stands for a login after that.  A subject of another account
\* is refused (AuthAlreadyAssociated) and changes nothing.
LoginOverSession(w, s, i) ==
    /\ login[w].pc = "idle"
    /\ s \in Visitors /\ i \in sessions /\ social[s] \in {NoId, i}
    /\ Loads(w, s, i)
    /\ guests' = IF social[s] = NoId THEN [guests EXCEPT ![i] = @ \cup {s}] ELSE guests
    /\ UNCHANGED <<account, social, known, ceph, upstream, sessions, refresh, madeFor>>

UsernameTaken(name) == \E i \in Ids : account[i].name = name
BaseOnly(base, n) == n = 0
FirstFree(base, n) ==
    ~UsernameTaken(<<base, n>>) /\ \A k \in 0 .. n - 1 : UsernameTaken(<<base, k>>)

\* generate_username_with_fallback
PickUsername(w) ==
    LET base == LocalName[login[w].subject] IN
    /\ login[w].pc = "name"
    /\ \E n \in Tries :
         /\ FirstFree(base, n)
         /\ login' = [login EXCEPT ![w].pc = "create", ![w].found = <<base, n>>]
    /\ UNCHANGED <<account, social, known, ceph, upstream, sessions, refresh, history>>

NewAccount(s, name) ==
    [name |-> name, ext |-> s, mail |-> Mailbox[s], display |-> NoName]
SubjectTaken(s, but) == \E i \in Ids \ {but} : account[i].ext = s

\* create_user with USER_FIELDS email, username, external_id, idp_source.
CreateUser(w, i) ==
    LET s == login[w].subject  row == NewAccount(s, login[w].found) IN
    /\ login[w].pc = "create"
    /\ FreshId(i)
    /\ ~UsernameTaken(row.name) /\ ~SubjectTaken(s, NoId)
    /\ account' = [account EXCEPT ![i] = row]
    /\ login' = [login EXCEPT ![w] = [pc |-> "save", subject |-> s, id |-> i,
                                      row |-> row, found |-> NoName]]
    /\ madeFor' = [madeFor EXCEPT ![i] = Preferred[s]]
    /\ UNCHANGED <<social, known, ceph, upstream, sessions, refresh, guests>>

\* On an IntegrityError social_core looks for an account with exactly these
\* fields, one that another login of the subject has just made.
CreateUserConflicts(w) ==
    LET s == login[w].subject
        same == {i \in Ids : /\ account[i].name = login[w].found
                             /\ account[i].ext = s /\ account[i].mail = Mailbox[s]}
    IN /\ login[w].pc = "create"
       /\ UsernameTaken(login[w].found) \/ SubjectTaken(s, NoId)
       /\ \/ \E i \in same : Loads(w, s, i)
          \/ same = {} /\ Fails(w)
       /\ UNCHANGED <<account, social, known, ceph, upstream, sessions, refresh, history>>

\* create_or_update_user: the fields a first login fills, in the row as loaded.
\* "A secondary social association must not rewrite the account's primary OIDC
\* subject": a guest's does not here.
Filled(row, s) ==
    [row EXCEPT !.ext = IF @ = Placeholder THEN s ELSE @,
                !.mail = IF @ = NoMail THEN Mailbox[s] ELSE @]

Conflicts(i, row) ==
    \/ SubjectTaken(row.ext, i) /\ row.ext \in Subjects
    \/ row.display # NoName /\ \E j \in Ids \ {i} : account[j].display = row.display

NeedsDisplay(row) == row.display = NoName /\ row.mail # NoMail
GoesOnWith(w, row) ==
    IF NeedsDisplay(row)
    THEN login' = [login EXCEPT ![w] = [@ EXCEPT !.pc = "display", !.row = row]]
    ELSE Goto(w, "associate", row)

\* user.save() writes every field.
SaveUser(w) ==
    LET l == login[w]  row == Filled(l.row, l.subject) IN
    /\ l.pc = "save"
    /\ ~Conflicts(l.id, row)
    /\ account' = [account EXCEPT ![l.id] = row]
    /\ GoesOnWith(w, row)
    /\ UNCHANGED <<social, known, ceph, upstream, sessions, refresh, history>>

\* An IntegrityError is caught when the address was to be set, and the login
\* goes on with the row as it is; otherwise it ends the login.
SaveUserConflicts(w) ==
    LET l == login[w]  row == account[l.id] IN
    /\ l.pc = "save"
    /\ Conflicts(l.id, Filled(l.row, l.subject))
    /\ \/ l.row.mail = NoMail /\ GoesOnWith(w, row)
       \/ l.row.mail # NoMail /\ Fails(w)
    /\ UNCHANGED <<account, social, known, ceph, upstream, sessions, refresh, history>>

DisplayTaken(d, but) == \E i \in Ids \ {but} : account[i].display = d

\* The search for a free display_username, ...
PickDisplay(w) ==
    LET l == login[w] IN
    /\ l.pc = "display"
    /\ \E n \in Tries :
         /\ ~DisplayTaken(<<l.row.mail, n>>, l.id)
         /\ \A k \in 0 .. n - 1 : DisplayTaken(<<l.row.mail, k>>, l.id)
         /\ login' = [login EXCEPT ![w].pc = "show", ![w].found = <<l.row.mail, n>>]
    /\ UNCHANGED <<account, social, known, ceph, upstream, sessions, refresh, history>>

\* ... and its save, which nobody catches.
SaveDisplay(w) ==
    LET l == login[w] IN
    /\ l.pc = "show"
    /\ IF DisplayTaken(l.found, l.id)
       THEN Fails(w) /\ UNCHANGED account
       ELSE /\ Goto(w, "associate", [l.row EXCEPT !.display = l.found])
            /\ account' = [account EXCEPT ![l.id].display = l.found]
    /\ UNCHANGED <<social, known, ceph, upstream, sessions, refresh, history>>

\* associate_user: unique(provider, uid); another account's row is an error.
AssociateUser(w) ==
    LET l == login[w]  s == l.subject IN
    /\ l.pc = "associate"
    /\ IF social[s] \in {NoId, l.id}
       THEN Goto(w, "details", l.row) /\ social' = [social EXCEPT ![s] = l.id]
       ELSE Fails(w) /\ UNCHANGED social
    /\ UNCHANGED <<account, known, ceph, upstream, sessions, refresh, history>>

\* user_details sets what the claims say, the subject among it, and if anything
\* changed saves every field.  Nobody catches an IntegrityError.
KeepsSubject(row, s) == Filled(row, s)
Detailed(row, s) == [row EXCEPT !.ext = s]

UserDetails(w) ==
    LET l == login[w]  row == Detailed(l.row, l.subject) IN
    /\ l.pc = "details"
    /\ \/ ~Conflicts(l.id, row)
          /\ account' = [account EXCEPT ![l.id] = row]
          /\ Goto(w, "persist", NoAccount)
       \/ Conflicts(l.id, row) /\ Fails(w) /\ UNCHANGED account
       \/ row = l.row /\ Goto(w, "persist", NoAccount) /\ UNCHANGED account
    /\ UNCHANGED <<social, known, ceph, upstream, sessions, refresh, history>>

\* persist_authentik_groups
PersistGroups(w) ==
    /\ login[w].pc = "persist"
    /\ known' = known \cup {login[w].subject}
    /\ Goto(w, "admit", NoAccount)
    /\ UNCHANGED <<account, social, ceph, upstream, sessions, refresh, history>>

\* extract_tenant_info for the tenant: unique(tenant, ceph_username).  A name
\* that RGWSquared lacks, or that another account has, is no match, and only an
\* administrator gets in without.
CephTaken(n, but) == \E i \in Ids \ {but} : ceph[i] = n

Admit(w) ==
    LET n == Preferred[login[w].subject]  i == login[w].id
        matched == n \in upstream /\ ~CephTaken(n, i)
    IN
    /\ login[w].pc = "admit"
    /\ ceph' = IF matched THEN [ceph EXCEPT ![i] = n] ELSE ceph
    /\ \/ sessions' = sessions \cup {i}
       \/ ~matched /\ UNCHANGED sessions
    /\ Fails(w)
    /\ UNCHANGED <<account, social, known, upstream, refresh, history>>

\* The worker is killed, and not replaced.
LoginDies(w) ==
    /\ w \in Mortal /\ login[w].pc \notin {"idle", "dead"}
    /\ login' = [login EXCEPT ![w] = [NoLogin EXCEPT !.pc = "dead"]]
    /\ UNCHANGED <<account, social, known, ceph, upstream, sessions, refresh, history>>

-----------------------------------------------------------------------------
(* refresh_local_cache, for the names RGWSquared lists *)

ListUsers(f) ==
    /\ refresh[f] = NoRefresh /\ upstream # {}
    /\ refresh' = [refresh EXCEPT ![f].todo = upstream]
    /\ UNCHANGED <<account, social, known, ceph, upstream, sessions, login, history>>

WithCeph(n) == {i \in Ids : ceph[i] = n}
StartsWith(n) == {i \in Ids : Exists(i) /\ account[i].name[1] = n}
WithUsername(n) == {i \in Ids : account[i].name = <<n, 0>>}
WithAssociation(n) == {social[s] : s \in {t \in known : Preferred[t] = n}}

\* The first of the three that finds somebody.
Resolved(n) ==
    IF WithCeph(n) # {} THEN WithCeph(n)
    ELSE IF WithUsername(n) # {} THEN WithUsername(n)
    ELSE WithAssociation(n)

ResolveUser(f, n) ==
    /\ refresh[f].cur = NoName /\ n \in refresh[f].todo
    /\ \E i \in IF Resolved(n) = {} THEN {NoId} ELSE Resolved(n) :
         refresh' = [refresh EXCEPT ![f] = [todo |-> @.todo \ {n}, cur |-> n, target |-> i]]
    /\ UNCHANGED <<account, social, known, ceph, upstream, sessions, login, history>>

NamedByMail(n) ==
    [name |-> <<n, 0>>, ext |-> Placeholder, mail |-> n, display |-> NoName]
PlaceholderFor(n) ==
    [name |-> <<n, 0>>, ext |-> Placeholder, mail |-> NoMail, display |-> NoName]

\* A user name that was taken meanwhile ends the refresh.
CreatePlaceholder(f, i) ==
    LET n == refresh[f].cur IN
    /\ n # NoName /\ refresh[f].target = NoId
    /\ FreshId(i)
    /\ IF UsernameTaken(<<n, 0>>)
       THEN refresh' = [refresh EXCEPT ![f] = NoRefresh] /\ UNCHANGED <<account, madeFor>>
       ELSE /\ refresh' = [refresh EXCEPT ![f].target = i]
            /\ account' = [account EXCEPT ![i] = PlaceholderFor(n)]
            /\ madeFor' = [madeFor EXCEPT ![i] = n]
    /\ UNCHANGED <<social, known, ceph, upstream, sessions, login, guests>>

\* update_or_create of the membership; a name that is taken ends the refresh.
ImportMembership(f) ==
    LET n == refresh[f].cur  i == refresh[f].target IN
    /\ i # NoId
    /\ IF CephTaken(n, i)
       THEN refresh' = [refresh EXCEPT ![f] = NoRefresh] /\ UNCHANGED ceph
       ELSE /\ refresh' = [refresh EXCEPT ![f] = [NoRefresh EXCEPT !.todo = refresh[f].todo]]
            /\ ceph' = [ceph EXCEPT ![i] = n]
    /\ UNCHANGED <<account, social, known, upstream, sessions, login, history>>

\* get_user_info failed: the next name.
SkipUser(f) ==
    /\ refresh[f].target # NoId
    /\ refresh' = [refresh EXCEPT ![f] = [NoRefresh EXCEPT !.todo = refresh[f].todo]]
    /\ UNCHANGED <<account, social, known, ceph, upstream, sessions, login, history>>

\* A refresh may be killed, or end with an unhandled database error.
RefreshDies(f) ==
    /\ refresh[f] # NoRefresh
    /\ refresh' = [refresh EXCEPT ![f] = NoRefresh]
    /\ UNCHANGED <<account, social, known, ceph, upstream, sessions, login, history>>

\* The institution adds a person to RGWSquared.
UpstreamAdds(s) ==
    /\ s \in Members /\ Preferred[s] \notin upstream
    /\ upstream' = upstream \cup {Preferred[s]}
    /\ UNCHANGED <<account, social, known, ceph, login, refresh, sessions, history>>

-----------------------------------------------------------------------------
LoginContinues(w) ==
    \/ PickUsername(w) \/ CreateUserConflicts(w) \/ \E i \in Ids : CreateUser(w, i)
    \/ SaveUser(w) \/ SaveUserConflicts(w) \/ PickDisplay(w) \/ SaveDisplay(w)
    \/ AssociateUser(w) \/ UserDetails(w) \/ PersistGroups(w) \/ Admit(w)

RefreshStep(f) ==
    \/ ListUsers(f) \/ ImportMembership(f) \/ SkipUser(f)
    \/ \E n \in Names : ResolveUser(f, n)
    \/ \E i \in Ids : CreatePlaceholder(f, i)

Next ==
    \/ \E w \in Logins : \/ \E s \in Subjects : \/ LoginBegins(w, s)
                                               \/ \E i \in Ids : LoginOverSession(w, s, i)
                         \/ LoginContinues(w) \/ LoginDies(w)
    \/ \E f \in Refreshers : RefreshStep(f) \/ RefreshDies(f)
    \/ \E s \in Subjects : UpstreamAdds(s)

Spec == Init /\ [][Next]_vars

(***************************************************************************)
(* Fairness: a worker finishes the login it serves, and a person whose     *)
(* login never passed the pipeline tries again, without a session.         *)
(***************************************************************************)
FairSpec ==
    /\ Spec
    /\ \A w \in Logins : WF_vars(LoginContinues(w))
    /\ \A s \in Subjects : SF_vars(s \notin known /\ \E w \in Logins : LoginBegins(w, s))

-----------------------------------------------------------------------------
(* Properties *)

\* Whoever may use account i: the person it was made for, and those who logged in
\* over a session of it.
Entitled(i, s) == madeFor[i] = Preferred[s] \/ s \in guests[i]

\* A login ends up in an account that was made for its own person, or in that of
\* the live session it came over, and no other subject is ever written to an
\* account, however first logins, retries, crashes, guests and refreshes
\* interleave (social_user to user_details).
AccountIsOwn ==
    /\ \A s \in Subjects : social[s] # NoId => Entitled(social[s], s)
    /\ \A i \in Ids : account[i].ext \in Subjects => Entitled(i, account[i].ext)

\* A membership has the Ceph user name of a person who is associated with the
\* account, or the local name that the account was given, by which the refresh
\* finds it.
CephNameExplained ==
    \A i \in Ids : ceph[i] # NoName =>
        \/ \E s \in Subjects : social[s] = i /\ Preferred[s] = ceph[i]
        \/ account[i].name = <<ceph[i], 0>>

\* The subject leads to one account and is written to another, which
\* associate_by_ceph_username, the rows of UserSocialAuth and the unique subject
\* do not rule out.
SplitUp(s) == social[s] # NoId /\ \E i \in Ids \ {social[s]} : account[i].ext = s

\* A person who keeps trying gets through the pipeline, unless a worker was killed
\* half way or overlapping first logins split the person up.
PersistentUsersGetIn ==
    \A s \in Subjects : <>(s \in known \/ SplitUp(s) \/ \E w \in Logins : login[w].pc = "dead")

\* Display names: "Collisions resolved with -2, -3, etc. suffix" (User), so that
\* people with the same mailbox name all get in.
CollisionsResolved == \A s \in Subjects : <>(social[s] # NoId)
=============================================================================
