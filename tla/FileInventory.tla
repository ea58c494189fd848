---------------------------- MODULE FileInventory ----------------------------
(***************************************************************************)
(* The objects of one bucket and the upload records Django keeps of them.  *)
(*                                                                         *)
(* The bytes are in S3 (Ceph), which members can also reach with clients   *)
(* of their own; who uploaded them is in FileUploadRecord, which decides   *)
(* what a sharer may delete.  An upload stores the object and then the     *)
(* record, a deletion removes the object and then the record, and the      *)
(* inventory at the end of refresh_local_cache lists the objects, reads    *)
(* the records and writes back what it concluded, in three statements.     *)
(* Nothing of this is one transaction, and nothing locks the bucket.       *)
(*                                                                         *)
(* Two uploads of the same bytes have the same ETag, so that a body stands *)
(* for its ETag.  Size and date follow the body and are left out.  The     *)
(* origin of a record is "app" exactly when it names an uploader.          *)
(***************************************************************************)
EXTENDS Naturals, FiniteSets

CONSTANTS
    Users,
    Nobody,
    Owner,          \* the bucket's owner
    Units,          \* operational units, or the one empty unit
    UnitOf,         \* uo_code of each user's membership
    Files,          \* sanitised file names
    Bodies,
    NoBody,
    Reqs,           \* gunicorn workers
    Scans,          \* workers running refresh_local_cache
    Uploads,        \* bound: who may upload which bytes
    Direct,         \* users who also write with an S3 client of their own
    Volatile,       \* users whose membership or share may change
    FaultBudget     \* calls that may fail, workers that may die

ASSUME FilesAssumption ==
    /\ Owner \in Users /\ Nobody \notin Users
    /\ UnitOf \in [Users -> Units]
    /\ Files # {} /\ NoBody \notin Bodies
    /\ Uploads \subseteq Users \X Bodies
    /\ Direct \subseteq Users /\ Volatile \subseteq Users
    /\ FaultBudget \in Nat

VARIABLES
    object,     \* object[k]: what S3 stores under key k
    record,     \* record[k]: the FileUploadRecord of key k
    level,      \* what get_user_permission lets each user do
    req,        \* req[r]: the upload or deletion that worker r handles
    scan,       \* scan[f]: the inventory that worker f runs
    faults,     \* what is left of FaultBudget
    wrote       \* history: <<user, key, body>> uploaded through the application

vars == <<object, record, level, req, scan, faults, wrote>>

\* _apply_filename_policy.  Tenant and bucket are the same for all keys of the
\* bucket; the uploader's unit and the sanitised name are what tells them apart.
Keys == [unit: Units, file: Files]
OriginalKey(u, file) == file
PolicyKey(u, file) == [unit |-> UnitOf[u], file |-> file]

Content == Bodies \cup {NoBody}
Row(by, etag) == [by |-> by, etag |-> etag]
Rows == [by: Users \cup {Nobody}, etag: Content]
NoRow == Row(Nobody, NoBody)
HasRow(row) == row.etag # NoBody

\* Reading and having no access at all are the same here.
Level == {"owner", "rw", "reads"}
WriteLevel(u) == IF u = Owner THEN "owner" ELSE "rw"
LevelsOf(u) == {WriteLevel(u), "reads"}

\* An upload ("put") or a deletion ("remove") at its S3 call, or done with it.
\* A deletion that was let through needs its user no more.
Request == [op: {"idle", "put", "remove"}, stored: BOOLEAN,
            user: Users \cup {Nobody}, key: Keys, body: Content]
Idle == [op |-> "idle", stored |-> FALSE, user |-> Nobody,
         key |-> CHOOSE k \in Keys : TRUE, body |-> NoBody]

\* An inventory: the objects it listed, the records it read, which of those
\* rows are still there (a primary key is never used again).  `calm` is
\* history: nobody else wrote an object or a record since it listed.
Scan == [pc: {"idle", "listed", "read", "created", "updated"},
         listing: [Keys -> Content], known: [Keys -> Rows],
         rows: SUBSET Keys, calm: BOOLEAN]
NoScan == [pc |-> "idle", listing |-> [k \in Keys |-> NoBody],
           known |-> [k \in Keys |-> NoRow], rows |-> {}, calm |-> TRUE]

TypeOK ==
    /\ object \in [Keys -> Content]
    /\ record \in [Keys -> Rows]
    /\ level \in [Users -> Level]
    /\ \A u \in Users : level[u] \in LevelsOf(u)
    /\ req \in [Reqs -> Request]
    /\ \A r \in Reqs : req[r].op = "put" => req[r].user \in Users /\ req[r].body \in Bodies
    /\ scan \in [Scans -> Scan]
    /\ faults \in Nat
    /\ wrote \subseteq Users \X Keys \X Bodies

Init ==
    /\ object = [k \in Keys |-> NoBody]
    /\ record = [k \in Keys |-> NoRow]
    /\ level = [u \in Users |-> WriteLevel(u)]
    /\ req = [r \in Reqs |-> Idle]
    /\ scan = [f \in Scans |-> NoScan]
    /\ faults = FaultBudget
    /\ wrote = {}

Fault == faults > 0 /\ faults' = faults - 1

-----------------------------------------------------------------------------
(* Scans watch what others write *)

Disturb == scan' = [f \in Scans |-> [scan[f] EXCEPT !.calm = (scan[f].pc = "idle")]]
DisturbAndForget(k) ==
    scan' = [f \in Scans |-> [scan[f] EXCEPT !.calm = (scan[f].pc = "idle"),
                                             !.rows = @ \ {k}]]

-----------------------------------------------------------------------------
(* upload *)

CanUpload(u) == level[u] \in {"owner", "rw"}

BeginUpload(r, u, file, b) ==
    /\ req[r].op = "idle"
    /\ CanUpload(u) /\ <<u, b>> \in Uploads
    /\ req' = [req EXCEPT ![r] = [op |-> "put", stored |-> FALSE, user |-> u,
                                  key |-> PolicyKey(u, file), body |-> b]]
    /\ UNCHANGED <<object, record, level, scan, faults, wrote>>

\* put_object
PutObject(r) ==
    LET q == req[r] IN
    /\ q.op = "put" /\ ~q.stored
    /\ object' = [object EXCEPT ![q.key] = q.body]
    /\ wrote' = wrote \cup {<<q.user, q.key, q.body>>}
    /\ req' = [req EXCEPT ![r] = [q EXCEPT !.stored = TRUE]]
    /\ Disturb
    /\ UNCHANGED <<record, level, faults>>

\* update_or_create keeps the row when there is one.
SaveRecord(r) ==
    LET q == req[r] IN
    /\ q.op = "put" /\ q.stored
    /\ record' = [record EXCEPT ![q.key] = Row(q.user, q.body)]
    /\ req' = [req EXCEPT ![r] = Idle]
    /\ Disturb
    /\ UNCHANGED <<object, level, faults, wrote>>

-----------------------------------------------------------------------------
(* delete_file, admin_delete_file *)

CanDelete(u, k) ==
    \/ level[u] = "owner"
    \/ level[u] = "rw" /\ record[k].by = u

BeginDelete(r, u, k) ==
    /\ req[r].op = "idle"
    /\ CanDelete(u, k)
    /\ req' = [req EXCEPT ![r] = [op |-> "remove", stored |-> FALSE, user |-> Nobody,
                                  key |-> k, body |-> NoBody]]
    /\ UNCHANGED <<object, record, level, scan, faults, wrote>>

BeginAdminDelete(r, k) ==
    /\ req[r].op = "idle"
    /\ req' = [req EXCEPT ![r] = [op |-> "remove", stored |-> FALSE, user |-> Nobody,
                                  key |-> k, body |-> NoBody]]
    /\ UNCHANGED <<object, record, level, scan, faults, wrote>>

\* delete_object; S3 does not mind an absent key.
DeleteObject(r) ==
    LET q == req[r] IN
    /\ q.op = "remove" /\ ~q.stored
    /\ object' = [object EXCEPT ![q.key] = NoBody]
    /\ req' = [req EXCEPT ![r] = [q EXCEPT !.stored = TRUE]]
    /\ Disturb
    /\ UNCHANGED <<record, level, faults, wrote>>

DeleteRecord(r) ==
    LET q == req[r] IN
    /\ q.op = "remove" /\ q.stored
    /\ record' = [record EXCEPT ![q.key] = NoRow]
    /\ req' = [req EXCEPT ![r] = Idle]
    /\ DisturbAndForget(q.key)
    /\ UNCHANGED <<object, level, faults, wrote>>

\* The S3 call fails and the handler answers 500, or the worker is killed
\* before or after it (or the reply was lost, which looks the same).
RequestDies(r) ==
    /\ req[r].op # "idle"
    /\ Fault
    /\ req' = [req EXCEPT ![r] = Idle]
    /\ UNCHANGED <<object, record, level, scan, wrote>>

-----------------------------------------------------------------------------
(* _sync_authorized_bucket_objects *)

\* list_objects(raise_errors=True).  A listing that fails skips the bucket.
ListObjects(f) ==
    /\ scan[f].pc = "idle"
    /\ scan' = [scan EXCEPT ![f] = [pc |-> "listed", listing |-> object,
                  known |-> [k \in Keys |-> NoRow], rows |-> {}, calm |-> TRUE]]
    /\ UNCHANGED <<object, record, level, req, faults, wrote>>

ReadRecords(f) ==
    /\ scan[f].pc = "listed"
    /\ scan' = [scan EXCEPT ![f] = [pc |-> "read", listing |-> @.listing,
                  known |-> record, rows |-> {k \in Keys : HasRow(record[k])},
                  calm |-> @.calm]]
    /\ UNCHANGED <<object, record, level, req, faults, wrote>>

ToCreate(s) == {k \in Keys : s.listing[k] # NoBody /\ ~HasRow(s.known[k])}
ToUpdate(s) == {k \in Keys : s.listing[k] # NoBody /\ HasRow(s.known[k])}
Stale(s) == {k \in Keys : s.listing[k] = NoBody /\ HasRow(s.known[k])}

\* An ETag that is not the recorded one: written outside the application.
KeepsUploader(row, etag) == Row(row.by, etag)
KeepsRow(row, etag) == row
Discovered(row, etag) == Row(IF row.etag = etag THEN row.by ELSE Nobody, etag)

\* The scans after scan f has written the records of the keys in `gone` off and
\* gone on to pc: another scan is disturbed.
Advance(f, pc, gone) ==
    scan' = [h \in Scans |->
               IF h = f THEN [scan[f] EXCEPT !.pc = pc]
               ELSE [scan[h] EXCEPT !.calm = (scan[h].pc = "idle"),
                                    !.rows = @ \ gone]]

\* bulk_create, one statement.
CreateDiscovered(f) ==
    LET s == scan[f] IN
    /\ s.pc = "read"
    /\ \A k \in ToCreate(s) : ~HasRow(record[k])
    /\ record' = [k \in Keys |-> IF k \in ToCreate(s) THEN Row(Nobody, s.listing[k])
                                 ELSE record[k]]
    /\ Advance(f, "created", {})
    /\ UNCHANGED <<object, level, req, faults, wrote>>

\* ... which violates unique(bucket, file_key) when somebody was quicker, and
\* ends the whole refresh.
CreateConflicts(f) ==
    /\ scan[f].pc = "read"
    /\ \E k \in ToCreate(scan[f]) : HasRow(record[k])
    /\ scan' = [scan EXCEPT ![f] = NoScan]
    /\ UNCHANGED <<object, record, level, req, faults, wrote>>

\* bulk_update of the rows read, as far as they still exist.
UpdateKnown(f) ==
    LET s == scan[f] IN
    /\ s.pc = "created"
    /\ record' = [k \in Keys |->
                    IF k \in ToUpdate(s) \cap s.rows
                    THEN Discovered(s.known[k], s.listing[k]) ELSE record[k]]
    /\ Advance(f, "updated", {})
    /\ UNCHANGED <<object, level, req, faults, wrote>>

ForgetNone(s) == {}
ForgetStale(s) == Stale(s) \cap s.rows

DeleteStale(f) ==
    LET gone == ForgetStale(scan[f]) IN
    /\ scan[f].pc = "updated"
    /\ record' = [k \in Keys |-> IF k \in gone THEN NoRow ELSE record[k]]
    /\ scan' = [h \in Scans |->
                  IF h = f THEN NoScan
                  ELSE [scan[h] EXCEPT !.calm = (scan[h].pc = "idle"),
                                       !.rows = @ \ gone]]
    /\ UNCHANGED <<object, level, req, faults, wrote>>

ScanDies(f) ==
    /\ scan[f].pc # "idle"
    /\ Fault
    /\ scan' = [scan EXCEPT ![f] = NoScan]
    /\ UNCHANGED <<object, record, level, req, wrote>>

-----------------------------------------------------------------------------
\* A member with write access stores or deletes with an S3 client.
WriteDirectly(u, k, b) ==
    /\ u \in Direct /\ CanUpload(u)
    /\ object[k] # b
    /\ object' = [object EXCEPT ![k] = b]
    /\ Disturb
    /\ UNCHANGED <<record, level, req, faults, wrote>>

\* Shares and memberships change.
ChangeLevel(u) ==
    /\ u \in Volatile
    /\ \E new \in LevelsOf(u) \ {level[u]} : level' = [level EXCEPT ![u] = new]
    /\ UNCHANGED <<object, record, req, scan, faults, wrote>>

RequestContinues(r) ==
    PutObject(r) \/ SaveRecord(r) \/ DeleteObject(r) \/ DeleteRecord(r)

ScanStep(f) ==
    \/ ListObjects(f) \/ ReadRecords(f)
    \/ CreateDiscovered(f) \/ CreateConflicts(f) \/ UpdateKnown(f) \/ DeleteStale(f)

Next ==
    \/ \E r \in Reqs :
         \/ \E u \in Users, file \in Files, b \in Bodies : BeginUpload(r, u, file, b)
         \/ \E u \in Users, k \in Keys : BeginDelete(r, u, k)
         \/ \E k \in Keys : BeginAdminDelete(r, k)
         \/ RequestContinues(r) \/ RequestDies(r)
    \/ \E f \in Scans : ScanStep(f) \/ ScanDies(f)
    \/ \E u \in Users, k \in Keys, b \in Content : WriteDirectly(u, k, b)
    \/ \E u \in Users : ChangeLevel(u)

Spec == Init /\ [][Next]_vars

(***************************************************************************)
(* Fairness: S3 calls time out and a worker runs or is killed, and an      *)
(* operator keeps refreshing the cache.  Nothing is assumed of the users.  *)
(***************************************************************************)
FairSpec ==
    /\ Spec
    /\ \A r \in Reqs : WF_vars(RequestContinues(r))
    /\ \A f \in Scans : WF_vars(ScanStep(f))

-----------------------------------------------------------------------------
(* Properties *)

\* A record credits nobody with bytes they did not upload: its uploader stored
\* an object with the record's ETag under its key, whatever stale snapshots the
\* inventory writes back and however uploads of a key overtake each other.
AttributionIsTrue ==
    \A k \in Keys : record[k].by # Nobody => <<record[k].by, k, record[k].etag>> \in wrote

Matching == \A k \in Keys : record[k].etag = object[k]

\* An inventory that had the bucket to itself leaves exactly the objects
\* recorded, each with its ETag, whatever races and crashes left before.
CalmScanSettles ==
    [][\A f \in Scans : DeleteStale(f) /\ scan[f].calm => Matching']_vars

\* Objects and records agree in the end: once nobody can write any more, after
\* any crash or race, the inventories bring them together for good.
RecordsConverge ==
    <>[](\A u \in Users : ~CanUpload(u)) => <>[]Matching
=============================================================================
