------------------------- MODULE FileInventoryProofs -------------------------
(***************************************************************************)
(* Proofs about FileInventory: its type invariant, that uploaders are      *)
(* credited truly, and that an undisturbed inventory settles the records.  *)
(***************************************************************************)
EXTENDS FileInventory, TLAPS

-----------------------------------------------------------------------------
(* Types *)

LEMMA SmallTypes ==
    /\ NoRow \in Rows /\ Idle \in Request /\ NoScan \in Scan
    /\ \A u \in Users, file \in Files : PolicyKey(u, file) \in Keys
    /\ \A u \in Users : WriteLevel(u) \in Level
<1> USE FilesAssumption
<1>1. NoRow \in Rows
  BY DEF NoRow, Rows, Row, Content
<1>2. \A u \in Users, file \in Files : PolicyKey(u, file) \in Keys
  BY DEF PolicyKey, Keys
<1>3. \E k : k \in Keys
  BY <1>2
<1>4. Idle \in Request
  BY <1>3 DEF Idle, Request, Content
<1>5. NoScan \in Scan
  BY <1>1 DEF NoScan, Scan, Content
<1> QED
  BY <1>1, <1>2, <1>4, <1>5 DEF WriteLevel, Level

\* Whatever a step makes of a scan besides its progress keeps its type.
LEMMA WatchedScan ==
    ASSUME NEW s \in Scan, NEW calm \in BOOLEAN, NEW gone,
           NEW pc \in {"idle", "listed", "read", "created", "updated"}
    PROVE  /\ [s EXCEPT !.calm = calm] \in Scan
           /\ [s EXCEPT !.calm = calm, !.rows = @ \ gone] \in Scan
           /\ [s EXCEPT !.pc = pc] \in Scan
BY DEF Scan

LEMMA DisturbTypes ==
    ASSUME TypeOK, NEW k
    PROVE  /\ Disturb => scan' \in [Scans -> Scan]
           /\ DisturbAndForget(k) => scan' \in [Scans -> Scan]
<1>1. ASSUME NEW f \in Scans
      PROVE  /\ [scan[f] EXCEPT !.calm = (scan[f].pc = "idle")] \in Scan
             /\ [scan[f] EXCEPT !.calm = (scan[f].pc = "idle"), !.rows = @ \ {k}] \in Scan
  <2>1. scan[f] \in Scan
    BY DEF TypeOK
  <2> QED
    BY <2>1, WatchedScan
<1> QED
  BY <1>1 DEF Disturb, DisturbAndForget

LEMMA AdvanceTypes ==
    ASSUME TypeOK, NEW f \in Scans, NEW gone, NEW pc \in {"created", "updated"},
           Advance(f, pc, gone)
    PROVE  scan' \in [Scans -> Scan]
<1>1. ASSUME NEW h \in Scans
      PROVE  /\ [scan[h] EXCEPT !.pc = pc] \in Scan
             /\ [scan[h] EXCEPT !.calm = (scan[h].pc = "idle"), !.rows = @ \ gone] \in Scan
  <2>1. scan[h] \in Scan
    BY DEF TypeOK
  <2> QED
    BY <2>1, WatchedScan
<1> QED
  BY <1>1 DEF Advance

LEMMA DiscoveredType ==
    ASSUME NEW row \in Rows, NEW etag \in Content
    PROVE  Discovered(row, etag) \in Rows
BY DEF Discovered, Row, Rows

\* A row saved, or removed, keeps the table's type.
LEMMA RecordTypes ==
    ASSUME TypeOK, NEW k \in Keys, NEW row \in Rows
    PROVE  [record EXCEPT ![k] = row] \in [Keys -> Rows]
BY DEF TypeOK

UploadIsNamed(q) == q.op = "put" => q.user \in Users /\ q.body \in Bodies
Requests == req \in [Reqs -> Request] /\ \A r \in Reqs : UploadIsNamed(req[r])

LEMMA TypeParts ==
    TypeOK <=>
        /\ object \in [Keys -> Content]
        /\ record \in [Keys -> Rows]
        /\ level \in [Users -> Level] /\ \A u \in Users : level[u] \in LevelsOf(u)
        /\ Requests
        /\ scan \in [Scans -> Scan]
        /\ faults \in Nat
        /\ wrote \subseteq Users \X Keys \X Bodies
BY DEF TypeOK, Requests, UploadIsNamed

\* A request that is replaced keeps the requests typed.
LEMMA OneRequest ==
    ASSUME Requests, NEW r \in Reqs, NEW q \in Request, UploadIsNamed(q),
           req' = [req EXCEPT ![r] = q]
    PROVE  Requests'
BY DEF Requests, UploadIsNamed

LEMMA IdleRequest ==
    ASSUME Requests, NEW r \in Reqs, req' = [req EXCEPT ![r] = Idle]
    PROVE  Requests'
<1>1. Idle \in Request /\ UploadIsNamed(Idle)
  BY SmallTypes DEF UploadIsNamed, Idle
<1> QED
  BY <1>1, OneRequest

LEMMA UploadTypes ==
    ASSUME TypeOK, NEW r \in Reqs,
           \/ \E u \in Users, file \in Files, b \in Bodies : BeginUpload(r, u, file, b)
           \/ PutObject(r) \/ SaveRecord(r)
    PROVE  TypeOK'
<1> USE FilesAssumption
<1>0. Requests /\ req[r] \in Request /\ UploadIsNamed(req[r])
  BY TypeParts DEF Requests
<1>1. ASSUME NEW u \in Users, NEW file \in Files, NEW b \in Bodies,
             BeginUpload(r, u, file, b)
      PROVE  TypeOK'
  <2> DEFINE q == [op |-> "put", stored |-> FALSE, user |-> u,
                   key |-> PolicyKey(u, file), body |-> b]
  <2>1. q \in Request /\ UploadIsNamed(q)
    BY SmallTypes DEF Request, Content, UploadIsNamed
  <2>2. req' = [req EXCEPT ![r] = q]
    BY <1>1 DEF BeginUpload
  <2> HIDE DEF q
  <2>3. Requests'
    BY <1>0, <2>1, <2>2, OneRequest
  <2>4. UNCHANGED <<object, record, level, scan, faults, wrote>>
    BY <1>1 DEF BeginUpload
  <2> QED
    BY <2>3, <2>4, TypeParts DEF TypeOK, Requests, UploadIsNamed
<1>2. CASE PutObject(r)
  <2>1. [req[r] EXCEPT !.stored = TRUE] \in Request
    BY <1>0 DEF Request
  <2>2. UploadIsNamed([req[r] EXCEPT !.stored = TRUE])
    BY <1>0 DEF UploadIsNamed, Request
  <2>3. req' = [req EXCEPT ![r] = [req[r] EXCEPT !.stored = TRUE]]
    BY <1>2 DEF PutObject
  <2>4. Requests'
    BY <1>0, <2>1, <2>2, <2>3, OneRequest
  <2>5. req[r].key \in Keys /\ req[r].user \in Users /\ req[r].body \in Bodies
    BY <1>0, <1>2 DEF PutObject, UploadIsNamed, Request
  <2>6. object' \in [Keys -> Content]
    BY <1>2, <2>5 DEF PutObject, TypeOK, Content
  <2>7. wrote' \subseteq Users \X Keys \X Bodies
    BY <1>2, <2>5 DEF PutObject, TypeOK
  <2>8. scan' \in [Scans -> Scan]
    BY <1>2, DisturbTypes DEF PutObject
  <2>9. UNCHANGED <<record, level, faults>>
    BY <1>2 DEF PutObject
  <2> QED
    BY <2>4, <2>6, <2>7, <2>8, <2>9 DEF TypeOK, Requests, UploadIsNamed
<1>3. CASE SaveRecord(r)
  <2>1. Requests'
    BY <1>0, <1>3, IdleRequest DEF SaveRecord
  <2>2. req[r].key \in Keys /\ Row(req[r].user, req[r].body) \in Rows
    BY <1>0, <1>3 DEF SaveRecord, UploadIsNamed, Request, Row, Rows, Content
  <2>3. record' \in [Keys -> Rows]
    BY <1>3, <2>2 DEF SaveRecord, TypeOK
  <2>4. scan' \in [Scans -> Scan]
    BY <1>3, DisturbTypes DEF SaveRecord
  <2>5. UNCHANGED <<object, level, faults, wrote>>
    BY <1>3 DEF SaveRecord
  <2> QED
    BY <2>1, <2>3, <2>4, <2>5 DEF TypeOK, Requests, UploadIsNamed
<1> QED
  BY <1>1, <1>2, <1>3

LEMMA DeletionTypes ==
    ASSUME TypeOK, NEW r \in Reqs,
           \/ \E k \in Keys : BeginAdminDelete(r, k) \/ \E u \in Users : BeginDelete(r, u, k)
           \/ DeleteObject(r) \/ DeleteRecord(r) \/ RequestDies(r)
    PROVE  TypeOK'
<1> USE FilesAssumption
<1>0. Requests /\ req[r] \in Request /\ UploadIsNamed(req[r])
  BY TypeParts DEF Requests
<1>1. ASSUME NEW u \in Users \cup {Nobody}, NEW k \in Keys,
             req' = [req EXCEPT ![r] = [op |-> "remove", stored |-> FALSE, user |-> u,
                                        key |-> k, body |-> NoBody]],
             UNCHANGED <<object, record, level, scan, faults, wrote>>
      PROVE  TypeOK'
  <2> DEFINE q == [op |-> "remove", stored |-> FALSE, user |-> u,
                   key |-> k, body |-> NoBody]
  <2>1. q \in Request /\ UploadIsNamed(q)
    BY DEF Request, Content, UploadIsNamed
  <2> HIDE DEF q
  <2>2. Requests'
    BY <1>0, <1>1, <2>1, OneRequest DEF q
  <2> QED
    BY <1>1, <2>2 DEF TypeOK, Requests, UploadIsNamed
<1>2. ASSUME NEW u \in Users, NEW k \in Keys, BeginDelete(r, u, k)
      PROVE  TypeOK'
  BY <1>1, <1>2 DEF BeginDelete
<1>3. ASSUME NEW k \in Keys, BeginAdminDelete(r, k)
      PROVE  TypeOK'
  BY <1>1, <1>3 DEF BeginAdminDelete
<1>4. CASE DeleteObject(r)
  <2>1. [req[r] EXCEPT !.stored = TRUE] \in Request
    BY <1>0 DEF Request
  <2>2. UploadIsNamed([req[r] EXCEPT !.stored = TRUE])
    BY <1>0 DEF UploadIsNamed, Request
  <2>3. req' = [req EXCEPT ![r] = [req[r] EXCEPT !.stored = TRUE]]
    BY <1>4 DEF DeleteObject
  <2>4. Requests'
    BY <1>0, <2>1, <2>2, <2>3, OneRequest
  <2>5. object' \in [Keys -> Content]
    BY <1>4, <1>0 DEF DeleteObject, TypeOK, Content, Request
  <2>6. scan' \in [Scans -> Scan]
    BY <1>4, DisturbTypes DEF DeleteObject
  <2>7. UNCHANGED <<record, level, faults, wrote>>
    BY <1>4 DEF DeleteObject
  <2> QED
    BY <2>4, <2>5, <2>6, <2>7 DEF TypeOK, Requests, UploadIsNamed
<1>5. CASE DeleteRecord(r)
  <2>1. Requests'
    BY <1>0, <1>5, IdleRequest DEF DeleteRecord
  <2>2. record' \in [Keys -> Rows]
    BY <1>5, SmallTypes DEF DeleteRecord, TypeOK
  <2>3. scan' \in [Scans -> Scan]
    BY <1>5, DisturbTypes DEF DeleteRecord
  <2>4. UNCHANGED <<object, level, faults, wrote>>
    BY <1>5 DEF DeleteRecord
  <2> QED
    BY <2>1, <2>2, <2>3, <2>4 DEF TypeOK, Requests, UploadIsNamed
<1>6. CASE RequestDies(r)
  <2>1. Requests'
    BY <1>0, <1>6, IdleRequest DEF RequestDies
  <2>2. faults' \in Nat
    BY <1>6 DEF RequestDies, Fault, TypeOK
  <2>3. UNCHANGED <<object, record, level, scan, wrote>>
    BY <1>6 DEF RequestDies
  <2> QED
    BY <2>1, <2>2, <2>3 DEF TypeOK, Requests, UploadIsNamed
<1> QED
  BY <1>2, <1>3, <1>4, <1>5, <1>6

LEMMA ScanTypes ==
    ASSUME TypeOK, NEW f \in Scans, ScanStep(f) \/ ScanDies(f)
    PROVE  TypeOK'
<1> USE FilesAssumption
<1>0. scan[f] \in Scan
  BY DEF TypeOK
<1>1. CASE ListObjects(f)
  <2>1. [pc |-> "listed", listing |-> object, known |-> [k \in Keys |-> NoRow],
         rows |-> {}, calm |-> TRUE] \in Scan
    BY SmallTypes DEF Scan, TypeOK
  <2> QED
    BY <1>1, <2>1 DEF ListObjects, TypeOK
<1>2. CASE ReadRecords(f)
  <2>1. [pc |-> "read", listing |-> scan[f].listing, known |-> record,
         rows |-> {k \in Keys : HasRow(record[k])}, calm |-> scan[f].calm] \in Scan
    BY <1>0 DEF Scan, TypeOK
  <2> QED
    BY <1>2, <2>1 DEF ReadRecords, TypeOK
<1>3. CASE CreateDiscovered(f)
  <2>1. scan' \in [Scans -> Scan]
    BY <1>3, AdvanceTypes DEF CreateDiscovered
  <2>2. \A k \in Keys : Row(Nobody, scan[f].listing[k]) \in Rows
    BY <1>0 DEF Scan, Row, Rows
  <2>3. record' \in [Keys -> Rows]
    BY <1>3, <2>2 DEF CreateDiscovered, TypeOK
  <2> QED
    BY <1>3, <2>1, <2>3 DEF CreateDiscovered, TypeOK
<1>4. CASE UpdateKnown(f)
  <2>1. scan' \in [Scans -> Scan]
    BY <1>4, AdvanceTypes DEF UpdateKnown
  <2>2. \A k \in Keys : Discovered(scan[f].known[k], scan[f].listing[k]) \in Rows
    BY <1>0, DiscoveredType DEF Scan
  <2>3. record' \in [Keys -> Rows]
    BY <1>4, <2>2 DEF UpdateKnown, TypeOK
  <2> QED
    BY <1>4, <2>1, <2>3 DEF UpdateKnown, TypeOK
<1>5. CASE DeleteStale(f)
  <2>1. ASSUME NEW h \in Scans
        PROVE  [scan[h] EXCEPT !.calm = (scan[h].pc = "idle"),
                               !.rows = @ \ ForgetStale(scan[f])] \in Scan
    <3>1. scan[h] \in Scan
      BY DEF TypeOK
    <3> QED
      BY <3>1, WatchedScan
  <2>2. scan' \in [Scans -> Scan]
    BY <1>5, <2>1, SmallTypes DEF DeleteStale
  <2>3. record' \in [Keys -> Rows]
    BY <1>5, SmallTypes DEF DeleteStale, TypeOK
  <2> QED
    BY <1>5, <2>2, <2>3 DEF DeleteStale, TypeOK
<1>6. CASE CreateConflicts(f) \/ ScanDies(f)
  <2>1. scan' \in [Scans -> Scan]
    BY <1>6, SmallTypes DEF CreateConflicts, ScanDies, TypeOK
  <2>2. faults' \in Nat
    BY <1>6 DEF CreateConflicts, ScanDies, Fault, TypeOK
  <2> QED
    BY <1>6, <2>1, <2>2 DEF CreateConflicts, ScanDies, TypeOK
<1> QED
  BY <1>1, <1>2, <1>3, <1>4, <1>5, <1>6 DEF ScanStep

LEMMA MemberTypes ==
    ASSUME TypeOK, NEW u \in Users,
           \/ \E k \in Keys, b \in Content : WriteDirectly(u, k, b)
           \/ ChangeLevel(u)
    PROVE  TypeOK'
<1> USE FilesAssumption
<1>1. ASSUME NEW k \in Keys, NEW b \in Content, WriteDirectly(u, k, b)
      PROVE  TypeOK'
  <2>1. scan' \in [Scans -> Scan]
    BY <1>1, DisturbTypes DEF WriteDirectly
  <2> QED
    BY <1>1, <2>1 DEF WriteDirectly, TypeOK
<1>2. CASE ChangeLevel(u)
  <2>1. PICK new \in LevelsOf(u) : level' = [level EXCEPT ![u] = new]
    BY <1>2 DEF ChangeLevel
  <2>2. new \in Level
    BY <2>1, SmallTypes DEF LevelsOf, Level
  <2> QED
    BY <1>2, <2>1, <2>2 DEF ChangeLevel, TypeOK
<1> QED
  BY <1>1, <1>2

\* Every variable keeps its type.
THEOREM FileTypeCorrect == Spec => []TypeOK
<1>1. Init => TypeOK
  <2> SUFFICES ASSUME Init PROVE TypeOK
    OBVIOUS
  <2>1. \A u \in Users : WriteLevel(u) \in Level
    BY SmallTypes
  <2>2. level \in [Users -> Level] /\ \A u \in Users : level[u] \in LevelsOf(u)
    BY <2>1 DEF Init, LevelsOf
  <2>3. Requests
    BY SmallTypes DEF Init, Requests, UploadIsNamed, Idle
  <2>4. scan \in [Scans -> Scan] /\ record \in [Keys -> Rows]
    BY SmallTypes DEF Init
  <2> QED
    BY <2>2, <2>3, <2>4, TypeParts, FilesAssumption DEF Init, Content
<1>2. TypeOK /\ [Next]_vars => TypeOK'
  <2> SUFFICES ASSUME TypeOK, [Next]_vars PROVE TypeOK'
    OBVIOUS
  <2>1. CASE UNCHANGED vars
    BY <2>1 DEF vars, TypeOK
  <2>2. CASE Next
    BY <2>2, UploadTypes, DeletionTypes, ScanTypes, MemberTypes DEF Next, RequestContinues
  <2> QED
    BY <2>1, <2>2
<1> QED
  BY <1>1, <1>2, PTL DEF Spec

-----------------------------------------------------------------------------
(* Attribution *)

\* A row credits only somebody who uploaded what it records.
TrueRow(k, row) == row.by # Nobody => <<row.by, k, row.etag>> \in wrote

\* It holds of the table, of every snapshot an inventory may write back, and
\* of what an upload is about to save.
Truth ==
    /\ \A k \in Keys : TrueRow(k, record[k])
    /\ \A f \in Scans, k \in Keys : TrueRow(k, scan[f].known[k])
    /\ \A r \in Reqs : req[r].op = "put" /\ req[r].stored =>
         <<req[r].user, req[r].key, req[r].body>> \in wrote

\* What has been uploaded stays uploaded.
LEMMA TrueRowsStay ==
    ASSUME wrote \subseteq wrote'
    PROVE  \A k, row : TrueRow(k, row) => TrueRow(k, row)'
BY DEF TrueRow

LEMMA DiscoveredIsTrue ==
    ASSUME NEW k, NEW row, NEW etag, TrueRow(k, row)
    PROVE  TrueRow(k, Discovered(row, etag))
BY DEF TrueRow, Discovered, Row

\* Watching what others write leaves a scan's snapshot alone.
LEMMA SnapshotsStay ==
    ASSUME TypeOK, NEW k0,
           \/ Disturb \/ DisturbAndForget(k0) \/ scan' = scan
           \/ \E f \in Scans : \E pc, gone : Advance(f, pc, gone)
    PROVE  \A f \in Scans : scan'[f].known = scan[f].known /\ scan'[f].listing = scan[f].listing
<1>1. \A f \in Scans : scan[f] \in Scan
  BY DEF TypeOK
<1>2. ASSUME NEW f \in Scans, NEW pc, NEW gone
      PROVE  /\ [scan[f] EXCEPT !.pc = pc].known = scan[f].known
             /\ [scan[f] EXCEPT !.pc = pc].listing = scan[f].listing
             /\ [scan[f] EXCEPT !.calm = (scan[f].pc = "idle")].known = scan[f].known
             /\ [scan[f] EXCEPT !.calm = (scan[f].pc = "idle")].listing = scan[f].listing
             /\ [scan[f] EXCEPT !.calm = (scan[f].pc = "idle"), !.rows = @ \ gone].known
                  = scan[f].known
             /\ [scan[f] EXCEPT !.calm = (scan[f].pc = "idle"), !.rows = @ \ gone].listing
                  = scan[f].listing
  BY <1>1 DEF Scan
<1>3. ASSUME Disturb \/ DisturbAndForget(k0) \/ scan' = scan, NEW f \in Scans
      PROVE  scan'[f].known = scan[f].known /\ scan'[f].listing = scan[f].listing
  <2>1. CASE Disturb
    BY <1>1, <2>1 DEF Disturb, Scan
  <2>2. CASE DisturbAndForget(k0)
    BY <1>1, <2>2 DEF DisturbAndForget, Scan
  <2> QED
    BY <1>3, <2>1, <2>2
<1>4. ASSUME NEW f \in Scans, NEW pc, NEW gone, Advance(f, pc, gone), NEW h \in Scans
      PROVE  scan'[h].known = scan[h].known /\ scan'[h].listing = scan[h].listing
  <2>1. CASE h = f
    BY <1>2, <1>4, <2>1 DEF Advance
  <2>2. CASE h # f
    BY <1>2, <1>4, <2>2 DEF Advance
  <2> QED
    BY <2>1, <2>2
<1> QED
  BY <1>3, <1>4

LEMMA TruthOfRequests ==
    ASSUME TypeOK, Truth, NEW r \in Reqs,
           \/ \E u \in Users, file \in Files, b \in Bodies : BeginUpload(r, u, file, b)
           \/ \E k \in Keys : BeginAdminDelete(r, k) \/ \E u \in Users : BeginDelete(r, u, k)
           \/ RequestContinues(r) \/ RequestDies(r)
    PROVE  Truth'
<1>0. req[r] \in Request /\ req \in [Reqs -> Request]
  BY DEF TypeOK
<1>1. CASE PutObject(r)
  <2>1. wrote \subseteq wrote' /\ <<req[r].user, req[r].key, req[r].body>> \in wrote'
    BY <1>1 DEF PutObject
  <2>2. \A f \in Scans : scan'[f].known = scan[f].known
    BY <1>1, SnapshotsStay DEF PutObject
  <2>3. \A s \in Reqs :
           req'[s].op = "put" /\ req'[s].stored
           => <<req'[s].user, req'[s].key, req'[s].body>> \in wrote'
    BY <1>0, <1>1, <2>1 DEF PutObject, Truth, Request
  <2>4. record' = record
    BY <1>1 DEF PutObject
  <2> QED
    BY <2>1, <2>2, <2>3, <2>4 DEF Truth, TrueRow
<1>2. CASE SaveRecord(r)
  <2>1. TrueRow(req[r].key, Row(req[r].user, req[r].body))
    BY <1>2 DEF SaveRecord, Truth, TrueRow, Row
  <2>2. wrote' = wrote
    BY <1>2 DEF SaveRecord
  <2>3. \A k \in Keys : TrueRow(k, record'[k])
    BY <1>2, <2>1 DEF SaveRecord, Truth, TypeOK
  <2>4. \A f \in Scans : scan'[f].known = scan[f].known
    BY <1>2, SnapshotsStay DEF SaveRecord
  <2>5. \A s \in Reqs : req'[s] = req[s] \/ req'[s].op # "put"
    BY <1>0, <1>2 DEF SaveRecord, Idle
  <2>6. \A s \in Reqs : req'[s].op = "put" /\ req'[s].stored
                       => <<req'[s].user, req'[s].key, req'[s].body>> \in wrote'
    BY <2>2, <2>5 DEF Truth
  <2> QED
    BY <2>2, <2>3, <2>4, <2>6 DEF Truth, TrueRow
<1>3. CASE DeleteObject(r)
  <2>1. \A f \in Scans : scan'[f].known = scan[f].known
    BY <1>3, SnapshotsStay DEF DeleteObject
  <2>2. \A s \in Reqs : req'[s] = req[s] \/ req'[s].op = "remove"
    BY <1>0, <1>3 DEF DeleteObject, Request
  <2>3. UNCHANGED <<record, wrote>>
    BY <1>3 DEF DeleteObject
  <2> QED
    BY <2>1, <2>2, <2>3 DEF Truth, TrueRow
<1>4. CASE DeleteRecord(r)
  <2>1. \A f \in Scans : scan'[f].known = scan[f].known
    BY <1>4, SnapshotsStay DEF DeleteRecord
  <2>2. \A s \in Reqs : req'[s] = req[s] \/ req'[s].op # "put"
    BY <1>0, <1>4 DEF DeleteRecord, Idle
  <2>3. wrote' = wrote
    BY <1>4 DEF DeleteRecord
  <2>4. \A k \in Keys : record'[k] = record[k] \/ record'[k] = NoRow
    BY <1>4 DEF DeleteRecord, TypeOK
  <2>5. \A s \in Reqs : req'[s].op = "put" /\ req'[s].stored
                       => <<req'[s].user, req'[s].key, req'[s].body>> \in wrote'
    BY <2>2, <2>3 DEF Truth
  <2>6. \A k \in Keys : TrueRow(k, record'[k])
    BY <2>3, <2>4 DEF Truth, TrueRow, NoRow, Row
  <2> QED
    BY <2>1, <2>3, <2>5, <2>6 DEF Truth, TrueRow
<1>5. ASSUME UNCHANGED <<record, scan, wrote>>,
             \A s \in Reqs : req'[s] = req[s] \/ ~req'[s].stored
      PROVE  Truth'
  BY <1>5 DEF Truth, TrueRow
<1>6. CASE \E u \in Users, file \in Files, b \in Bodies : BeginUpload(r, u, file, b)
  BY <1>0, <1>5, <1>6 DEF BeginUpload
<1>7. CASE \E k \in Keys : BeginAdminDelete(r, k) \/ \E u \in Users : BeginDelete(r, u, k)
  BY <1>0, <1>5, <1>7 DEF BeginDelete, BeginAdminDelete
<1>8. CASE RequestDies(r)
  BY <1>0, <1>5, <1>8 DEF RequestDies, Idle
<1> QED
  BY <1>1, <1>2, <1>3, <1>4, <1>6, <1>7, <1>8 DEF RequestContinues

LEMMA TruthOfScans ==
    ASSUME TypeOK, Truth, NEW f \in Scans, ScanStep(f) \/ ScanDies(f)
    PROVE  Truth'
<1>0. scan[f] \in Scan /\ scan \in [Scans -> Scan] /\ record \in [Keys -> Rows]
  BY DEF TypeOK
<1>1. UNCHANGED <<req, wrote>>
  BY DEF ScanStep, ScanDies, ListObjects, ReadRecords, CreateDiscovered, CreateConflicts,
         UpdateKnown, DeleteStale
<1>2. ASSUME \A k \in Keys : TrueRow(k, record'[k]),
             \A h \in Scans, k \in Keys : TrueRow(k, scan'[h].known[k])
      PROVE  Truth'
  BY <1>1, <1>2 DEF Truth, TrueRow
<1>3. \A k \in Keys : TrueRow(k, NoRow) /\ \A b : TrueRow(k, Row(Nobody, b))
  BY DEF TrueRow, NoRow, Row
<1>4. CASE ListObjects(f)
  <2>1. \A h \in Scans, k \in Keys :
           scan'[h].known[k] = scan[h].known[k] \/ scan'[h].known[k] = NoRow
    BY <1>0, <1>4 DEF ListObjects
  <2> QED
    BY <1>2, <1>3, <1>4, <2>1 DEF ListObjects, Truth
<1>5. CASE ReadRecords(f)
  <2>1. \A h \in Scans, k \in Keys :
           scan'[h].known[k] = scan[h].known[k] \/ scan'[h].known[k] = record[k]
    BY <1>0, <1>5 DEF ReadRecords
  <2> QED
    BY <1>2, <1>5, <2>1 DEF ReadRecords, Truth
<1>6. CASE CreateDiscovered(f)
  <2>1. \A h \in Scans : scan'[h].known = scan[h].known
    BY <1>6, SnapshotsStay DEF CreateDiscovered
  <2>2. \A k \in Keys : TrueRow(k, record'[k])
    BY <1>3, <1>6 DEF CreateDiscovered, Truth
  <2> QED
    BY <1>2, <2>1, <2>2 DEF Truth
<1>7. CASE CreateConflicts(f) \/ ScanDies(f)
  <2>1. \A h \in Scans : scan'[h] = scan[h] \/ scan'[h] = NoScan
    BY <1>0, <1>7 DEF CreateConflicts, ScanDies
  <2>2. \A h \in Scans, k \in Keys : TrueRow(k, scan'[h].known[k])
    BY <1>3, <2>1 DEF NoScan, Truth
  <2>3. record' = record
    BY <1>7 DEF CreateConflicts, ScanDies
  <2> QED
    BY <1>2, <2>2, <2>3 DEF Truth
<1>8. CASE UpdateKnown(f)
  <2>1. \A h \in Scans : scan'[h].known = scan[h].known
    BY <1>8, SnapshotsStay DEF UpdateKnown
  <2>2. \A k \in Keys : TrueRow(k, Discovered(scan[f].known[k], scan[f].listing[k]))
    BY DiscoveredIsTrue DEF Truth
  <2>3. \A k \in Keys : TrueRow(k, record'[k])
    BY <1>8, <2>2 DEF UpdateKnown, Truth
  <2> QED
    BY <1>2, <2>1, <2>3 DEF Truth
<1>9. CASE DeleteStale(f)
  <2>1. \A h \in Scans : h # f => scan'[h].known = scan[h].known
    BY <1>0, <1>9 DEF DeleteStale, Scan
  <2>2. scan'[f] = NoScan
    BY <1>9 DEF DeleteStale
  <2>3. \A h \in Scans, k \in Keys : TrueRow(k, scan'[h].known[k])
    BY <1>3, <2>1, <2>2 DEF NoScan, Truth
  <2>4. \A k \in Keys : TrueRow(k, record'[k])
    BY <1>3, <1>9 DEF DeleteStale, Truth
  <2> QED
    BY <1>2, <2>3, <2>4
<1> QED
  BY <1>4, <1>5, <1>6, <1>7, <1>8, <1>9 DEF ScanStep

LEMMA TruthStep == TypeOK /\ Truth /\ [Next]_vars => Truth'
<1> SUFFICES ASSUME TypeOK, Truth, [Next]_vars PROVE Truth'
  OBVIOUS
<1>1. CASE UNCHANGED vars
  BY <1>1 DEF vars, Truth, TrueRow
<1>2. ASSUME NEW u \in Users, NEW k \in Keys, NEW b \in Content, WriteDirectly(u, k, b)
      PROVE  Truth'
  <2>1. \A f \in Scans : scan'[f].known = scan[f].known
    BY <1>2, SnapshotsStay DEF WriteDirectly
  <2> QED
    BY <1>2, <2>1 DEF WriteDirectly, Truth, TrueRow
<1>3. ASSUME NEW u \in Users, ChangeLevel(u)
      PROVE  Truth'
  BY <1>3 DEF ChangeLevel, Truth, TrueRow
<1> QED
  BY <1>1, <1>2, <1>3, TruthOfRequests, TruthOfScans DEF Next

\* Nobody is ever credited with bytes they did not upload.
THEOREM AttributionHolds == Spec => []AttributionIsTrue
<1>1. Init => Truth
  BY DEF Init, Truth, TrueRow, NoRow, Row, NoScan, Idle
<1>2. Truth => AttributionIsTrue
  BY DEF Truth, TrueRow, AttributionIsTrue
<1> QED
  BY <1>1, <1>2, TruthStep, FileTypeCorrect, PTL DEF Spec

-----------------------------------------------------------------------------
(* An undisturbed inventory *)

\* What a calm scan has seen is still so, and it knows what it has written.
CalmView(s) ==
    /\ \A k \in Keys : object[k] = s.listing[k]
    /\ s.pc \in {"read", "created", "updated"} => s.rows = {k \in Keys : HasRow(s.known[k])}
    /\ s.pc = "read" => \A k \in Keys : record[k].etag = s.known[k].etag
    /\ s.pc = "created" => \A k \in Keys :
         record[k].etag = IF k \in ToCreate(s) THEN s.listing[k] ELSE s.known[k].etag
    /\ s.pc = "updated" => \A k \in Keys :
         record[k].etag = IF s.listing[k] # NoBody THEN s.listing[k] ELSE s.known[k].etag

CalmScans == \A f \in Scans : scan[f].pc # "idle" /\ scan[f].calm => CalmView(scan[f])

\* After somebody else's write no scan is both under way and calm.
LEMMA WritesDisturb ==
    ASSUME TypeOK, NEW k0, Disturb \/ DisturbAndForget(k0)
    PROVE  CalmScans'
<1>1. ASSUME NEW f \in Scans
      PROVE  ~(scan'[f].pc # "idle" /\ scan'[f].calm)
  <2>0. scan[f] \in Scan
    BY DEF TypeOK
  <2>1. scan'[f].pc = scan[f].pc /\ (scan'[f].calm <=> scan[f].pc = "idle")
    <3>1. CASE Disturb
      BY <2>0, <3>1 DEF Disturb, Scan
    <3>2. CASE DisturbAndForget(k0)
      BY <2>0, <3>2 DEF DisturbAndForget, Scan
    <3> QED
      BY <3>1, <3>2
  <2> QED
    BY <2>1
<1> QED
  BY <1>1 DEF CalmScans

\* So it is with the other scans when one writes.
LEMMA AdvanceDisturbs ==
    ASSUME TypeOK, NEW f \in Scans, NEW pc, NEW gone, Advance(f, pc, gone)
    PROVE  /\ \A h \in Scans : h # f => ~(scan'[h].pc # "idle" /\ scan'[h].calm)
           /\ scan'[f] = [scan[f] EXCEPT !.pc = pc]
<1>1. ASSUME NEW h \in Scans, h # f
      PROVE  ~(scan'[h].pc # "idle" /\ scan'[h].calm)
  <2>0. scan[h] \in Scan
    BY DEF TypeOK
  <2>1. scan'[h] = [scan[h] EXCEPT !.calm = (scan[h].pc = "idle"), !.rows = @ \ gone]
    BY <1>1 DEF Advance
  <2>2. scan'[h].pc = scan[h].pc /\ (scan'[h].calm <=> scan[h].pc = "idle")
    BY <2>0, <2>1 DEF Scan
  <2> QED
    BY <2>2
<1> QED
  BY <1>1 DEF Advance

\* With objects and records as they were, calm scans stay calm.
LEMMA ViewsStay ==
    ASSUME CalmScans, UNCHANGED <<object, record>>, NEW f,
           \A h \in Scans : h # f => scan'[h] = scan[h],
           f \in Scans => (scan'[f].pc # "idle" /\ scan'[f].calm => CalmView(scan'[f]))
    PROVE  CalmScans'
<1>1. \A h \in Scans : h # f => CalmView(scan[h])' = CalmView(scan[h])
  BY DEF CalmView, ToCreate, HasRow
<1>2. f \in Scans => (scan'[f].pc # "idle" /\ scan'[f].calm => CalmView(scan[f])')
  BY DEF CalmView, ToCreate, HasRow
<1> QED
  BY <1>1, <1>2 DEF CalmScans

LEMMA CalmOwnStep ==
    ASSUME TypeOK, CalmScans, NEW f \in Scans, ScanStep(f) \/ ScanDies(f)
    PROVE  CalmScans'
<1>0. scan[f] \in Scan /\ scan \in [Scans -> Scan]
  BY DEF TypeOK
<1>1. CASE ListObjects(f)
  <2>1. scan'[f] = [pc |-> "listed", listing |-> object,
                    known |-> [k \in Keys |-> NoRow], rows |-> {}, calm |-> TRUE]
    BY <1>0, <1>1 DEF ListObjects
  <2>2. CalmView(scan'[f])
    BY <2>1 DEF CalmView
  <2>3. UNCHANGED <<object, record>> /\ \A h \in Scans : h # f => scan'[h] = scan[h]
    BY <1>0, <1>1 DEF ListObjects
  <2> QED
    BY <2>2, <2>3, ViewsStay
<1>2. CASE ReadRecords(f)
  <2>1. scan'[f] = [pc |-> "read", listing |-> scan[f].listing, known |-> record,
                    rows |-> {k \in Keys : HasRow(record[k])}, calm |-> scan[f].calm]
    BY <1>0, <1>2 DEF ReadRecords
  <2>2. scan[f].calm => CalmView(scan'[f])
    BY <1>2, <2>1 DEF CalmView, CalmScans, ReadRecords
  <2>3. UNCHANGED <<object, record>> /\ \A h \in Scans : h # f => scan'[h] = scan[h]
    BY <1>0, <1>2 DEF ReadRecords
  <2> QED
    BY <2>1, <2>2, <2>3, ViewsStay
<1>3. CASE CreateConflicts(f) \/ ScanDies(f)
  <2>1. scan'[f].pc = "idle"
    BY <1>0, <1>3 DEF CreateConflicts, ScanDies, NoScan
  <2>2. UNCHANGED <<object, record>> /\ \A h \in Scans : h # f => scan'[h] = scan[h]
    BY <1>0, <1>3 DEF CreateConflicts, ScanDies
  <2> QED
    BY <2>1, <2>2, ViewsStay
<1>4. CASE CreateDiscovered(f)
  <2>1. /\ scan'[f] = [scan[f] EXCEPT !.pc = "created"]
        /\ \A h \in Scans : h # f => ~(scan'[h].pc # "idle" /\ scan'[h].calm)
    BY <1>4, AdvanceDisturbs DEF CreateDiscovered
  <2>2. /\ scan'[f].listing = scan[f].listing /\ scan'[f].known = scan[f].known
        /\ scan'[f].rows = scan[f].rows /\ scan'[f].pc = "created"
        /\ scan'[f].calm = scan[f].calm
    BY <1>0, <2>1 DEF Scan
  <2>3. ToCreate(scan'[f]) = ToCreate(scan[f])
    BY <2>2 DEF ToCreate
  <2>4. ASSUME scan[f].calm
        PROVE  CalmView(scan[f])'
    <3>1. CalmView(scan[f]) /\ scan[f].pc = "read"
      BY <1>4, <2>4 DEF CalmScans, CreateDiscovered
    <3>2. \A k \in Keys :
             record'[k].etag = IF k \in ToCreate(scan[f]) THEN scan[f].listing[k]
                               ELSE scan[f].known[k].etag
      BY <1>4, <3>1 DEF CreateDiscovered, CalmView, Row
    <3>3. \A k \in Keys : object'[k] = scan[f].listing[k]
      BY <1>4, <3>1 DEF CreateDiscovered, CalmView
    <3>4. scan[f].rows = {k \in Keys : HasRow(scan[f].known[k])}
      BY <3>1 DEF CalmView
    <3>5. ToCreate(scan[f])' = ToCreate(scan[f])
      BY <2>2 DEF ToCreate, HasRow
    <3> QED
      BY <2>2, <3>2, <3>3, <3>4, <3>5 DEF CalmView, HasRow
  <2> QED
    BY <2>1, <2>2, <2>4 DEF CalmScans
<1>5. CASE UpdateKnown(f)
  <2>1. /\ scan'[f] = [scan[f] EXCEPT !.pc = "updated"]
        /\ \A h \in Scans : h # f => ~(scan'[h].pc # "idle" /\ scan'[h].calm)
    BY <1>5, AdvanceDisturbs DEF UpdateKnown
  <2>2. /\ scan'[f].listing = scan[f].listing /\ scan'[f].known = scan[f].known
        /\ scan'[f].rows = scan[f].rows /\ scan'[f].pc = "updated"
        /\ scan'[f].calm = scan[f].calm
    BY <1>0, <2>1 DEF Scan
  <2>4. ASSUME scan[f].calm
        PROVE  CalmView(scan[f])'
    <3>1. CalmView(scan[f]) /\ scan[f].pc = "created"
      BY <1>5, <2>4 DEF CalmScans, UpdateKnown
    <3>2. ASSUME NEW k \in Keys
          PROVE  record'[k].etag = IF scan[f].listing[k] # NoBody THEN scan[f].listing[k]
                                   ELSE scan[f].known[k].etag
      <4>1. Discovered(scan[f].known[k], scan[f].listing[k]).etag = scan[f].listing[k]
        BY DEF Discovered, Row
      <4>2. k \in ToUpdate(scan[f]) => k \in scan[f].rows
        BY <3>1 DEF CalmView, ToUpdate
      <4> QED
        BY <1>5, <3>1, <4>1, <4>2 DEF UpdateKnown, CalmView, ToUpdate, ToCreate
    <3>3. \A k \in Keys : object'[k] = scan[f].listing[k]
      BY <1>5, <3>1 DEF UpdateKnown, CalmView
    <3>4. scan[f].rows = {k \in Keys : HasRow(scan[f].known[k])}
      BY <3>1 DEF CalmView
    <3> QED
      BY <2>2, <3>2, <3>3, <3>4 DEF CalmView, HasRow
  <2> QED
    BY <2>1, <2>2, <2>4 DEF CalmScans
<1>6. CASE DeleteStale(f)
  <2>1. ASSUME NEW h \in Scans
        PROVE  ~(scan'[h].pc # "idle" /\ scan'[h].calm)
    <3>0. scan[h] \in Scan
      BY DEF TypeOK
    <3>1. CASE h = f
      BY <1>6, <3>1 DEF DeleteStale, NoScan
    <3>2. CASE h # f
      <4>1. scan'[h] = [scan[h] EXCEPT !.calm = (scan[h].pc = "idle"),
                                       !.rows = @ \ ForgetStale(scan[f])]
        BY <1>6, <3>2 DEF DeleteStale
      <4>2. scan'[h].pc = scan[h].pc /\ (scan'[h].calm <=> scan[h].pc = "idle")
        BY <3>0, <4>1 DEF Scan
      <4> QED
        BY <4>2
    <3> QED
      BY <3>1, <3>2
  <2> QED
    BY <2>1 DEF CalmScans
<1> QED
  BY <1>1, <1>2, <1>3, <1>4, <1>5, <1>6 DEF ScanStep

LEMMA CalmStep == TypeOK /\ CalmScans /\ [Next]_vars => CalmScans'
<1> SUFFICES ASSUME TypeOK, CalmScans, [Next]_vars PROVE CalmScans'
  OBVIOUS
<1>1. ASSUME UNCHANGED <<object, record, scan>>
      PROVE  CalmScans'
  BY <1>1 DEF CalmScans, CalmView, ToCreate, HasRow
<1>2. ASSUME NEW r \in Reqs,
             \/ \E u \in Users, file \in Files, b \in Bodies : BeginUpload(r, u, file, b)
             \/ \E k \in Keys : BeginAdminDelete(r, k) \/ \E u \in Users : BeginDelete(r, u, k)
             \/ RequestDies(r)
      PROVE  CalmScans'
  BY <1>1, <1>2 DEF BeginUpload, BeginDelete, BeginAdminDelete, RequestDies
<1>3. ASSUME NEW r \in Reqs, RequestContinues(r)
      PROVE  CalmScans'
  BY <1>3, WritesDisturb DEF RequestContinues, PutObject, SaveRecord, DeleteObject, DeleteRecord
<1>4. ASSUME NEW u \in Users, NEW k \in Keys, NEW b \in Content, WriteDirectly(u, k, b)
      PROVE  CalmScans'
  BY <1>4, WritesDisturb DEF WriteDirectly
<1>5. ASSUME NEW u \in Users, ChangeLevel(u)
      PROVE  CalmScans'
  BY <1>1, <1>5 DEF ChangeLevel
<1>6. CASE UNCHANGED vars
  BY <1>1, <1>6 DEF vars
<1> QED
  BY <1>2, <1>3, <1>4, <1>5, <1>6, CalmOwnStep DEF Next

\* An undisturbed inventory leaves the records matching the objects.
THEOREM CalmInventorySettles == Spec => CalmScanSettles
<1>1. Init => CalmScans
  BY DEF Init, CalmScans, NoScan
<1>2. ASSUME TypeOK, CalmScans, NEW f \in Scans, DeleteStale(f), scan[f].calm
      PROVE  Matching'
  <2>1. CalmView(scan[f]) /\ scan[f].pc = "updated"
    BY <1>2 DEF CalmScans, DeleteStale
  <2>2. ASSUME NEW k \in Keys
        PROVE  record'[k].etag = object'[k]
    <3>1. object'[k] = scan[f].listing[k]
      BY <1>2, <2>1 DEF DeleteStale, CalmView
    <3>2. CASE scan[f].listing[k] # NoBody
      BY <1>2, <2>1, <3>1, <3>2 DEF DeleteStale, CalmView, ForgetStale, Stale
    <3>3. CASE scan[f].listing[k] = NoBody
      <4>1. k \in ForgetStale(scan[f]) <=> HasRow(scan[f].known[k])
        BY <2>1, <3>3 DEF CalmView, ForgetStale, Stale
      <4>2. CASE HasRow(scan[f].known[k])
        BY <1>2, <3>1, <3>3, <4>1, <4>2 DEF DeleteStale, NoRow, Row
      <4>3. CASE ~HasRow(scan[f].known[k])
        BY <1>2, <2>1, <3>1, <3>3, <4>1, <4>3 DEF DeleteStale, CalmView, HasRow
      <4> QED
        BY <4>2, <4>3
    <3> QED
      BY <3>2, <3>3
  <2> QED
    BY <2>2 DEF Matching
<1>3. TypeOK /\ CalmScans /\ [Next]_vars =>
        [\A f \in Scans : DeleteStale(f) /\ scan[f].calm => Matching']_vars
  BY <1>2
<1> QED
  BY <1>1, <1>3, CalmStep, FileTypeCorrect, PTL DEF Spec, CalmScanSettles
=============================================================================
