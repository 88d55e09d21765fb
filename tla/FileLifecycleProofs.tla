------------------------- MODULE FileLifecycleProofs -------------------------
(***************************************************************************)
(* The life of a file, proved: whatever uploads, scans, deletions, purges, *)
(* attachments, reconciliations and crashes do together implements         *)
(* FileLifecycle, for any number of each.  Beyond IInv the proof needs     *)
(* LifeInvariant: a scanner works on the contents that were confirmed, and *)
(* a reconciliation that is about to fail a file has seen its object gone. *)
(***************************************************************************)
EXTENDS FilesProofs

Sourced ==
  \A s \in Scanners, f \in Files : scanner[s].pc # "idle" /\ scanner[s].file = f =>
    /\ row[f].status # "pending"
    /\ Exists(f) => scanner[s].source = row[f].etag
Missed ==
  \A k \in Reconcilers, f \in Files :
    reconciler[k].pc = "missing" /\ reconciler[k].file = f /\ Uploaded(f) =>
      candidate[f][row[f].active] = None
Forgotten == \A f \in Files : row[f].status = "gone" => row[f].etag = None

LifeInvariant == Sourced /\ Missed /\ Forgotten

-----------------------------------------------------------------------------
(* What a step makes of a row *)

Kept(f) ==
  /\ row'[f].status = row[f].status /\ row'[f].deleted = row[f].deleted
  /\ row'[f].etag = row[f].etag /\ row'[f].active = row[f].active
Turns(f, from, to) ==
  /\ Live(f) /\ row[f].status \in from
  /\ ~row'[f].deleted /\ row'[f].status \in to
  /\ row'[f].etag = row[f].etag

Reserved(f) ==
  /\ row[f].status = "absent"
  /\ row'[f].status = "pending" /\ ~row'[f].deleted /\ row'[f].etag = None
Confirmed(f) ==
  /\ Live(f) /\ row[f].status = "pending"
  /\ row'[f].status = "uploading" /\ ~row'[f].deleted /\ row'[f].etag \in Contents
Completed(f) ==
  /\ Turns(f, {"scanning"}, {"uploaded"})
  /\ \E s \in Scanners : /\ scanner[s].pc = "complete" /\ Holds(s) /\ scanner[s].file = f
                         /\ row'[f].active = scanner[s].token /\ candidate' = candidate
Failed(f) ==
  /\ Turns(f, {"uploaded", "failed"}, {"failed"})
  /\ \E k \in Reconcilers : reconciler[k].pc = "missing" /\ reconciler[k].file = f
Deleted(f) ==
  /\ row[f].status # "absent" /\ row'[f].status = row[f].status
  /\ row'[f].deleted /\ row'[f].etag = row[f].etag
Purged(f) ==
  /\ row[f].status # "absent" /\ ~Live(f)
  /\ row'[f].status = "gone" /\ row'[f].etag = None
Struck(f) ==
  /\ Live(f) /\ f \in Forsaken
  /\ row'[f].status = "gone" /\ row'[f].etag = None

Moves(f) ==
  \/ Kept(f)
  \/ Reserved(f) \/ Confirmed(f)
  \/ Turns(f, {"uploading", "scanning"}, {"uploading", "scanning"})
  \/ Turns(f, {"pending", "uploading", "scanning"}, {"failed"})
  \/ Completed(f) \/ Failed(f) \/ Deleted(f) \/ Purged(f)
  \/ Struck(f)

\* What the rows that are written keep of the row before.
LEMMA ViewUpdates ==
  ASSUME NEW v \in RowType, NEW x, NEW c, NEW t
  PROVE  /\ LET w == [v EXCEPT !.status = x] IN
            w.status = x /\ w.deleted = v.deleted /\ w.etag = v.etag /\ w.active = v.active
         /\ LET w == [v EXCEPT !.status = "uploading", !.etag = c] IN
            w.status = "uploading" /\ w.deleted = v.deleted /\ w.etag = c
         /\ LET w == ClaimedRow(v, t) IN
            w.status = "scanning" /\ w.deleted = v.deleted /\ w.etag = v.etag
         /\ LET w == [v EXCEPT !.lease = x] IN
            w.status = v.status /\ w.deleted = v.deleted /\ w.etag = v.etag /\ w.active = v.active
         /\ LET w == [v EXCEPT !.status = "uploaded", !.active = t, !.claim = 0, !.lease = "none"] IN
            w.status = "uploaded" /\ w.deleted = v.deleted /\ w.etag = v.etag /\ w.active = t
         /\ LET w == [v EXCEPT !.status = x, !.claim = 0, !.lease = "none"] IN
            w.status = x /\ w.deleted = v.deleted /\ w.etag = v.etag
         /\ LET w == [v EXCEPT !.deleted = TRUE] IN
            w.status = v.status /\ w.deleted /\ w.etag = v.etag
         /\ LET w == [v EXCEPT !.link = x] IN
            w.status = v.status /\ w.deleted = v.deleted /\ w.etag = v.etag /\ w.active = v.active
         /\ LET w == [v EXCEPT !.age = x] IN
            w.status = v.status /\ w.deleted = v.deleted /\ w.etag = v.etag /\ w.active = v.active
BY DEF RowType, ClaimedRow

\* A step that writes the row of one file.
LEMMA OneMoves ==
  ASSUME TypeOK, NEW f \in Files, NEW v, row' = [row EXCEPT ![f] = v]
  PROVE  row'[f] = v /\ \A g \in Files \ {f} : Moves(g)
BY DEF TypeOK, Moves, Kept

\* A step that writes no row.
LEMMA NoneMoves ==
  ASSUME row' = row
  PROVE  \A f \in Files : Moves(f)
BY DEF Moves, Kept

\* A request reserves its row, or fails it when its URL cannot be signed.
LEMMA RequestMoves ==
  ASSUME IInv, NEW r \in Requests,
         (\E f \in Files : BeginUpload(r, f)) \/ RequestStep(r) \/ EndRequest(r)
  PROVE  \A f \in Files : Moves(f)
<1>1. CASE row' = row
  BY <1>1, NoneMoves
<1>2. CASE InsertPending(r)
  <2>1. PICK f \in Files : f = request[r].file /\ row[f].status = "absent"
    BY <1>2 DEF InsertPending, IInv, Reserving
  <2>2. row' = [row EXCEPT ![f] = NoRow("pending")]
    BY <1>2, <2>1 DEF InsertPending
  <2>3. row'[f] = NoRow("pending") /\ \A g \in Files \ {f} : Moves(g)
    BY <2>2, OneMoves DEF IInv
  <2>4. Moves(f)
    BY <2>1, <2>3 DEF Moves, Reserved, NoRow
  <2> QED BY <2>3, <2>4
<1>3. CASE EndRequest(r) /\ row' # row
  <2>1. PICK f \in Files : f = request[r].file /\ row[f].status \in {"pending", "gone"}
    BY <1>3 DEF EndRequest, IInv, Reserving
  <2> DEFINE v == [row[f] EXCEPT !.status = "failed"]
  <2>2. Live(f) /\ row' = [row EXCEPT ![f] = v]
    BY <1>3, <2>1 DEF EndRequest, IInv, TypeOK
  <2>3. row[f] \in RowType
    BY DEF IInv, TypeOK
  <2>4. v.status = "failed" /\ v.deleted = row[f].deleted /\ v.etag = row[f].etag
    BY <2>3, ViewUpdates
  <2> HIDE DEF v
  <2>5. row'[f] = v /\ \A g \in Files \ {f} : Moves(g)
    BY <2>2, OneMoves DEF IInv
  <2>6. row[f].status = "pending" /\ ~row[f].deleted
    BY <2>1, <2>2 DEF Live, Exists, Statuses
  <2>7. Moves(f)
    BY <2>2, <2>4, <2>5, <2>6 DEF Moves, Turns
  <2> QED BY <2>5, <2>7
<1> QED BY <1>1, <1>2, <1>3 DEF BeginUpload, RequestStep, LockUser, CheckQuota, SignUrl

\* A confirmation, a claim, the end of a lease and a day that goes by.
LEMMA UploadMoves ==
  ASSUME IInv, NEW f \in Files,
         \/ \E c \in Contents : PutObject(f, c)
         \/ BeginConfirm(f) \/ MarkUploadReady(f) \/ LeaseEnds(f) \/ Age(f)
         \/ \E s \in Scanners : ClaimUploading(s, f)
  PROVE  \A g \in Files : Moves(g)
<1>1. CASE row' = row
  BY <1>1, NoneMoves
<1>2. row[f] \in RowType /\ row \in [Files -> RowType]
  BY DEF IInv, TypeOK
<1>3. CASE MarkUploadReady(f) /\ row' # row
  <2> DEFINE v == [row[f] EXCEPT !.status = "uploading", !.etag = confirming[f]]
  <2>1. row' = [row EXCEPT ![f] = v] /\ Live(f) /\ row[f].status = "pending"
    BY <1>2, <1>3 DEF MarkUploadReady
  <2>2. v.status = "uploading" /\ v.deleted = row[f].deleted /\ v.etag = confirming[f]
    BY <1>2, ViewUpdates
  <2>3. confirming[f] \in Contents
    BY <1>3 DEF MarkUploadReady, IInv, TypeOK
  <2> HIDE DEF v
  <2>4. row'[f] = v /\ \A g \in Files \ {f} : Moves(g)
    BY <2>1, OneMoves DEF IInv
  <2>5. Moves(f)
    BY <2>1, <2>2, <2>3, <2>4 DEF Moves, Confirmed, Live
  <2> QED BY <2>4, <2>5
<1>4. CASE LeaseEnds(f)
  <2> DEFINE v == [row[f] EXCEPT !.lease = "none"]
  <2>1. row' = [row EXCEPT ![f] = v]
    BY <1>2, <1>4 DEF LeaseEnds
  <2>2. v.status = row[f].status /\ v.deleted = row[f].deleted /\ v.etag = row[f].etag
        /\ v.active = row[f].active
    BY <1>2, ViewUpdates
  <2> HIDE DEF v
  <2>3. row'[f] = v /\ \A g \in Files \ {f} : Moves(g)
    BY <2>1, OneMoves DEF IInv
  <2> QED BY <2>2, <2>3 DEF Moves, Kept
<1>5. CASE Age(f)
  <2> DEFINE x == IF row[f].age = "new" THEN "stale" ELSE "old"
             v == [row[f] EXCEPT !.age = x]
  <2>1. row' = [row EXCEPT ![f] = v]
    BY <1>2, <1>5 DEF Age
  <2>2. v.status = row[f].status /\ v.deleted = row[f].deleted /\ v.etag = row[f].etag
        /\ v.active = row[f].active
    BY <1>2, ViewUpdates
  <2> HIDE DEF v
  <2>3. row'[f] = v /\ \A g \in Files \ {f} : Moves(g)
    BY <2>1, OneMoves DEF IInv
  <2> QED BY <2>2, <2>3 DEF Moves, Kept
<1>6. CASE \E s \in Scanners : ClaimUploading(s, f)
  <2> DEFINE t == row[f].attempts + 1
             v == ClaimedRow(row[f], t)
  <2>1. row' = [row EXCEPT ![f] = v] /\ Live(f) /\ row[f].status \in {"uploading", "scanning"}
    BY <1>2, <1>6 DEF ClaimUploading, Claimable, ClaimedRow
  <2>2. v.status = "scanning" /\ v.deleted = row[f].deleted /\ v.etag = row[f].etag
    BY <1>2, ViewUpdates
  <2> HIDE DEF v
  <2>3. row'[f] = v /\ \A g \in Files \ {f} : Moves(g)
    BY <2>1, OneMoves DEF IInv
  <2>4. Moves(f)
    BY <2>1, <2>2, <2>3 DEF Moves, Turns, Live
  <2> QED BY <2>3, <2>4
<1> QED BY <1>1, <1>3, <1>4, <1>5, <1>6 DEF PutObject, BeginConfirm

\* A scanner renews its lease, completes its scan or gives up, as long as it holds its claim.
LEMMA ScannerMoves ==
  ASSUME IInv, NEW s \in Scanners, ScannerStep(s) \/ StopScanner(s) \/ BucketFails(s)
  PROVE  \A g \in Files : Moves(g)
<1>1. CASE row' = row
  BY <1>1, NoneMoves
<1>2. CASE row' # row
  <2>1. RenewLease(s) \/ CompleteScan(s) \/ RejectScan(s) \/ RetryScan(s)
    BY <1>2 DEF ScannerStep, ReadSource, ScanSource, VerifyCandidate, Asked, CopyToCandidate,
                DropCandidate, DropQuarantine, DropOtherCandidates, StopScanner, BucketFails
  <2>2. Holds(s) /\ scanner[s].pc # "idle"
    BY <1>2, <2>1 DEF RenewLease, CompleteScan, RejectScan, RetryScan
  <2>3. PICK f \in Files : f = scanner[s].file
    BY <2>2 DEF IInv, Claims
  <2>4. row \in [Files -> RowType] /\ row[f] \in RowType
    BY DEF IInv, TypeOK
  <2>5. Live(f) /\ row[f].status = "scanning" /\ ~row[f].deleted
    BY <2>2, <2>3 DEF Holds, Live
  <2>6. CASE RenewLease(s)
    <3> DEFINE v == [row[f] EXCEPT !.lease = "held"]
    <3>1. row' = [row EXCEPT ![f] = v]
      BY <2>2, <2>3, <2>4, <2>6 DEF RenewLease
    <3>2. v.status = row[f].status /\ v.deleted = row[f].deleted /\ v.etag = row[f].etag
          /\ v.active = row[f].active
      BY <2>4, ViewUpdates
    <3> HIDE DEF v
    <3>3. row'[f] = v /\ \A g \in Files \ {f} : Moves(g)
      BY <3>1, OneMoves DEF IInv
    <3> QED BY <3>2, <3>3 DEF Moves, Kept
  <2>7. CASE CompleteScan(s)
    <3> DEFINE t == scanner[s].token
               v == [row[f] EXCEPT !.status = "uploaded", !.active = t, !.claim = 0, !.lease = "none"]
    <3>1. row' = [row EXCEPT ![f] = v] /\ scanner[s].pc = "complete" /\ candidate' = candidate
      BY <2>2, <2>3, <2>4, <2>7 DEF CompleteScan, bucket
    <3>2. v.status = "uploaded" /\ v.deleted = row[f].deleted /\ v.etag = row[f].etag /\ v.active = t
      BY <2>4, ViewUpdates
    <3> HIDE DEF v
    <3>3. row'[f] = v /\ \A g \in Files \ {f} : Moves(g)
      BY <3>1, OneMoves DEF IInv
    <3>4. Completed(f)
      BY <2>2, <2>3, <2>5, <3>1, <3>2, <3>3 DEF Completed, Turns
    <3> QED BY <3>3, <3>4 DEF Moves
  <2>8. CASE RejectScan(s) \/ RetryScan(s)
    <3>1. PICK x \in {"uploading", "failed"} : row' = Unclaimed(f, x)
      BY <2>2, <2>3, <2>8 DEF RejectScan, RetryScan
    <3> DEFINE v == [row[f] EXCEPT !.status = x, !.claim = 0, !.lease = "none"]
    <3>2. row' = [row EXCEPT ![f] = v]
      BY <2>4, <3>1 DEF Unclaimed
    <3>3. v.status = x /\ v.deleted = row[f].deleted /\ v.etag = row[f].etag
      BY <2>4, ViewUpdates
    <3> HIDE DEF v
    <3>4. row'[f] = v /\ \A g \in Files \ {f} : Moves(g)
      BY <3>2, OneMoves DEF IInv
    <3>5. Moves(f)
      BY <2>5, <3>3, <3>4 DEF Moves, Turns
    <3> QED BY <3>4, <3>5
  <2> QED BY <2>1, <2>6, <2>7, <2>8
<1> QED BY <1>1, <1>2

\* Deletions mark a row, clean-ups take one out that is marked, and purges one they have announced.
LEMMA RemoverMoves ==
  ASSUME IInv, NEW m \in Removers,
         \/ \E f \in Files : BeginDelete(m, f) \/ BeginPurge(m, f) \/ ClaimCleanup(m, f)
         \/ RemoverStep(m) \/ StopRemover(m)
  PROVE  \A g \in Files : Moves(g)
<1>1. CASE row' = row
  BY <1>1, NoneMoves
<1>2. ASSUME NEW f \in Files, row[f].status # "absent", row' = [row EXCEPT ![f].deleted = TRUE]
      PROVE  \A g \in Files : Moves(g)
  <2> DEFINE v == [row[f] EXCEPT !.deleted = TRUE]
  <2>1. row[f] \in RowType /\ row' = [row EXCEPT ![f] = v]
    BY <1>2 DEF IInv, TypeOK
  <2>2. v.status = row[f].status /\ v.deleted /\ v.etag = row[f].etag
    BY <2>1, ViewUpdates
  <2> HIDE DEF v
  <2>3. row'[f] = v /\ \A g \in Files \ {f} : Moves(g)
    BY <2>1, OneMoves DEF IInv
  <2>4. Moves(f)
    BY <1>2, <2>2, <2>3 DEF Moves, Deleted
  <2> QED BY <2>3, <2>4
<1>3. CASE \E f \in Files : ClaimCleanup(m, f)
  BY <1>2, <1>3 DEF ClaimCleanup, Cleanable, Exists, Statuses
<1>4. CASE MarkDeleted(m) /\ row' # row
  <2>1. remover[m].file \in Files /\ row[remover[m].file].status # "absent"
    BY <1>4 DEF MarkDeleted, IInv, Removals, Removing
  <2>2. PICK f \in Files : f = remover[m].file /\ row[f].status # "absent"
    BY <2>1
  <2>3. row' = [row EXCEPT ![f].deleted = TRUE]
    BY <1>4, <2>2 DEF MarkDeleted
  <2> QED BY <1>2, <2>2, <2>3
<1>5. CASE HardDelete(m)
  <2>1. /\ remover[m].file \in Files /\ row[remover[m].file].status # "absent"
        /\ Live(remover[m].file) => remover[m].file \in Forsaken
    BY <1>5 DEF HardDelete, IInv, Removals, Removing, Forsaken
  <2>2. PICK f \in Files : /\ f = remover[m].file /\ row[f].status # "absent"
                           /\ Live(f) => f \in Forsaken
    BY <2>1
  <2>3. row' = [row EXCEPT ![f] = NoRow("gone")]
    BY <1>5, <2>2 DEF HardDelete
  <2>4. row'[f] = NoRow("gone") /\ \A g \in Files \ {f} : Moves(g)
    BY <2>3, OneMoves DEF IInv
  <2>5. Moves(f)
    BY <2>2, <2>4 DEF Moves, Purged, Struck, NoRow
  <2> QED BY <2>4, <2>5
<1> QED BY <1>1, <1>3, <1>4, <1>5 DEF BeginDelete, BeginPurge, RemoverStep, MarkDeleted,
                                      RemoveQuarantine, RemoveCandidates, StopRemover

\* An attachment deletes the settled files of its slot.
LEMMA AttachMoves ==
  ASSUME IInv, NEW a \in Attachers,
         (\E f \in Files, link \in {"loose", "slot"} : BeginAttach(a, f, link)) \/ AttachStep(a)
         \/ AbortAttach(a)
  PROVE  \A g \in Files : Moves(g)
<1>1. CASE row' = row
  BY <1>1, NoneMoves
<1>2. CASE LinkFile(a) /\ row' # row
  <2> DEFINE old == attach[a].old
             f == attach[a].file
             x == attach[a].link
  <2>1. row' = [g \in Files |-> IF g = f THEN [row[g] EXCEPT !.link = x]
                                ELSE IF g \in old THEN [row[g] EXCEPT !.deleted = TRUE] ELSE row[g]]
    BY <1>2 DEF LinkFile
  <2> SUFFICES ASSUME NEW g \in Files
               PROVE  Moves(g)
    OBVIOUS
  <2>2. row[g] \in RowType
    BY DEF IInv, TypeOK
  <2>3. CASE g = f
    <3> DEFINE v == [row[g] EXCEPT !.link = x]
    <3>1. row'[g] = v
      BY <2>1, <2>3
    <3>2. v.status = row[g].status /\ v.deleted = row[g].deleted /\ v.etag = row[g].etag
          /\ v.active = row[g].active
      BY <2>2, ViewUpdates
    <3> HIDE DEF v
    <3> QED BY <3>1, <3>2 DEF Moves, Kept
  <2>4. CASE g # f /\ g \in old
    <3> DEFINE v == [row[g] EXCEPT !.deleted = TRUE]
    <3>1. row'[g] = v
      BY <2>1, <2>4
    <3>2. v.status = row[g].status /\ v.deleted /\ v.etag = row[g].etag
      BY <2>2, ViewUpdates
    <3>3. row[g].status # "absent"
      BY <2>4 DEF IInv, Replaced, Settled
    <3> HIDE DEF v
    <3> QED BY <3>1, <3>2, <3>3 DEF Moves, Deleted
  <2>5. CASE g # f /\ g \notin old
    <3>1. row'[g] = row[g]
      BY <2>1, <2>5
    <3> QED BY <3>1 DEF Moves, Kept
  <2> QED BY <2>3, <2>4, <2>5
<1> QED BY <1>1, <1>2 DEF BeginAttach, AttachStep, EraseOccupants, LinkFile, AbortAttach

\* A reconciliation fails the file whose object it has missed.
LEMMA ReconcilerMoves ==
  ASSUME IInv, NEW k \in Reconcilers,
         (\E f \in Files : ListUploaded(k, f)) \/ LookForObject(k) \/ MarkMissing(k)
  PROVE  \A g \in Files : Moves(g)
<1>1. CASE row' = row
  BY <1>1, NoneMoves
<1>2. CASE MarkMissing(k) /\ row' # row
  <2>1. reconciler[k].file \in Files /\ Settled(reconciler[k].file) /\ reconciler[k].pc = "missing"
    BY <1>2 DEF MarkMissing, IInv, Reconciling, Looking
  <2>2. PICK f \in Files : f = reconciler[k].file /\ Settled(f)
    BY <2>1
  <2> DEFINE v == [row[f] EXCEPT !.status = "failed"]
  <2>3. row[f] \in RowType /\ row' = [row EXCEPT ![f] = v] /\ Live(f)
    BY <1>2, <2>2 DEF MarkMissing, IInv, TypeOK
  <2>4. v.status = "failed" /\ v.deleted = row[f].deleted /\ v.etag = row[f].etag
    BY <2>3, ViewUpdates
  <2> HIDE DEF v
  <2>5. row'[f] = v /\ \A g \in Files \ {f} : Moves(g)
    BY <2>3, OneMoves DEF IInv
  <2>6. row[f].status \in {"uploaded", "failed"} /\ ~row[f].deleted
    BY <2>2, <2>3 DEF Settled, Live, Exists, Statuses
  <2>7. Failed(f)
    BY <2>1, <2>2, <2>3, <2>4, <2>5, <2>6 DEF Failed, Turns
  <2> QED BY <2>5, <2>7 DEF Moves
<1> QED BY <1>1, <1>2 DEF ListUploaded, LookForObject, MarkMissing

\* Every step moves each row in one of these ways.
LEMMA NextMoves ==
  ASSUME IInv, [Next]_vars
  PROVE  \A f \in Files : Moves(f)
<1>1. CASE UNCHANGED vars
  BY <1>1, NoneMoves DEF vars
<1>2. CASE \E f \in Files : FileStep(f)
  BY <1>2, RequestMoves, UploadMoves, RemoverMoves, AttachMoves, ReconcilerMoves DEF FileStep
<1>3. CASE \E r \in Requests : RequestStep(r) \/ EndRequest(r)
  BY <1>3, RequestMoves
<1>4. CASE \E s \in Scanners : ScannerStep(s) \/ StopScanner(s) \/ BucketFails(s)
  BY <1>4, ScannerMoves
<1>5. CASE \E m \in Removers : RemoverStep(m) \/ StopRemover(m)
  BY <1>5, RemoverMoves
<1>6. CASE \E a \in Attachers : AttachStep(a) \/ AbortAttach(a)
  BY <1>6, AttachMoves
<1>7. CASE \E k \in Reconcilers : LookForObject(k) \/ MarkMissing(k)
  BY <1>7, ReconcilerMoves
<1> QED BY <1>1, <1>2, <1>3, <1>4, <1>5, <1>6, <1>7 DEF Next, Stops

-----------------------------------------------------------------------------
(* The objects behind uploaded files, and who works on what *)

\* The object of an uploaded file is one of its candidates.
LEMMA ActiveToken ==
  ASSUME IInv, NEW f \in Files, Uploaded(f)
  PROVE  row[f].active \in Tokens
<1>1. row[f].active \in 1..row[f].attempts /\ row[f].attempts \in 0..MaxAttempts
  BY FieldTypes DEF IInv, Rows, TypeOK, Uploaded
<1> QED BY <1>1, ConstantsAssumption DEF ConstantsAssumption, Tokens

\* The bytes of an uploaded file are left alone, unless a replacement or a purge erases them.
LEMMA ObjectKept ==
  ASSUME IInv, [Next]_vars, NEW f \in Files, Uploaded(f)
  PROVE  \/ candidate'[f][row[f].active] = candidate[f][row[f].active]
         \/ candidate'[f][row[f].active] = None /\ f \in Forsaken
<1> DEFINE t == row[f].active
<1>1. t \in Tokens /\ row[f].status = "uploaded"
  BY ActiveToken DEF Uploaded
<1>2. CASE candidate' = candidate
  BY <1>2
<1>3. ASSUME NEW m \in Removers, RemoveCandidates(m)
      PROVE  candidate'[f][t] = candidate[f][t] \/ (candidate'[f][t] = None /\ f \in Forsaken)
  <2>1. PICK g \in Files : g = remover[m].file /\ (g = f => f \in Forsaken)
    BY <1>3 DEF RemoveCandidates, IInv, Removals, Removing, Uploaded, Forsaken
  <2> DEFINE named == 1..remover[m].upto
  <2>2. PICK kept \in SUBSET named :
          candidate' = [candidate EXCEPT ![g] =
                         [u \in Tokens |-> IF u \in named \ kept THEN None ELSE candidate[g][u]]]
    <3>1. PICK kept \in SUBSET named :
            candidate' = [candidate EXCEPT ![remover[m].file] =
              [u \in Tokens |-> IF u \in named \ kept THEN None ELSE candidate[remover[m].file][u]]]
      BY <1>3 DEF RemoveCandidates
    <3> QED BY <2>1, <3>1
  <2> HIDE DEF named
  <2> QED BY <1>1, <2>1, <2>2, ClearedTyped DEF IInv
<1>4. ASSUME NEW a \in Attachers, EraseOccupants(a)
      PROVE  candidate'[f] = candidate[f] \/ (candidate'[f][t] = None /\ f \in Forsaken)
  BY <1>1, <1>4 DEF EraseOccupants, Forsaken
<1>5. ASSUME NEW s \in Scanners, NEW c \in Contents \union {None},
             scanner[s].pc \in {"copy", "drop", "refuse"},
             Puts(scanner[s].file, scanner[s].token, c)
      PROVE  candidate'[f][t] = candidate[f][t]
  <2>1. PICK g \in Files, u \in Tokens : g = scanner[s].file /\ u = scanner[s].token
    BY <1>5 DEF IInv, Claims
  <2>2. <<f, t>> # <<g, u>>
    BY <1>1, <1>5, <2>1 DEF IInv, Scans, Scanned, Exists, Statuses
  <2>3. Puts(g, u, c)
    BY <1>5, <2>1
  <2> QED BY <1>1, <2>2, <2>3, CandidateTyped DEF IInv
<1>6. ASSUME NEW s \in Scanners, CopyToCandidate(s) \/ BucketFails(s) \/ DropCandidate(s),
             candidate' # candidate
      PROVE  candidate'[f][t] = candidate[f][t]
  <2>1. scanner[s].pc \in {"copy", "drop", "refuse"}
    BY <1>6 DEF CopyToCandidate, BucketFails, DropCandidate
  <2>2. scanner[s].file \in Files
    BY <2>1 DEF IInv, Claims
  <2>3. PICK c \in Contents \union {None} : Puts(scanner[s].file, scanner[s].token, c)
    BY <1>6, <2>2 DEF CopyToCandidate, BucketFails, DropCandidate, Puts, IInv, TypeOK
  <2> QED BY <1>5, <2>1, <2>3
<1>7. ASSUME NEW s \in Scanners, DropOtherCandidates(s)
      PROVE  candidate'[f][t] = candidate[f][t]
  <2>1. PICK g \in Files : g = scanner[s].file
    BY <1>7 DEF DropOtherCandidates, IInv, Claims
  <2> DEFINE others == {u \in Tokens : u < scanner[s].token}
  <2>2. PICK kept \in SUBSET others :
          candidate' = [candidate EXCEPT ![g] =
                         [u \in Tokens |-> IF u \in others \ kept THEN None ELSE candidate[g][u]]]
    <3>1. PICK kept \in SUBSET others :
            candidate' = [candidate EXCEPT ![scanner[s].file] =
              [u \in Tokens |-> IF u \in others \ kept THEN None ELSE candidate[scanner[s].file][u]]]
      BY <1>7 DEF DropOtherCandidates
    <3> QED BY <2>1, <3>1
  <2>3. f = g => t = scanner[s].token
    BY <1>1, <1>7, <2>1 DEF DropOtherCandidates, IInv, Scans, Scanned, Exists, Statuses
  <2>4. t \in Nat
    BY <1>1, ConstantsAssumption DEF Tokens, ConstantsAssumption
  <2>5. f = g => t \notin others \ kept
    BY <2>3, <2>4
  <2> HIDE DEF others
  <2> QED BY <1>1, <2>2, <2>5, ClearedTyped DEF IInv
<1>8. \/ candidate' = candidate
      \/ \E m \in Removers : RemoveCandidates(m)
      \/ \E a \in Attachers : EraseOccupants(a)
      \/ \E s \in Scanners : CopyToCandidate(s) \/ BucketFails(s) \/ DropCandidate(s)
                             \/ DropOtherCandidates(s)
  <2>1. CASE UNCHANGED vars
    BY <2>1 DEF vars
  <2>2. CASE Next /\ ~\E s \in Scanners : ScannerStep(s)
    BY <2>2 DEF Next, FileStep, RequestStep, RemoverStep, AttachStep, Stops, BeginUpload, PutObject,
       BeginConfirm, MarkUploadReady, ClaimUploading, BeginDelete, BeginPurge, ClaimCleanup,
       BeginAttach, ListUploaded, LeaseEnds, Age, LockUser, CheckQuota, InsertPending, SignUrl,
       MarkDeleted, RemoveQuarantine, HardDelete, LinkFile, LookForObject, MarkMissing, EndRequest,
       StopScanner, StopRemover, AbortAttach, bucket
  <2>3. CASE \E s \in Scanners : ScannerStep(s)
    BY <2>3 DEF ScannerStep, ReadSource, ScanSource, VerifyCandidate, Asked, RenewLease,
       CompleteScan, DropQuarantine, RetryScan, RejectScan, bucket
  <2> QED BY <2>1, <2>2, <2>3
<1> QED BY <1>2, <1>3, <1>4, <1>6, <1>7, <1>8

\* A scanner goes on with what it has claimed, or claims.
LEMMA Follows ==
  ASSUME IInv, [Next]_vars, NEW z \in Scanners, scanner'[z].pc # "idle"
  PROVE  \/ /\ scanner[z].pc # "idle"
            /\ scanner'[z].file = scanner[z].file /\ scanner'[z].source = scanner[z].source
         \/ \E f \in Files : ClaimUploading(z, f)
<1>1. CASE scanner' = scanner
  BY <1>1
<1>2. ASSUME NEW s \in Scanners, ScannerStep(s) \/ StopScanner(s) \/ BucketFails(s)
      PROVE  /\ scanner[z].pc # "idle"
             /\ scanner'[z].file = scanner[z].file /\ scanner'[z].source = scanner[z].source
  <2>1. scanner[s].pc # "idle"
    BY <1>2 DEF ScannerStep, StopScanner, BucketFails, ReadSource, ScanSource, VerifyCandidate,
       Asked, RenewLease, CopyToCandidate, CompleteScan, DropCandidate, DropQuarantine,
       DropOtherCandidates, RetryScan, RejectScan
  <2>2. PICK pc \in ScannerPcs : Goes(s, pc)
    BY <1>2 DEF ScannerPcs, ScannerStep, StopScanner, BucketFails, ReadSource, ScanSource,
       VerifyCandidate, Asked, RenewLease, CopyToCandidate, CompleteScan, DropCandidate,
       DropQuarantine, DropOtherCandidates, RetryScan, RejectScan
  <2> QED BY <2>1, <2>2, GoesFacts DEF IInv
<1>3. ASSUME NEW s \in Scanners, NEW f \in Files, ClaimUploading(s, f), s # z
      PROVE  scanner'[z] = scanner[z]
  BY <1>3 DEF ClaimUploading
<1>4. \/ scanner' = scanner
      \/ \E s \in Scanners : ScannerStep(s) \/ StopScanner(s) \/ BucketFails(s)
      \/ \E s \in Scanners, f \in Files : ClaimUploading(s, f)
  <2>1. CASE UNCHANGED vars
    BY <2>1 DEF vars
  <2>2. CASE Next
    BY <2>2 DEF Next, FileStep, RequestStep, RemoverStep, AttachStep, Stops, BeginUpload, PutObject,
       BeginConfirm, MarkUploadReady, BeginDelete, BeginPurge, ClaimCleanup, BeginAttach,
       ListUploaded, LeaseEnds, Age, LockUser, CheckQuota, InsertPending, SignUrl, MarkDeleted,
       RemoveQuarantine, RemoveCandidates, HardDelete, EraseOccupants, LinkFile, LookForObject,
       MarkMissing, EndRequest, StopRemover, AbortAttach
  <2> QED BY <2>1, <2>2
<1> QED BY <1>1, <1>2, <1>3, <1>4

\* A reconciliation that has missed an object is one that did before, or has just looked.
LEMMA Looks ==
  ASSUME IInv, [Next]_vars, NEW k \in Reconcilers, reconciler'[k].pc = "missing"
  PROVE  \/ reconciler'[k] = reconciler[k]
         \/ /\ UNCHANGED <<row, candidate>>
            /\ reconciler[k].pc = "listed" /\ reconciler'[k].file = reconciler[k].file
            /\ candidate[reconciler[k].file][reconciler[k].token] = None
<1>1. CASE reconciler' = reconciler
  BY <1>1
<1>2. ASSUME NEW j \in Reconcilers, j # k,
             (\E f \in Files : ListUploaded(j, f)) \/ LookForObject(j) \/ MarkMissing(j)
      PROVE  reconciler'[k] = reconciler[k]
  <2>1. PICK x : reconciler' = [reconciler EXCEPT ![j] = x]
    BY <1>2 DEF ListUploaded, LookForObject, MarkMissing
  <2> QED BY <1>2, <2>1 DEF IInv, TypeOK
<1>3. reconciler \in [Reconcilers -> ReconcilerType]
  BY DEF IInv, TypeOK
<1>4. CASE (\E f \in Files : ListUploaded(k, f)) \/ MarkMissing(k)
  BY <1>3, <1>4 DEF ListUploaded, MarkMissing, IdleReconciler
<1>5. CASE LookForObject(k)
  <2>1. reconciler' = [reconciler EXCEPT ![k].pc = "missing"]
        /\ candidate[reconciler[k].file][reconciler[k].token] = None
    BY <1>3, <1>5 DEF LookForObject, IdleReconciler
  <2>2. reconciler'[k].file = reconciler[k].file
    BY <1>3, <2>1 DEF ReconcilerType
  <2> QED BY <1>5, <2>1, <2>2 DEF LookForObject, bucket
<1>6. \/ reconciler' = reconciler
      \/ \E j \in Reconcilers : \/ \E f \in Files : ListUploaded(j, f)
                                \/ LookForObject(j) \/ MarkMissing(j)
  <2>1. CASE UNCHANGED vars
    BY <2>1 DEF vars
  <2>2. CASE Next /\ ~\E s \in Scanners : ScannerStep(s)
    BY <2>2 DEF Next, FileStep, RequestStep, RemoverStep, AttachStep, Stops, BeginUpload, PutObject,
       BeginConfirm, MarkUploadReady, ClaimUploading, BeginDelete, BeginPurge, ClaimCleanup,
       BeginAttach, LeaseEnds, Age, LockUser, CheckQuota, InsertPending, SignUrl, MarkDeleted,
       RemoveQuarantine, RemoveCandidates, HardDelete, EraseOccupants, LinkFile, EndRequest,
       StopScanner, BucketFails, StopRemover, AbortAttach
  <2>3. CASE \E s \in Scanners : ScannerStep(s)
    BY <2>3 DEF ScannerStep, ReadSource, ScanSource, VerifyCandidate, Asked, RenewLease,
       CopyToCandidate, CompleteScan, DropCandidate, DropQuarantine, DropOtherCandidates, RetryScan,
       RejectScan
  <2> QED BY <2>1, <2>2, <2>3
<1> QED BY <1>1, <1>2, <1>4, <1>5, <1>6

-----------------------------------------------------------------------------
(* What scanners and reconciliations know *)

\* A claim takes over what was confirmed, and no confirmation follows a claim.
LEMMA SourcedNext ==
  ASSUME IInv, Sourced, [Next]_vars
  PROVE  Sourced'
<1> SUFFICES ASSUME NEW z \in Scanners, NEW f \in Files,
                    scanner'[z].pc # "idle", scanner'[z].file = f
             PROVE  /\ row'[f].status # "pending"
                    /\ Exists(f)' => scanner'[z].source = row'[f].etag
  BY DEF Sourced
<1>1. CASE scanner[z].pc # "idle"
           /\ scanner'[z].file = scanner[z].file /\ scanner'[z].source = scanner[z].source
  <2>1. scanner[z].file = f /\ row[f].status # "absent"
    BY <1>1 DEF IInv, Claims
  <2>2. row[f].status # "pending" /\ (Exists(f) => scanner[z].source = row[f].etag)
    BY <1>1, <2>1 DEF Sourced
  <2>3. Moves(f)
    BY NextMoves
  <2>4. row'[f].status # "pending"
    BY <2>1, <2>2, <2>3 DEF Moves, Kept, Reserved, Confirmed, Turns, Completed, Failed, Deleted,
                            Purged, Struck
  <2>5. Exists(f)' => Exists(f) /\ row'[f].etag = row[f].etag
    BY <2>1, <2>2, <2>3 DEF Moves, Kept, Reserved, Confirmed, Turns, Completed, Failed, Deleted,
                            Purged, Struck, Live, Exists, Statuses
  <2> QED BY <1>1, <2>1, <2>2, <2>4, <2>5
<1>2. CASE \E g \in Files : ClaimUploading(z, g)
  <2>1. ClaimUploading(z, f)
    BY <1>2 DEF ClaimUploading, IInv, TypeOK
  <2> DEFINE t == row[f].attempts + 1
             v == ClaimedRow(row[f], t)
  <2>2. row' = [row EXCEPT ![f] = v] /\ row[f] \in RowType
    BY <2>1 DEF ClaimUploading, ClaimedRow, IInv, TypeOK
  <2>3. v.status = "scanning" /\ v.etag = row[f].etag
    BY <2>2, ViewUpdates
  <2> HIDE DEF v
  <2>4. row'[f] = v
    BY <2>2 DEF IInv, TypeOK
  <2>5. scanner'[z].source = row[f].etag
    BY <2>1 DEF ClaimUploading, IInv, TypeOK
  <2> QED BY <2>3, <2>4, <2>5
<1> QED BY <1>1, <1>2, Follows

\* An object that is missing stays so, as long as its file is uploaded.
LEMMA MissedNext ==
  ASSUME IInv, Missed, [Next]_vars
  PROVE  Missed'
<1> SUFFICES ASSUME NEW k \in Reconcilers, NEW f \in Files,
                    reconciler'[k].pc = "missing", reconciler'[k].file = f, Uploaded(f)'
             PROVE  candidate'[f][row'[f].active] = None
  BY DEF Missed
<1>1. reconciler[k].pc # "idle" /\ reconciler'[k].file = reconciler[k].file
  BY Looks
<1>2. f = reconciler[k].file
  BY <1>1
<1>3. Settled(f)
  BY <1>1, <1>2 DEF IInv, Reconciling, Looking
<1>4. Kept(f)
  <2>1. Moves(f)
    BY NextMoves
  <2> QED BY <1>3, <2>1 DEF Moves, Reserved, Confirmed, Turns, Completed, Failed, Deleted,
                            Purged, Struck, Uploaded, Live, Settled
<1>5. Uploaded(f) /\ row'[f].active = row[f].active
  BY <1>3, <1>4 DEF Kept, Uploaded, Live, Exists
<1>6. CASE reconciler'[k] = reconciler[k]
  <2>1. candidate[f][row[f].active] = None
    BY <1>2, <1>5, <1>6 DEF Missed
  <2> QED BY <1>1, <1>2, <1>5, <2>1, ObjectKept
<1>7. CASE /\ UNCHANGED <<row, candidate>>
           /\ candidate[reconciler[k].file][reconciler[k].token] = None
  <2>1. reconciler[k].token = row[f].active
    BY <1>1, <1>2, <1>5 DEF IInv, Reconciling, Looking, Uploaded, Live
  <2> QED BY <1>1, <1>2, <1>7, <2>1
<1> QED BY <1>6, <1>7, Looks

\* Every step keeps what scanners and reconciliations know.
LEMMA LifeNext ==
  ASSUME IInv, LifeInvariant, [Next]_vars
  PROVE  LifeInvariant'
<1>1. Forgotten'
  <2> SUFFICES ASSUME NEW f \in Files, row'[f].status = "gone"
               PROVE  row'[f].etag = None
    BY DEF Forgotten
  <2>1. Moves(f) /\ (row[f].status = "gone" => row[f].etag = None)
    BY NextMoves DEF LifeInvariant, Forgotten
  <2> QED BY <2>1 DEF Moves, Kept, Reserved, Confirmed, Turns, Completed, Failed, Deleted,
                      Purged, Struck
<1> QED BY <1>1, SourcedNext, MissedNext DEF LifeInvariant

-----------------------------------------------------------------------------
(* The refinement *)

\* A step as the user of a file sees it.
LEMMA View ==
  ASSUME NEW f \in Files, NEW s, NEW c, NEW o
  PROVE  Lifecycle!Stands(f, s, c, o)
           <=> Standing(f)' = s /\ row'[f].etag = c /\ Object(f)' = o
BY DEF Lifecycle!Stands

\* A step that its user does not see.
LEMMA SameView ==
  ASSUME NEW f \in Files
  PROVE  Lifecycle!Same(f)
           <=> Standing(f)' = Standing(f) /\ row'[f].etag = row[f].etag /\ Object(f)' = Object(f)
BY DEF Lifecycle!Same, Lifecycle!Stands

\* Where a file stands, by its row before and after a step.
LEMMA Stood ==
  ASSUME NEW f \in Files
  PROVE  /\ row[f].status = "absent" => Standing(f) = "none"
         /\ row[f].status = "gone" => Standing(f) = "gone"
         /\ Exists(f) /\ row[f].deleted => Standing(f) = "deleted"
         /\ Live(f) /\ row[f].status = "pending" => Standing(f) = "reserved"
         /\ Live(f) /\ row[f].status \in {"uploading", "scanning"} => Standing(f) = "accepted"
         /\ Uploaded(f) => Standing(f) = "served" /\ Object(f) = candidate[f][row[f].active]
         /\ Live(f) /\ row[f].status = "failed" => Standing(f) = "refused"
         /\ ~Uploaded(f) => Object(f) = None
BY DEF Standing, Object, Uploaded, Live, Exists, Statuses

\* The same after the step.
LEMMA Stands ==
  ASSUME NEW f \in Files
  PROVE  /\ row'[f].status = "gone" => Standing(f)' = "gone"
         /\ Exists(f)' /\ row'[f].deleted => Standing(f)' = "deleted"
         /\ Live(f)' /\ row'[f].status = "pending" => Standing(f)' = "reserved"
         /\ Live(f)' /\ row'[f].status \in {"uploading", "scanning"} => Standing(f)' = "accepted"
         /\ Uploaded(f)' => Standing(f)' = "served" /\ Object(f)' = candidate'[f][row'[f].active]
         /\ Live(f)' /\ row'[f].status = "failed" => Standing(f)' = "refused"
         /\ ~Uploaded(f)' => Object(f)' = None
BY DEF Standing, Object, Uploaded, Live, Exists, Statuses

\* A row that keeps its standing keeps its object, unless it is being replaced or purged.
LEMMA KeptLives ==
  ASSUME IInv, [Next]_vars, NEW f \in Files, Kept(f)
  PROVE  Lifecycle!Same(f) \/ Lifecycle!Lose(f)
<1>1. Standing(f)' = Standing(f)
  BY DEF Kept, Standing, Live, Exists
<1>2. Uploaded(f)' <=> Uploaded(f)
  BY DEF Kept, Uploaded, Live, Exists
<1>3. CASE ~Uploaded(f)
  BY <1>1, <1>2, <1>3, SameView, Stood, Stands DEF Kept
<1>4. CASE Uploaded(f)
  <2>1. Standing(f) = "served"
    BY <1>4, Stood
  <2>2. Object(f) = candidate[f][row[f].active] /\ Object(f)' = candidate'[f][row[f].active]
    BY <1>2, <1>4, Stood, Stands DEF Kept
  <2>3. CASE Object(f)' = Object(f)
    BY <1>1, <2>3, SameView DEF Kept
  <2>4. CASE Object(f)' = None /\ f \in Forsaken
    BY <1>1, <2>1, <2>4, View DEF Kept, Lifecycle!Lose
  <2> QED BY <1>4, <2>2, <2>3, <2>4, ObjectKept
<1> QED BY <1>3, <1>4

\* The completion of a scan serves what was confirmed, and found clean.
LEMMA CompletedLives ==
  ASSUME IInv, LifeInvariant, NEW f \in Files, Completed(f)
  PROVE  Lifecycle!Serve(f)
<1>1. PICK s \in Scanners : /\ scanner[s].pc = "complete" /\ Holds(s) /\ scanner[s].file = f
                            /\ row'[f].active = scanner[s].token /\ candidate' = candidate
  BY DEF Completed
<1>2. Turns(f, {"scanning"}, {"uploaded"})
  BY DEF Completed
<1>3. /\ scanner[s].source \in Clean
      /\ \/ candidate[f][scanner[s].token] = scanner[s].source
         \/ candidate[f][scanner[s].token] = None /\ f \in Forsaken
  BY <1>1 DEF IInv, Scans, Scanned, Forsaken
<1>4. scanner[s].source = row[f].etag
  BY <1>1, <1>2 DEF LifeInvariant, Sourced, Turns, Live
<1>5. Uploaded(f)'
  BY <1>2 DEF Turns, Uploaded, Live, Exists, Statuses
<1>6. /\ Standing(f)' = "served"
      /\ Object(f)' = row[f].etag \/ (Object(f)' = None /\ f \in Forsaken)
  BY <1>1, <1>3, <1>4, <1>5, Stands
<1>7. Standing(f) = "accepted" /\ row'[f].etag = row[f].etag
  BY <1>2, Stood DEF Turns
<1> QED BY <1>3, <1>4, <1>6, <1>7 DEF Lifecycle!Serve, Lifecycle!Stands

\* A file is failed after it was uploaded only without its object.
LEMMA FailedLives ==
  ASSUME LifeInvariant, NEW f \in Files, Failed(f)
  PROVE  Lifecycle!Same(f) \/ Lifecycle!Miss(f)
<1>1. Turns(f, {"uploaded", "failed"}, {"failed"})
  BY DEF Failed
<1>2. Standing(f)' = "refused" /\ Object(f)' = None /\ row'[f].etag = row[f].etag
  <2>1. Live(f)' /\ row'[f].status = "failed"
    BY <1>1 DEF Turns, Live, Exists, Statuses
  <2> QED BY <1>1, <2>1, Stands DEF Turns, Uploaded
<1>3. CASE row[f].status = "failed"
  <2>1. Standing(f) = "refused" /\ Object(f) = None
    BY <1>1, <1>3, Stood DEF Turns, Uploaded
  <2> QED BY <1>2, <2>1, SameView
<1>4. CASE row[f].status = "uploaded"
  <2>1. Uploaded(f)
    BY <1>1, <1>4 DEF Turns, Uploaded
  <2>2. candidate[f][row[f].active] = None
    BY <2>1 DEF Failed, LifeInvariant, Missed
  <2>3. Standing(f) = "served" /\ Object(f) = None
    BY <2>1, <2>2, Stood
  <2> QED BY <1>2, <2>3, View DEF Lifecycle!Miss
<1> QED BY <1>1, <1>3, <1>4 DEF Turns

\* A row that is marked deleted, or taken out of the table.
LEMMA DeletedLives ==
  ASSUME IInv, LifeInvariant, NEW f \in Files, Deleted(f) \/ Purged(f)
  PROVE  Lifecycle!Same(f) \/ Lifecycle!Delete(f) \/ Lifecycle!Purge(f)
<1>1. row[f].status \in Statuses \union {"absent", "gone"}
  BY FieldTypes DEF IInv, TypeOK
<1>2. row[f].status # "absent" /\ ~Uploaded(f)'
  BY DEF Deleted, Purged, Uploaded, Live, Exists, Statuses
<1>3. Object(f)' = None
  BY <1>2, Stands
<1>4. CASE row[f].status = "gone"
  <2>1. row'[f].status = "gone" /\ row'[f].etag = None /\ row[f].etag = None
    BY <1>4 DEF Deleted, Purged, LifeInvariant, Forgotten
  <2>2. Object(f) = None
    BY <1>4, Stood DEF Uploaded
  <2> QED BY <1>3, <1>4, <2>1, <2>2, SameView, Stood, Stands
<1>5. CASE Exists(f) /\ row[f].deleted
  <2>1. Standing(f) = "deleted" /\ Object(f) = None
    BY <1>5, Stood DEF Uploaded, Live
  <2>2. CASE Deleted(f)
    <3>1. Standing(f)' = "deleted"
      BY <1>5, <2>2, Stands DEF Deleted, Exists
    <3> QED BY <1>3, <2>1, <2>2, <3>1, SameView DEF Deleted
  <2>3. CASE Purged(f)
    BY <1>3, <2>1, <2>3, View, Stands DEF Purged, Lifecycle!Purge
  <2> QED BY <2>2, <2>3
<1>6. CASE Live(f)
  <2>1. Deleted(f)
    BY <1>6 DEF Purged
  <2>2. Standing(f)' = "deleted"
    BY <1>6, <2>1, Stands DEF Deleted, Live, Exists
  <2>3. Standing(f) \in {"reserved", "accepted", "served", "refused"}
    BY <1>6, Stood DEF Live, Exists, Statuses, Uploaded
  <2> QED BY <1>3, <2>1, <2>2, <2>3, View DEF Deleted, Lifecycle!Delete
<1> QED BY <1>1, <1>2, <1>4, <1>5, <1>6 DEF Live, Exists

\* A purge takes out a row that nothing has marked.
LEMMA StruckLives ==
  ASSUME NEW f \in Files, Struck(f)
  PROVE  Lifecycle!Erase(f)
<1>1. Standing(f) \in {"reserved", "accepted", "served", "refused"}
  BY Stood DEF Struck, Live, Exists, Statuses, Uploaded
<1>2. Standing(f)' = "gone" /\ Object(f)' = None /\ row'[f].etag = None
  BY Stands DEF Struck, Uploaded, Live, Exists, Statuses
<1> QED BY <1>1, <1>2, View DEF Struck, Lifecycle!Erase

\* Every step is, for each file, a step of its life or none.
LEMMA FileLives ==
  ASSUME IInv, LifeInvariant, [Next]_vars, NEW f \in Files
  PROVE  Lifecycle!Same(f) \/ Lifecycle!LifecycleStep(f)
<1>1. CASE Reserved(f)
  <2>1. Standing(f)' = "reserved" /\ Object(f)' = None
    BY <1>1, Stands DEF Reserved, Uploaded, Live, Exists, Statuses
  <2> QED BY <1>1, <2>1, View, Stood DEF Reserved, Lifecycle!Reserve, Lifecycle!LifecycleStep
<1>2. CASE Confirmed(f)
  <2>1. Standing(f)' = "accepted" /\ Object(f)' = None
    BY <1>2, Stands DEF Confirmed, Uploaded, Live, Exists, Statuses
  <2> QED BY <1>2, <2>1, View, Stood DEF Confirmed, Lifecycle!Confirm, Lifecycle!LifecycleStep
<1>3. CASE Turns(f, {"uploading", "scanning"}, {"uploading", "scanning"})
  <2>1. Standing(f)' = "accepted" /\ Object(f)' = None
    BY <1>3, Stands DEF Turns, Uploaded, Live, Exists, Statuses
  <2>2. Standing(f) = "accepted" /\ Object(f) = None
    BY <1>3, Stood DEF Turns, Uploaded
  <2> QED BY <1>3, <2>1, <2>2, SameView DEF Turns
<1>4. CASE Turns(f, {"pending", "uploading", "scanning"}, {"failed"})
  <2>1. Standing(f)' = "refused" /\ Object(f)' = None
    BY <1>4, Stands DEF Turns, Uploaded, Live, Exists, Statuses
  <2>2. Standing(f) \in {"reserved", "accepted"}
    BY <1>4, Stood DEF Turns
  <2> QED BY <1>4, <2>1, <2>2, View DEF Turns, Lifecycle!Refuse, Lifecycle!LifecycleStep
<1>5. CASE Kept(f)
  BY <1>5, KeptLives DEF Lifecycle!LifecycleStep
<1>6. CASE Completed(f)
  BY <1>6, CompletedLives DEF Lifecycle!LifecycleStep
<1>7. CASE Failed(f)
  BY <1>7, FailedLives DEF Lifecycle!LifecycleStep
<1>8. CASE Deleted(f) \/ Purged(f)
  BY <1>8, DeletedLives DEF Lifecycle!LifecycleStep
<1>9. CASE Struck(f)
  BY <1>9, StruckLives DEF Lifecycle!LifecycleStep
<1>10. Moves(f)
  BY NextMoves
<1> QED BY <1>1, <1>2, <1>3, <1>4, <1>5, <1>6, <1>7, <1>8, <1>9, <1>10 DEF Moves

\* Scans, leases, workers and crashes together implement the life of a file: what is served
\* is what was confirmed and found clean, and only a deletion or an erasure, or the loss of the
\* object to a replacement or a purge, takes it out of service - for any number of files,
\* scanners and faults.
THEOREM ImplementsLifecycle == Spec => KeepsLifecycle
<1>1. Init => Lifecycle!LifecycleInit /\ LifeInvariant
  <2> SUFFICES ASSUME Init
               PROVE  Lifecycle!LifecycleInit /\ LifeInvariant
    OBVIOUS
  <2>1. /\ \A s \in Scanners : scanner[s].pc = "idle"
        /\ \A k \in Reconcilers : reconciler[k].pc = "idle"
        /\ \A f \in Files : row[f].status = "absent" /\ row[f].etag = None
    BY DEF Init, IdleScanner, IdleReconciler, NoRow
  <2>2. LifeInvariant
    BY <2>1 DEF LifeInvariant, Sourced, Missed, Forgotten
  <2>3. \A f \in Files : Standing(f) = "none" /\ Object(f) = None
    BY <2>1, Stood DEF Uploaded
  <2> QED BY <2>1, <2>2, <2>3 DEF Lifecycle!LifecycleInit
<1>2. IInv /\ LifeInvariant /\ [Next]_vars => LifeInvariant'
  BY LifeNext
<1>3. IInv /\ LifeInvariant /\ [Next]_vars
        => [Lifecycle!LifecycleNext]_(Lifecycle!lifecycleVars)
  BY FileLives DEF Lifecycle!LifecycleNext
<1> QED
  BY <1>1, <1>2, <1>3, Invariant, PTL DEF Spec, KeepsLifecycle, Lifecycle!LifecycleSpec
=============================================================================
