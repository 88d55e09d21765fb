----------------------------- MODULE FilesProofs -----------------------------
(***************************************************************************)
(* Files, proved for any number of files, requests, scanners, removers,    *)
(* attachers and reconciliations.                                          *)
(*                                                                         *)
(* The invariant IInv says: Rows and Reserving, that a file whose URL has  *)
(* not been signed has no bytes; Claims, that tokens are handed out once;  *)
(* Scans, what a scanner knows of its contents, of its candidate and of    *)
(* the row it has completed; Removals, that a deletion has marked its row  *)
(* before it touches an object, unless it is a purge, and that a clean-up  *)
(* knows all candidates, a purge all but that of a scan it has not seen;   *)
(* Replaced and Reconciling, that attachments and reconciliations deal     *)
(* with settled files; and Accounted, NoOrphanedCandidate by processes     *)
(* that still hold a candidate.  QuotaInvariant, inductive relative to it, *)
(* adds the locks of a reservation and what is checked under them.         *)
(***************************************************************************)
EXTENDS Files, FiniteSetTheorems, TLAPS

Settled(f) == row[f].status \in {"uploaded", "failed", "gone"}
At(s, f, t) == scanner[s].pc # "idle" /\ scanner[s].file = f /\ scanner[s].token = t

\* What a row, and a request, can be.
Rows ==
  \A f \in Files :
    /\ row[f].link # "none" => Settled(f)
    /\ row[f].status = "uploaded" => row[f].active \in 1..row[f].attempts
    /\ Exists(f) => row[f].active <= row[f].attempts /\ (row[f].active # 0 => Settled(f))
    /\ row[f].status = "absent" => f \notin urls /\ quarantine[f] = None /\ confirming[f] = None

Reserving ==
  /\ \A r \in Requests : request[r].pc # "idle" =>
       LET f == request[r].file IN
       /\ f \in Files
       /\ request[r].pc # "sign" => row[f].status = "absent"
       /\ request[r].pc = "sign" =>
            /\ row[f].status \in {"pending", "gone"}
            /\ f \notin urls /\ quarantine[f] = None /\ confirming[f] = None
  /\ \A q, r \in Requests : request[q].pc # "idle" /\ request[r].pc # "idle"
                            /\ request[q].file = request[r].file => q = r

\* Tokens are handed out once, and name an attempt that the row has counted.
Claims ==
  /\ \A s \in Scanners : scanner[s].pc # "idle" =>
       LET f == scanner[s].file IN
       /\ f \in Files /\ scanner[s].token \in Tokens
       /\ row[f].status # "absent"
       /\ Exists(f) => scanner[s].token <= row[f].attempts
  /\ \A s, z \in Scanners : scanner[s].pc # "idle" /\ scanner[z].pc # "idle"
       /\ scanner[s].file = scanner[z].file /\ scanner[s].token = scanner[z].token => s = z

\* What a scanner knows of its contents, of its candidate and of the row it has completed.
Scanned(s) ==
  LET f == scanner[s].file
      t == scanner[s].token IN
  /\ scanner[s].pc \in {"extend", "copy", "verify", "complete"} => scanner[s].source \in Clean
  /\ scanner[s].pc = "complete" /\ Holds(s) =>
       candidate[f][t] = scanner[s].source \/ (f \in undone /\ candidate[f][t] = None)
  /\ scanner[s].pc \in {"sweep", "tidy"} => Settled(f) /\ (Exists(f) => row[f].active = t)
  /\ scanner[s].pc \notin {"idle", "sweep", "tidy"} /\ Exists(f) => t # row[f].active
Scans == \A s \in Scanners : Scanned(s)

\* A deletion, unless it is a purge, has marked its row before it touches an object.  A clean-up
\* knows every candidate of the row; a purge all but that of a scan completed behind its back.
Owned(f, t) ==
  \/ \E s \in Scanners : At(s, f, t) /\ scanner[s].pc \in {"verify", "complete", "drop", "refuse"}
  \/ <<f, t>> \in abandoned
Removing(m) ==
  LET f == remover[m].file
      Overtook(t) == /\ remover[m].purge /\ Exists(f)
                     /\ t = row[f].active /\ t # remover[m].active IN
  /\ remover[m].pc # "idle" => f \in Files /\ row[f].status # "absent"
  /\ remover[m].pc = "mark" => ~remover[m].last /\ ~remover[m].purge
  /\ remover[m].pc # "idle" /\ remover[m].purge =>
       /\ f \in undone /\ remover[m].active <= remover[m].upto
       /\ remover[m].active # 0 /\ Exists(f) => row[f].active = remover[m].active
  /\ remover[m].pc \in {"quarantine", "candidates", "row"} /\ ~remover[m].purge =>
       /\ ~Live(f)
       /\ remover[m].last /\ Exists(f) => remover[m].upto = row[f].attempts
  /\ remover[m].pc = "row" =>
       /\ remover[m].last
       /\ \A t \in Tokens : candidate[f][t] # None => Owned(f, t) \/ Overtook(t)
Removals == \A m \in Removers : Removing(m)

Replaced ==
  \A a \in Attachers :
    /\ IF attach[a].pc = "idle" THEN attach[a].old = {} ELSE attach[a].file \in Files
    /\ \A g \in attach[a].old : Settled(g)

Looking(k) ==
  LET f == reconciler[k].file IN
  /\ reconciler[k].pc # "idle" =>
       /\ f \in Files /\ Settled(f)
       /\ reconciler[k].token \in Tokens
       /\ Exists(f) => row[f].active = reconciler[k].token
  /\ reconciler[k].pc = "missing" => f \in Forsaken \/ ~Uploaded(f)
Reconciling == \A k \in Reconcilers : Looking(k)

Accounted ==
  \A f \in Files, t \in Tokens :
    candidate[f][t] # None => (Exists(f) /\ t = row[f].active) \/ Owned(f, t)

IInv == TypeOK /\ Rows /\ Reserving /\ Claims /\ Scans /\ Removals /\ Replaced /\ Reconciling
        /\ Accounted /\ ServedIsClean

-----------------------------------------------------------------------------
(* How rows evolve *)

\* What no step but the completion of a scan undoes in a row.
Grows(f) ==
  /\ row'[f].status = "absent" => row[f].status = "absent"
  /\ Settled(f) => Settled(f)' /\ (Exists(f)' => row'[f].active = row[f].active)
  /\ row[f].status # "absent" /\ Exists(f)' =>
       Exists(f) /\ row[f].attempts <= row'[f].attempts
  /\ row[f].status # "absent" /\ ~Live(f) =>
       ~Live(f)' /\ (Exists(f)' => row'[f].attempts = row[f].attempts)
  /\ row'[f].link # "none" => row[f].link # "none" \/ row'[f].status = "uploaded"
  /\ Exists(f)' /\ row'[f].active # 0 =>
       (Exists(f) /\ row'[f].active = row[f].active) \/ row'[f].status = "uploaded"
  /\ \A t \in 0..row[f].attempts :
       Live(f)' /\ row'[f].status = "scanning" /\ row'[f].claim = t =>
         Live(f) /\ row[f].status = "scanning" /\ row[f].claim = t
NotCompleted(f) == row'[f].status = "uploaded" => row[f].status = "uploaded"

\* The end of a row: what a scan has put under it behind the back of a purge is left behind.
Ends(m, f) ==
  /\ remover[m].pc = "row" /\ remover[m].file = f
  /\ remover[m].purge /\ row[f].active # remover[m].active => <<f, row[f].active>> \in abandoned'

\* Who starts a row, ends it, or takes its bytes to be lost.
Explained(f) ==
  /\ row[f].status = "absent" /\ row'[f].status # "absent" =>
       \E r \in Requests : Asks(r, {"insert"}, f) /\ Asks(r, {"sign"}, f)'
  /\ row[f].status = "pending" /\ row'[f].status \notin {"pending", "gone"} =>
       confirming[f] # None \/ \E r \in Requests : Asks(r, {"sign"}, f) /\ ~Asks(r, {"sign"}, f)'
  /\ Exists(f) /\ ~Exists(f)' => \E m \in Removers : Ends(m, f)
  /\ Uploaded(f) /\ row'[f].status # "uploaded" =>
       \/ \E k \in Reconcilers : reconciler[k].pc = "missing" /\ reconciler[k].file = f
       \/ \E m \in Removers : Ends(m, f)
Evolves == \A f \in Files : Grows(f) /\ NotCompleted(f) /\ Explained(f)

\* A row that is written with another row.
LEMMA Written ==
  ASSUME TypeOK, NEW f \in Files, NEW v \in RowType, row' = [row EXCEPT ![f] = v]
  PROVE  row' \in [Files -> RowType] /\ row'[f] = v /\ \A g \in Files \ {f} : row'[g] = row[g]
BY DEF TypeOK

\* The types of a row's fields.
LEMMA FieldTypes ==
  ASSUME NEW v \in RowType
  PROVE  /\ v.status \in Statuses \union {"absent", "gone"} /\ v.deleted \in BOOLEAN
         /\ v.link \in {"none", "loose", "slot"} /\ v.etag \in Contents \union {None}
         /\ v.claim \in 0..MaxAttempts /\ v.lease \in {"none", "held"} /\ v.attempts \in 0..MaxAttempts
         /\ v.active \in 0..MaxAttempts /\ v.age \in {"new", "stale", "old"}
BY DEF RowType

\* The row of a file with one of its updates.
LEMMA StatusUpdate ==
  ASSUME NEW v \in RowType, NEW x \in Statuses
  PROVE  LET w == [v EXCEPT !.status = x] IN
         /\ w \in RowType /\ w.status = x /\ w.deleted = v.deleted /\ w.link = v.link
         /\ w.claim = v.claim /\ w.attempts = v.attempts /\ w.active = v.active
BY DEF RowType

\* The row that a confirmation writes (markUploadReady).
LEMMA ReadyUpdate ==
  ASSUME NEW v \in RowType, NEW c \in Contents \union {None}
  PROVE  LET w == [v EXCEPT !.status = "uploading", !.etag = c] IN
         /\ w \in RowType /\ w.status = "uploading" /\ w.deleted = v.deleted /\ w.link = v.link
         /\ w.claim = v.claim /\ w.attempts = v.attempts /\ w.active = v.active
BY DEF RowType, Statuses

ClaimedRow(v, t) ==
  [v EXCEPT !.status = "scanning", !.claim = t, !.lease = "held", !.attempts = t]

\* The row that a scan's claim writes (claimUploadingFiles).
LEMMA ClaimUpdate ==
  ASSUME NEW v \in RowType, NEW t \in 0..MaxAttempts
  PROVE  LET w == ClaimedRow(v, t) IN
         /\ w \in RowType /\ w.status = "scanning" /\ w.deleted = v.deleted /\ w.link = v.link
         /\ w.claim = t /\ w.attempts = t /\ w.active = v.active
BY DEF RowType, Statuses, ClaimedRow

\* A row whose lease is renewed or ends.
LEMMA LeaseUpdate ==
  ASSUME NEW v \in RowType, NEW b \in {"none", "held"}
  PROVE  LET w == [v EXCEPT !.lease = b] IN
         /\ w \in RowType /\ w.status = v.status /\ w.deleted = v.deleted /\ w.link = v.link
         /\ w.claim = v.claim /\ w.attempts = v.attempts /\ w.active = v.active
BY DEF RowType

\* The row that the winner of a scan writes (completeScan).
LEMMA CompleteUpdate ==
  ASSUME NEW v \in RowType, NEW t \in 0..MaxAttempts
  PROVE  LET w == [v EXCEPT !.status = "uploaded", !.active = t, !.claim = 0, !.lease = "none"] IN
         /\ w \in RowType /\ w.status = "uploaded" /\ w.deleted = v.deleted /\ w.link = v.link
         /\ w.attempts = v.attempts /\ w.active = t
<1>1. 0 \in 0..MaxAttempts
  BY ConstantsAssumption DEF ConstantsAssumption
<1> QED BY <1>1 DEF RowType, Statuses

\* The row that a scan gives back for a retry or rejects (retryScan, rejectScan).
LEMMA UnclaimUpdate ==
  ASSUME NEW v \in RowType, NEW x \in Statuses
  PROVE  LET w == [v EXCEPT !.status = x, !.claim = 0, !.lease = "none"] IN
         /\ w \in RowType /\ w.status = x /\ w.deleted = v.deleted /\ w.link = v.link
         /\ w.attempts = v.attempts /\ w.active = v.active
<1>1. 0 \in 0..MaxAttempts
  BY ConstantsAssumption DEF ConstantsAssumption
<1> QED BY <1>1 DEF RowType

\* A row that is marked deleted (softDeleteById).
LEMMA DeleteUpdate ==
  ASSUME NEW v \in RowType
  PROVE  LET w == [v EXCEPT !.deleted = TRUE] IN
         /\ w \in RowType /\ w.status = v.status /\ w.deleted = TRUE /\ w.link = v.link
         /\ w.claim = v.claim /\ w.attempts = v.attempts /\ w.active = v.active
BY DEF RowType

\* A row that is attached (LinkFileCommand).
LEMMA LinkUpdate ==
  ASSUME NEW v \in RowType, NEW x \in {"loose", "slot"}
  PROVE  LET w == [v EXCEPT !.link = x] IN
         /\ w \in RowType /\ w.status = v.status /\ w.deleted = v.deleted /\ w.link = x
         /\ w.claim = v.claim /\ w.attempts = v.attempts /\ w.active = v.active
BY DEF RowType

\* A row that grows old.
LEMMA AgeUpdate ==
  ASSUME NEW v \in RowType, NEW x \in {"stale", "old"}
  PROVE  LET w == [v EXCEPT !.age = x] IN
         /\ w \in RowType /\ w.status = v.status /\ w.deleted = v.deleted /\ w.link = v.link
         /\ w.claim = v.claim /\ w.attempts = v.attempts /\ w.active = v.active
BY DEF RowType

\* A row before its file is reserved, when it is reserved, and after it is purged.
LEMMA NewRow ==
  ASSUME NEW x \in {"absent", "gone", "pending"}
  PROVE  /\ NoRow(x) \in RowType /\ NoRow(x).status = x /\ ~NoRow(x).deleted
         /\ NoRow(x).link = "none" /\ NoRow(x).attempts = 0 /\ NoRow(x).active = 0
BY ConstantsAssumption DEF ConstantsAssumption, RowType, NoRow, Statuses

\* A row that keeps its status needs no explanation, nor does a scan.
LEMMA SameExplained ==
  ASSUME NEW f \in Files,
         \/ row'[f].status = row[f].status
         \/ row[f].status \in {"uploading", "scanning"} /\ row'[f].status \in Statuses
  PROVE  Explained(f)
BY DEF Explained, Exists, Uploaded

\* A row that keeps its status, its attempts and its deletion.
LEMMA SameStatus ==
  ASSUME TypeOK, NEW f \in Files, row'[f].status = row[f].status,
         row'[f].claim = row[f].claim, row'[f].attempts = row[f].attempts,
         row'[f].active = row[f].active, row[f].deleted => row'[f].deleted,
         row'[f].link # "none" => row[f].link # "none" \/ row[f].status = "uploaded"
  PROVE  Grows(f) /\ NotCompleted(f) /\ Explained(f)
<1>1. row[f].attempts \in Nat
  BY FieldTypes, ConstantsAssumption DEF TypeOK, ConstantsAssumption
<1>3. Explained(f)
  BY SameExplained
<1>2. (Live(f)' => Live(f)) /\ (Exists(f)' <=> Exists(f)) /\ (Settled(f)' <=> Settled(f))
  BY DEF Live, Exists, Settled
<1> QED BY <1>1, <1>2, <1>3 DEF Grows, NotCompleted

\* A live row, not settled, that is written on the way to its end.
LEMMA LiveRewritten ==
  ASSUME TypeOK, NEW f \in Files, row'[f].status \in Statuses \ {"scanning"}, Live(f), ~Settled(f),
         row'[f].link = row[f].link, row'[f].attempts = row[f].attempts,
         row'[f].active = row[f].active \/ row'[f].status = "uploaded"
  PROVE  Grows(f)
<1>1. row[f].attempts \in Nat
  BY FieldTypes, ConstantsAssumption DEF TypeOK, ConstantsAssumption
<1>2. Exists(f) /\ row'[f].status \notin {"absent", "scanning"}
  BY DEF Live, Statuses
<1> QED BY <1>1, <1>2 DEF Grows

\* A row that ends.
LEMMA NotLiveAnyMore ==
  ASSUME TypeOK, NEW f \in Files, row'[f].status \in {"failed", "gone"},
         row'[f].status = "failed" => Live(f) /\ Settled(f), row'[f].link = "none" \/ row'[f].link = row[f].link,
         row'[f].attempts = row[f].attempts \/ row'[f].status = "gone",
         row'[f].active = row[f].active \/ row'[f].status = "gone"
  PROVE  Grows(f) /\ NotCompleted(f)
<1>1. row[f].attempts \in Nat
  BY FieldTypes, ConstantsAssumption DEF TypeOK, ConstantsAssumption
<1>2. Settled(f)' /\ row'[f].status \notin {"absent", "scanning", "uploaded"}
  BY DEF Settled
<1>3. Exists(f)' => Live(f) /\ Exists(f) /\ row'[f].attempts = row[f].attempts /\ row'[f].active = row[f].active
  BY DEF Exists, Statuses, Live
<1>4. Live(f)' => Exists(f)'
  BY DEF Live
<1> QED BY <1>1, <1>2, <1>3, <1>4 DEF Grows, NotCompleted

\* A step that writes no row.
LEMMA SameRows ==
  ASSUME TypeOK, row' = row
  PROVE  Evolves
<1>1. \A f \in Files : row[f].attempts \in 0..MaxAttempts
  BY FieldTypes DEF TypeOK
<1>2. \A f \in Files : Explained(f)
  BY SameExplained
<1> QED BY <1>1, <1>2, ConstantsAssumption DEF ConstantsAssumption, Evolves, Grows, NotCompleted, Settled, Exists, Live

\* A step that writes one row.
LEMMA Rewritten ==
  ASSUME TypeOK, NEW f \in Files, NEW v \in RowType, row' = [row EXCEPT ![f] = v], Grows(f)
  PROVE  /\ row' \in [Files -> RowType]
         /\ Explained(f) => \A g \in Files : Grows(g) /\ Explained(g)
         /\ NotCompleted(f) /\ Explained(f) => Evolves
<1>1. row' \in [Files -> RowType] /\ \A g \in Files \ {f} : row'[g] = row[g]
  BY Written
<1>3. \A g \in Files \ {f} : Explained(g)
  BY <1>1, SameExplained
<1>2. \A g \in Files \ {f} : Grows(g) /\ NotCompleted(g)
  <2>1. \A g \in Files : row[g].attempts \in 0..MaxAttempts
    BY FieldTypes DEF TypeOK
  <2> QED BY <1>1, <2>1, ConstantsAssumption
       DEF ConstantsAssumption, Grows, NotCompleted, Settled, Exists, Live
<1> QED BY <1>1, <1>2, <1>3 DEF Evolves

-----------------------------------------------------------------------------
(* Types *)

\* Processes at rest.
LEMMA IdleTypes ==
  /\ IdleRequest \in RequestType /\ IdleRequest.pc = "idle"
  /\ IdleScanner \in ScannerType /\ IdleScanner.pc = "idle"
  /\ IdleRemover \in RemoverType /\ IdleRemover.pc = "idle"
  /\ IdleAttach \in AttachType /\ IdleAttach.pc = "idle" /\ IdleAttach.old = {}
  /\ IdleReconciler \in ReconcilerType /\ IdleReconciler.pc = "idle"
BY ConstantsAssumption DEF ConstantsAssumption, IdleRequest, RequestType, IdleScanner, ScannerType,
   IdleRemover, RemoverType, IdleAttach, AttachType, IdleReconciler, ReconcilerType

\* A reservation keeps the types, and what it does to rows is explained.
LEMMA RequestTyped ==
  ASSUME TypeOK, NEW r \in Requests, Reserving,
         (\E f \in Files : BeginUpload(r, f)) \/ RequestStep(r) \/ EndRequest(r)
  PROVE  TypeOK' /\ Evolves
<1>1. request[r] \in RequestType
  BY DEF TypeOK
<1>2. CASE \E g \in Files : BeginUpload(r, g)
  BY <1>2, SameRows DEF TypeOK, BeginUpload, bucket, history, RequestType
<1>3. CASE LockUser(r)
  BY <1>1, <1>3, SameRows DEF TypeOK, LockUser, bucket, history, RequestType
<1>4. CASE CheckQuota(r)
  <2>1. [request[r] EXCEPT !.pc = "insert"] \in RequestType
    BY <1>1 DEF RequestType
  <2>2. request' \in [Requests -> RequestType]
    BY <1>4, <2>1, IdleTypes DEF TypeOK, CheckQuota
  <2> QED BY <1>4, <2>2, SameRows DEF TypeOK, CheckQuota, bucket, history
<1>5. CASE InsertPending(r)
  <2>0. request[r].file \in Files /\ row[request[r].file].status = "absent"
    BY <1>5 DEF InsertPending, Reserving
  <2>1. PICK f \in Files : f = request[r].file /\ row[f].status = "absent"
    BY <2>0
  <2> DEFINE v == NoRow("pending")
  <2>2. v \in RowType /\ v.status = "pending" /\ ~v.deleted /\ v.link = "none" /\ v.active = 0
    BY NewRow
  <2> HIDE DEF v
  <2>3. row' = [row EXCEPT ![f] = v] /\ row'[f] = v
    BY <1>5, <2>1 DEF InsertPending, TypeOK, v
  <2>4. Grows(f) /\ NotCompleted(f)
    BY <2>1, <2>2, <2>3 DEF Grows, NotCompleted, Settled
  <2>7. Asks(r, {"insert"}, f) /\ Asks(r, {"sign"}, f)'
    BY <1>1, <1>5, <2>1 DEF InsertPending, Asks, TypeOK, RequestType
  <2>8. Explained(f)
    BY <2>1, <2>7 DEF Explained, Exists, Statuses, Uploaded, Live
  <2>5. row' \in [Files -> RowType] /\ Evolves
    BY <2>1, <2>2, <2>3, <2>4, <2>8, Rewritten
  <2>6. request' \in [Requests -> RequestType]
    BY <1>1, <1>5 DEF TypeOK, InsertPending, RequestType
  <2> QED BY <1>5, <2>5, <2>6 DEF TypeOK, InsertPending, bucket, history
<1>6. CASE SignUrl(r)
  <2>1. request[r].file \in Files
    BY <1>6 DEF SignUrl, Reserving
  <2> QED BY <1>6, <2>1, IdleTypes, SameRows DEF TypeOK, SignUrl, bucket, history
<1>7. CASE EndRequest(r)
  <2>1. faults' \in 0..MaxFaults
    BY <1>7, ConstantsAssumption DEF EndRequest, Fault, TypeOK, ConstantsAssumption
  <2>2. CASE UNCHANGED row
    BY <1>7, <2>1, <2>2, IdleTypes, SameRows DEF TypeOK, EndRequest, bucket
  <2>3. CASE /\ request[r].pc = "sign" /\ Live(request[r].file)
             /\ row' = [row EXCEPT ![request[r].file].status = "failed"]
    <3>0. request[r].file \in Files /\ row[request[r].file].status \in {"pending", "gone"}
      BY <2>3 DEF Reserving
    <3>1. PICK f \in Files : f = request[r].file /\ row[f].status \in {"pending", "gone"}
      BY <3>0
    <3> DEFINE v == [row[f] EXCEPT !.status = "failed"]
    <3>2. row[f] \in RowType
      BY <3>1 DEF TypeOK
    <3>3. v \in RowType /\ v.status = "failed" /\ v.link = row[f].link /\ v.deleted = row[f].deleted
          /\ v.attempts = row[f].attempts /\ v.active = row[f].active
      BY <3>2, StatusUpdate DEF Statuses
    <3> HIDE DEF v
    <3>4. row' = [row EXCEPT ![f] = v] /\ row'[f] = v
      BY <2>3, <3>1 DEF TypeOK, v
    <3>5. Live(f)
      BY <2>3, <3>1
    <3>10. ~Settled(f)
      BY <3>1, <3>5 DEF Settled, Live, Exists, Statuses
    <3>11. row'[f].status = "failed" /\ row'[f].link = row[f].link /\ row'[f].attempts = row[f].attempts
           /\ row'[f].active = row[f].active
      BY <3>3, <3>4
    <3>6. Grows(f) /\ NotCompleted(f)
      BY <3>5, <3>10, <3>11, LiveRewritten DEF NotCompleted, Statuses
    <3>8. Asks(r, {"sign"}, f) /\ ~Asks(r, {"sign"}, f)'
      BY <1>7, <2>3, <3>1, IdleTypes, ConstantsAssumption
      DEF ConstantsAssumption, EndRequest, Asks, TypeOK
    <3>9. Explained(f)
      <4>1. row[f].status \notin {"absent", "uploaded"} /\ Exists(f)'
        <5>1. row'[f].status = "failed"
          BY <3>3, <3>4
        <5> QED BY <3>1, <5>1 DEF Exists, Statuses
      <4>2. \E q \in Requests : Asks(q, {"sign"}, f) /\ ~Asks(q, {"sign"}, f)'
        BY <3>8
      <4> QED BY <4>1, <4>2 DEF Explained, Uploaded
    <3>7. row' \in [Files -> RowType] /\ Evolves
      BY <3>1, <3>3, <3>4, <3>6, <3>9, Rewritten
    <3> QED BY <1>7, <2>1, <3>7, IdleTypes DEF TypeOK, EndRequest, bucket
  <2> QED BY <1>7, <2>2, <2>3 DEF EndRequest
<1> QED BY <1>2, <1>3, <1>4, <1>5, <1>6, <1>7 DEF RequestStep

\* So does an upload and its confirmation.
LEMMA UploadTyped ==
  ASSUME TypeOK, NEW f \in Files, Rows, Reserving,
         (\E c \in Contents : PutObject(f, c)) \/ BeginConfirm(f) \/ MarkUploadReady(f)
  PROVE  TypeOK' /\ Evolves
<1>1. CASE \E c \in Contents : PutObject(f, c)
  BY <1>1, SameRows DEF TypeOK, PutObject, history
<1>2. CASE BeginConfirm(f)
  BY <1>2, SameRows DEF TypeOK, BeginConfirm, bucket, history
<1>3. CASE MarkUploadReady(f)
  <2> DEFINE v == [row[f] EXCEPT !.status = "uploading", !.etag = confirming[f]]
  <2>1. row[f] \in RowType /\ confirming[f] \in Contents \union {None}
    BY DEF TypeOK
  <2>2. v \in RowType /\ v.status = "uploading" /\ v.link = row[f].link /\ v.deleted = row[f].deleted
        /\ v.attempts = row[f].attempts /\ v.active = row[f].active
    BY <2>1, ReadyUpdate
  <2> HIDE DEF v
  <2>3. CASE Live(f) /\ row[f].status = "pending"
    <3>1. row' = [row EXCEPT ![f] = v] /\ row'[f] = v
      BY <1>3, <2>3 DEF TypeOK, MarkUploadReady, v
    <3>2. Grows(f) /\ NotCompleted(f)
      <4>1. ~Settled(f) /\ row'[f].status = "uploading" /\ row'[f].link = row[f].link
            /\ row'[f].attempts = row[f].attempts /\ row'[f].active = row[f].active
        BY <2>2, <2>3, <3>1 DEF Settled
      <4> QED BY <2>3, <4>1, LiveRewritten DEF NotCompleted, Statuses
    <3>4. Explained(f)
      BY <1>3, <2>2, <2>3, <3>1 DEF MarkUploadReady, Explained, Exists, Statuses, Uploaded, Live
    <3>3. row' \in [Files -> RowType] /\ Evolves
      BY <2>2, <3>1, <3>2, <3>4, Rewritten
    <3> QED BY <1>3, <3>3 DEF TypeOK, MarkUploadReady, bucket, history
  <2>4. CASE ~(Live(f) /\ row[f].status = "pending")
    BY <1>3, <2>4, SameRows DEF TypeOK, MarkUploadReady, bucket, history
  <2> QED BY <2>3, <2>4
<1> QED BY <1>1, <1>2, <1>3

ScannerPcs == {"idle", "read", "renew", "scan", "extend", "copy", "verify", "complete", "drop",
               "sweep", "tidy", "retry", "reject", "purge", "refuse", "deny"}

\* Where a scanner is when it goes to its next step.
LEMMA GoesFacts ==
  ASSUME TypeOK, NEW s \in Scanners, NEW pc \in ScannerPcs, Goes(s, pc)
  PROVE  /\ scanner' \in [Scanners -> ScannerType]
         /\ \A z \in Scanners \ {s} : scanner'[z] = scanner[z]
         /\ scanner'[s].pc = pc
         /\ pc # "idle" => /\ scanner'[s].file = scanner[s].file
                           /\ scanner'[s].token = scanner[s].token
                           /\ scanner'[s].source = scanner[s].source
<1>1. scanner[s] \in ScannerType
  BY DEF TypeOK
<1>2. [scanner[s] EXCEPT !.pc = pc] \in ScannerType
  BY <1>1 DEF ScannerType, ScannerPcs
<1>3. scanner' = [scanner EXCEPT ![s] =
                    IF pc = "idle" THEN IdleScanner ELSE [scanner[s] EXCEPT !.pc = pc]]
  BY DEF Goes
<1>4. scanner'[s] = IF pc = "idle" THEN IdleScanner ELSE [scanner[s] EXCEPT !.pc = pc]
  BY <1>3 DEF TypeOK
<1>5. scanner' \in [Scanners -> ScannerType] /\ \A z \in Scanners \ {s} : scanner'[z] = scanner[z]
  BY <1>2, <1>3, IdleTypes DEF TypeOK
<1>6. CASE pc = "idle"
  BY <1>4, <1>5, <1>6, IdleTypes
<1>7. CASE pc # "idle"
  BY <1>1, <1>4, <1>5, <1>7 DEF ScannerType
<1> QED BY <1>6, <1>7

\* What the answer to a call, or the outcome of a fenced write, makes a scanner do next.
LEMMA AskedTyped ==
  ASSUME TypeOK, NEW s \in Scanners, ReadSource(s) \/ ScanSource(s) \/ VerifyCandidate(s)
  PROVE  TypeOK' /\ Evolves
<1>1. PICK pc \in ScannerPcs : Goes(s, pc) /\ UNCHANGED <<row, bucket, urls, confirming, request,
                                             remover, attach, reconciler, history>>
  BY DEF ReadSource, ScanSource, VerifyCandidate, Asked, ScannerPcs
<1> QED BY <1>1, GoesFacts, SameRows DEF TypeOK, bucket, history

\* A fault counts as one.
LEMMA FaultTyped ==
  ASSUME TypeOK, Fault
  PROVE  faults' \in 0..MaxFaults
BY ConstantsAssumption DEF TypeOK, Fault, ConstantsAssumption

\* Objects are removed, or the bucket refuses at the price of a fault.
LEMMA RefusesTyped ==
  ASSUME TypeOK, NEW S, Refuses(S)
  PROVE  faults' \in 0..MaxFaults
BY FaultTyped DEF TypeOK, Refuses

\* Writing one candidate.
Puts(f, t, c) == candidate' = [candidate EXCEPT ![f][t] = c]

\* One candidate that is written or removed leaves the others alone.
LEMMA CandidateTyped ==
  ASSUME TypeOK, NEW f \in Files, NEW t \in Tokens, NEW c \in Contents \union {None},
         Puts(f, t, c)
  PROVE  /\ candidate' \in [Files -> [Tokens -> Contents \union {None}]]
         /\ candidate'[f][t] = c
         /\ \A g \in Files, u \in Tokens :
              <<g, u>> # <<f, t>> => candidate'[g][u] = candidate[g][u]
<1> DEFINE v == [candidate[f] EXCEPT ![t] = c]
<1>1. candidate[f] \in [Tokens -> Contents \union {None}]
  BY DEF TypeOK
<1>2. candidate' = [candidate EXCEPT ![f] = v]
  BY DEF TypeOK, Puts
<1>3. v \in [Tokens -> Contents \union {None}] /\ v[t] = c
      /\ \A u \in Tokens \ {t} : v[u] = candidate[f][u]
  BY <1>1
<1> HIDE DEF v
<1> QED BY <1>1, <1>2, <1>3 DEF TypeOK

\* Deleting the candidates of a set of tokens.
LEMMA ClearedTyped ==
  ASSUME TypeOK, NEW f \in Files, NEW S,
         candidate' = [candidate EXCEPT ![f] =
                         [t \in Tokens |-> IF t \in S THEN None ELSE candidate[f][t]]]
  PROVE  /\ candidate' \in [Files -> [Tokens -> Contents \union {None}]]
         /\ \A t \in Tokens : candidate'[f][t] = IF t \in S THEN None ELSE candidate[f][t]
         /\ \A g \in Files \ {f} : candidate'[g] = candidate[g]
<1> DEFINE c == [t \in Tokens |-> IF t \in S THEN None ELSE candidate[f][t]]
<1>1. candidate[f] \in [Tokens -> Contents \union {None}]
  BY DEF TypeOK
<1>2. c \in [Tokens -> Contents \union {None}]
  BY <1>1
<1>3. \A t \in Tokens : c[t] = IF t \in S THEN None ELSE candidate[f][t]
  OBVIOUS
<1> HIDE DEF c
<1>4. candidate' = [candidate EXCEPT ![f] = c]
  BY DEF c
<1> QED BY <1>2, <1>3, <1>4 DEF TypeOK

\* The renewal of a lease keeps the types, and what it does to rows is explained.
LEMMA RenewTyped ==
  ASSUME TypeOK, Claims, NEW s \in Scanners, RenewLease(s)
  PROVE  TypeOK' /\ Evolves
<1>0. scanner[s].file \in Files
  BY DEF RenewLease, Claims
<1>1. PICK f \in Files : f = scanner[s].file
  BY <1>0
<1> DEFINE v == [row[f] EXCEPT !.lease = "held"]
<1>2. row[f] \in RowType
  BY <1>1 DEF TypeOK
<1>3. /\ v \in RowType /\ v.status = row[f].status /\ v.deleted = row[f].deleted
      /\ v.link = row[f].link /\ v.claim = row[f].claim /\ v.attempts = row[f].attempts
      /\ v.active = row[f].active
  BY <1>2, LeaseUpdate
<1> HIDE DEF v
<1>4. CASE Holds(s)
  <2>1. row' = [row EXCEPT ![f] = v] /\ row'[f] = v
    BY <1>1, <1>4 DEF TypeOK, RenewLease, v
  <2>2. Grows(f) /\ NotCompleted(f)
    BY <1>3, <2>1, SameStatus
  <2>5. Explained(f)
    BY <1>1, <1>3, <2>1, SameExplained
  <2>3. row' \in [Files -> RowType] /\ Evolves
    BY <1>1, <1>3, <2>1, <2>2, <2>5, Rewritten
  <2>4. scanner' \in [Scanners -> ScannerType]
    BY <1>4, GoesFacts DEF RenewLease, ScannerPcs
  <2> QED BY <2>3, <2>4 DEF TypeOK, RenewLease, bucket, history
<1>5. CASE ~Holds(s)
  <2>1. scanner' \in [Scanners -> ScannerType]
    BY <1>5, GoesFacts DEF RenewLease, ScannerPcs
  <2> QED BY <1>5, <2>1, SameRows DEF TypeOK, RenewLease, bucket, history
<1> QED BY <1>4, <1>5

\* So does a scan's claim.
LEMMA ClaimTyped ==
  ASSUME TypeOK, NEW s \in Scanners, NEW f \in Files, ClaimUploading(s, f)
  PROVE  TypeOK' /\ Evolves
<1>0. row[f] \in RowType /\ row[f].attempts + 1 \in 1..MaxAttempts
      /\ row[f].attempts + 1 \in 0..MaxAttempts
      /\ row[f].attempts \in 0..MaxAttempts /\ row[f].etag \in Contents \union {None}
  BY FieldTypes, ConstantsAssumption DEF TypeOK, ClaimUploading, Claimable, ConstantsAssumption
<1>1. PICK token \in 0..MaxAttempts : token = row[f].attempts + 1
  BY <1>0
<1> DEFINE v == ClaimedRow(row[f], token)
<1>2. /\ v \in RowType /\ v.status = "scanning" /\ v.deleted = row[f].deleted
      /\ v.link = row[f].link /\ v.claim = token /\ v.attempts = token
      /\ v.active = row[f].active
  BY <1>0, ClaimUpdate
<1> HIDE DEF v
<1>3. row' = [row EXCEPT ![f] = v] /\ row'[f] = v
  BY <1>1 DEF TypeOK, ClaimUploading, ClaimedRow, v
<1>4. Grows(f) /\ NotCompleted(f)
  <2>1. row[f].status \in {"uploading", "scanning"} /\ Live(f) /\ token > row[f].attempts
    BY <1>0, <1>1, ConstantsAssumption DEF ClaimUploading, Claimable, ConstantsAssumption
  <2>2. row[f].attempts \in Nat /\ token \in Nat
    BY <1>0, ConstantsAssumption DEF ConstantsAssumption
  <2>3. row[f].link # "none" \/ row'[f].link = "none"
    BY <1>2, <1>3
  <2>4. NotCompleted(f) /\ row'[f].status # "absent" /\ ~Settled(f)
    BY <1>2, <1>3, <2>1 DEF NotCompleted, Settled
  <2>5. Exists(f) /\ row[f].attempts <= row'[f].attempts
    BY <1>2, <1>3, <2>1, <2>2 DEF Exists, Live
  <2>6. \A t \in 0..row[f].attempts : row'[f].claim # t
    BY <1>2, <1>3, <2>1, <2>2
  <2> QED BY <1>2, <1>3, <2>1, <2>3, <2>4, <2>5, <2>6 DEF Grows, Live
<1>7. Explained(f)
  BY <1>2, <1>3, SameExplained DEF ClaimUploading, Claimable, Statuses
<1>5. row' \in [Files -> RowType] /\ Evolves
  BY <1>2, <1>3, <1>4, <1>7, Rewritten
<1>6. scanner' \in [Scanners -> ScannerType]
  BY <1>0 DEF TypeOK, ClaimUploading, ScannerType
<1> QED BY <1>5, <1>6 DEF TypeOK, ClaimUploading, bucket, history

\* Giving up a claim writes the row of a scan only.
LEMMA UnclaimedTyped ==
  ASSUME TypeOK, Claims, NEW s \in Scanners, scanner[s].pc # "idle",
         NEW x \in {"failed", "uploading"},
         row' = IF Holds(s) THEN Unclaimed(scanner[s].file, x) ELSE row
  PROVE  row' \in [Files -> RowType] /\ Evolves
<1>0. scanner[s].file \in Files
  BY DEF Claims
<1>1. PICK f \in Files : f = scanner[s].file
  BY <1>0
<1> DEFINE v == [row[f] EXCEPT !.status = x, !.claim = 0, !.lease = "none"]
<1>2. row[f] \in RowType /\ x \in Statuses
  BY <1>1, ConstantsAssumption DEF TypeOK, ConstantsAssumption, Statuses
<1>3. /\ v \in RowType /\ v.status = x /\ v.deleted = row[f].deleted
      /\ v.link = row[f].link /\ v.attempts = row[f].attempts /\ v.active = row[f].active
  BY <1>2, UnclaimUpdate
<1> HIDE DEF v
<1>4. CASE Holds(s)
  <2>1. row' = [row EXCEPT ![f] = v] /\ row'[f] = v
    BY <1>1, <1>4 DEF TypeOK, Unclaimed, v
  <2>2. Grows(f) /\ NotCompleted(f)
    <3>1. Live(f) /\ ~Settled(f)
      BY <1>1, <1>4 DEF Holds, Settled
    <3>2. /\ row'[f].status = x /\ row'[f].link = row[f].link
          /\ row'[f].attempts = row[f].attempts /\ row'[f].active = row[f].active
      BY <1>3, <2>1
    <3> QED BY <3>1, <3>2, LiveRewritten DEF NotCompleted, Statuses
  <2>3. Explained(f)
    BY <1>1, <1>2, <1>3, <1>4, <2>1, SameExplained DEF Holds
  <2> QED BY <1>1, <1>3, <2>1, <2>2, <2>3, Rewritten
<1>5. CASE ~Holds(s)
  BY <1>5, SameRows DEF TypeOK
<1> QED BY <1>4, <1>5

\* So does a scan that gives up, by a retry or a rejection.
LEMMA GiveUpTyped ==
  ASSUME TypeOK, Claims, NEW s \in Scanners, RetryScan(s) \/ RejectScan(s)
  PROVE  TypeOK' /\ Evolves
<1>1. PICK pc \in ScannerPcs : Goes(s, pc)
  BY DEF RetryScan, RejectScan, ScannerPcs
<1>2. PICK x \in {"failed", "uploading"} :
        row' = IF Holds(s) THEN Unclaimed(scanner[s].file, x) ELSE row
  BY DEF RetryScan, RejectScan
<1>3. scanner[s].pc # "idle"
  BY DEF RetryScan, RejectScan
<1>4. row' \in [Files -> RowType] /\ Evolves
  BY <1>2, <1>3, UnclaimedTyped
<1>5. scanner' \in [Scanners -> ScannerType]
  BY <1>1, GoesFacts
<1> QED BY <1>4, <1>5 DEF TypeOK, RetryScan, RejectScan, bucket, history

\* The completion of a scan keeps the types; only a scanner that still holds its claim completes.
LEMMA CompleteTyped ==
  ASSUME TypeOK, Claims, NEW s \in Scanners, CompleteScan(s)
  PROVE  /\ TypeOK' /\ \A f \in Files : Grows(f) /\ Explained(f)
         /\ ~Holds(s) => Evolves
         /\ \A f \in Files \ {scanner[s].file} : row'[f] = row[f]
         /\ Holds(s) => /\ row'[scanner[s].file].status = "uploaded"
                        /\ row'[scanner[s].file].active = scanner[s].token
                        /\ row'[scanner[s].file].attempts = row[scanner[s].file].attempts
                        /\ ~row'[scanner[s].file].deleted
<1>0. scanner[s].file \in Files /\ scanner[s].token \in 0..MaxAttempts
  <2>1. scanner[s].file \in Files /\ scanner[s].token \in Tokens
    BY DEF Claims, CompleteScan
  <2>2. Tokens \subseteq 0..MaxAttempts
    BY ConstantsAssumption DEF Tokens, ConstantsAssumption
  <2> QED BY <2>1, <2>2
<1>1. PICK f \in Files, t \in 0..MaxAttempts : f = scanner[s].file /\ t = scanner[s].token
  BY <1>0
<1> DEFINE v == [row[f] EXCEPT !.status = "uploaded", !.active = t, !.claim = 0, !.lease = "none"]
<1>2. row[f] \in RowType
  BY <1>1, ConstantsAssumption DEF TypeOK, ConstantsAssumption
<1>3. /\ v \in RowType /\ v.status = "uploaded" /\ v.deleted = row[f].deleted
      /\ v.link = row[f].link /\ v.attempts = row[f].attempts /\ v.active = t
  BY <1>2, CompleteUpdate
<1> HIDE DEF v
<1>4. scanner' \in [Scanners -> ScannerType]
  BY GoesFacts DEF CompleteScan, ScannerPcs
<1>5. CASE Holds(s)
  <2>1. row' = [row EXCEPT ![f] = v] /\ row'[f] = v
    BY <1>1, <1>5 DEF TypeOK, CompleteScan, v
  <2>2. Grows(f)
    <3>1. Live(f) /\ ~Settled(f)
      BY <1>1, <1>5 DEF Holds, Settled
    <3>2. /\ row'[f].status = "uploaded" /\ row'[f].link = row[f].link
          /\ row'[f].attempts = row[f].attempts
      BY <1>3, <2>1
    <3> QED BY <3>1, <3>2, LiveRewritten DEF Statuses
  <2>4. Explained(f)
    BY <1>1, <1>2, <1>3, <1>5, <2>1, SameExplained DEF Holds, Statuses
  <2>3. row' \in [Files -> RowType] /\ \A g \in Files : Grows(g) /\ Explained(g)
    BY <1>1, <1>3, <2>1, <2>2, <2>4, Rewritten
  <2>5. \A g \in Files \ {f} : row'[g] = row[g]
    BY <1>1, <1>3, <2>1, Written
  <2>6. ~row'[f].deleted
    <3>1. ~row[f].deleted
      BY <1>1, <1>5 DEF Holds, Live
    <3> QED BY <1>3, <2>1, <3>1
  <2>7. TypeOK'
    BY <1>4, <2>3 DEF TypeOK, CompleteScan, bucket, history
  <2> QED BY <1>1, <1>3, <1>5, <2>1, <2>3, <2>5, <2>6, <2>7
<1>6. CASE ~Holds(s)
  <2>1. row' = row
    BY <1>6 DEF CompleteScan
  <2>2. Evolves
    BY <2>1, SameRows
  <2> QED BY <1>4, <1>6, <2>1, <2>2 DEF TypeOK, CompleteScan, bucket, history, Evolves
<1> QED BY <1>5, <1>6

\* The other steps of scanners, and the end of a lease.
LEMMA CopyTyped ==
  ASSUME TypeOK, Claims, NEW s \in Scanners,
         CopyToCandidate(s) \/ DropCandidate(s) \/ DropQuarantine(s) \/ DropOtherCandidates(s)
         \/ BucketFails(s)
  PROVE  TypeOK' /\ Evolves
<1> DEFINE f == scanner[s].file
           t == scanner[s].token
<1>1. scanner[s].pc # "idle" /\ f \in Files /\ t \in Tokens
  BY DEF Claims, CopyToCandidate, DropCandidate, DropQuarantine, DropOtherCandidates, BucketFails
<1>2. /\ quarantine[f] \in Contents \union {None}
      /\ None \in Contents \union {None}
  BY <1>1 DEF TypeOK
<1>3. PICK pc \in ScannerPcs : Goes(s, pc)
  BY DEF CopyToCandidate, DropCandidate, DropQuarantine, DropOtherCandidates, BucketFails, ScannerPcs
<1>4. scanner' \in [Scanners -> ScannerType]
  BY <1>3, GoesFacts
<1>5. Evolves
  BY SameRows DEF CopyToCandidate, DropCandidate, DropQuarantine, DropOtherCandidates, BucketFails
<1>6. CASE CopyToCandidate(s)
  <2>1. candidate' \in [Files -> [Tokens -> Contents \union {None}]]
    <3>1. CASE quarantine[f] = scanner[s].source
      <4>1. Puts(f, t, quarantine[f])
        BY <1>6, <3>1 DEF CopyToCandidate, Puts
      <4> QED BY <1>1, <1>2, <4>1, CandidateTyped
    <3>2. CASE quarantine[f] # scanner[s].source
      BY <1>6, <3>2 DEF CopyToCandidate, TypeOK
    <3> QED BY <3>1, <3>2
  <2> QED BY <1>4, <1>5, <1>6, <2>1 DEF TypeOK, CopyToCandidate, history
<1>7. CASE DropCandidate(s)
  <2>1. PICK kept \in SUBSET {<<f, t>>} :
          /\ Refuses(kept) /\ abandoned' = abandoned \union kept
          /\ candidate' = IF kept = {} THEN [candidate EXCEPT ![f][t] = None] ELSE candidate
    BY <1>7 DEF DropCandidate
  <2>2. candidate' \in [Files -> [Tokens -> Contents \union {None}]]
    <3>1. CASE kept = {}
      <4>1. Puts(f, t, None)
        BY <2>1, <3>1 DEF Puts
      <4> QED BY <1>1, <1>2, <4>1, CandidateTyped
    <3>2. CASE kept # {}
      BY <2>1, <3>2 DEF TypeOK
    <3> QED BY <3>1, <3>2
  <2>3. faults' \in 0..MaxFaults
    BY <2>1, RefusesTyped
  <2>4. abandoned' \in SUBSET (Files \X Tokens)
    BY <1>1, <2>1 DEF TypeOK
  <2> QED BY <1>4, <1>5, <1>7, <2>2, <2>3, <2>4 DEF TypeOK, DropCandidate
<1>8. CASE DropQuarantine(s)
  <2>1. PICK kept \in SUBSET {f} :
          /\ Refuses(kept)
          /\ quarantine' = IF kept = {} THEN [quarantine EXCEPT ![f] = None] ELSE quarantine
    BY <1>8 DEF DropQuarantine
  <2>2. quarantine' \in [Files -> Contents \union {None}]
    BY <2>1 DEF TypeOK
  <2>3. faults' \in 0..MaxFaults
    BY <2>1, RefusesTyped
  <2> QED BY <1>4, <1>5, <1>8, <2>2, <2>3 DEF TypeOK, DropQuarantine
<1>9. CASE DropOtherCandidates(s)
  <2> DEFINE others == {u \in Tokens : u < t}
  <2>1. PICK kept \in SUBSET others :
          /\ Refuses(kept)
          /\ candidate' = [candidate EXCEPT ![f] =
                            [u \in Tokens |-> IF u \in others \ kept THEN None ELSE @[u]]]
    BY <1>9 DEF DropOtherCandidates
  <2> DEFINE S == others \ kept
  <2>2. candidate' = [candidate EXCEPT ![f] =
                            [u \in Tokens |-> IF u \in S THEN None ELSE candidate[f][u]]]
    BY <2>1, <1>1 DEF TypeOK
  <2> HIDE DEF S
  <2>3. candidate' \in [Files -> [Tokens -> Contents \union {None}]]
    BY <1>1, <2>2, ClearedTyped
  <2>4. faults' \in 0..MaxFaults
    BY <2>1, RefusesTyped
  <2> QED BY <1>4, <1>5, <1>9, <2>3, <2>4 DEF TypeOK, DropOtherCandidates
<1>10. CASE BucketFails(s)
  <2>1. faults' \in 0..MaxFaults
    BY <1>10, FaultTyped DEF BucketFails
  <2>2. /\ candidate' = candidate \/ Puts(f, t, quarantine[f])
        /\ abandoned' = abandoned \/ abandoned' = abandoned \union {<<f, t>>}
    BY <1>10 DEF BucketFails, Puts
  <2>3. candidate' \in [Files -> [Tokens -> Contents \union {None}]]
    <3>1. CASE candidate' = candidate
      BY <3>1 DEF TypeOK
    <3>2. CASE Puts(f, t, quarantine[f])
      BY <1>1, <1>2, <3>2, CandidateTyped
    <3> QED BY <2>2, <3>1, <3>2
  <2>4. abandoned' \in SUBSET (Files \X Tokens)
    BY <1>1, <2>2 DEF TypeOK
  <2> QED BY <1>4, <1>5, <1>10, <2>1, <2>3, <2>4 DEF TypeOK, BucketFails
<1> QED BY <1>6, <1>7, <1>8, <1>9, <1>10

\* A scanner dies.
LEMMA StopScannerTyped ==
  ASSUME TypeOK, Claims, NEW s \in Scanners, StopScanner(s)
  PROVE  TypeOK' /\ Evolves
<1>1. scanner' \in [Scanners -> ScannerType]
  BY GoesFacts DEF StopScanner, ScannerPcs
<1>2. abandoned' \in SUBSET (Files \X Tokens)
  BY DEF StopScanner, Claims, TypeOK
<1> QED BY <1>1, <1>2, FaultTyped, SameRows DEF TypeOK, StopScanner, bucket

\* A lease ends, or a day goes by.
LEMMA TimeTyped ==
  ASSUME TypeOK, NEW f \in Files, LeaseEnds(f) \/ Age(f)
  PROVE  TypeOK' /\ Evolves
<1>1. row[f] \in RowType
  BY DEF TypeOK
<1>2. CASE LeaseEnds(f)
  <2> DEFINE v == [row[f] EXCEPT !.lease = "none"]
  <2>1. /\ v \in RowType /\ v.status = row[f].status /\ v.deleted = row[f].deleted
        /\ v.link = row[f].link /\ v.claim = row[f].claim /\ v.attempts = row[f].attempts
        /\ v.active = row[f].active
    BY <1>1, LeaseUpdate
  <2> HIDE DEF v
  <2>2. row' = [row EXCEPT ![f] = v] /\ row'[f] = v
    BY <1>2 DEF TypeOK, LeaseEnds, v
  <2>3. Grows(f) /\ NotCompleted(f) /\ Explained(f)
    BY <2>1, <2>2, SameStatus
  <2>4. row' \in [Files -> RowType] /\ Evolves
    BY <2>1, <2>2, <2>3, Rewritten
  <2> QED BY <1>2, <2>4 DEF TypeOK, LeaseEnds, bucket, history
<1>3. CASE Age(f)
  <2>1. PICK x \in {"stale", "old"} : row' = [row EXCEPT ![f].age = x]
    BY <1>3 DEF Age, TypeOK
  <2> DEFINE v == [row[f] EXCEPT !.age = x]
  <2>2. /\ v \in RowType /\ v.status = row[f].status /\ v.deleted = row[f].deleted
        /\ v.link = row[f].link /\ v.claim = row[f].claim /\ v.attempts = row[f].attempts
        /\ v.active = row[f].active
    BY <1>1, AgeUpdate
  <2> HIDE DEF v
  <2>3. row' = [row EXCEPT ![f] = v] /\ row'[f] = v
    BY <2>1 DEF TypeOK, v
  <2>4. Grows(f) /\ NotCompleted(f) /\ Explained(f)
    BY <2>2, <2>3, SameStatus
  <2>5. row' \in [Files -> RowType] /\ Evolves
    BY <2>2, <2>3, <2>4, Rewritten
  <2> QED BY <1>3, <2>5 DEF TypeOK, Age, bucket, history
<1> QED BY <1>2, <1>3

\* What a deletion does to the row of a file.
LEMMA DeletedEvolves ==
  ASSUME TypeOK, NEW f \in Files, row[f].status # "absent", row' = [row EXCEPT ![f].deleted = TRUE]
  PROVE  row' \in [Files -> RowType] /\ Evolves /\ ~Live(f)' /\ row'[f].attempts = row[f].attempts
<1> DEFINE v == [row[f] EXCEPT !.deleted = TRUE]
<1>1. row[f] \in RowType
  BY DEF TypeOK
<1>2. /\ v \in RowType /\ v.status = row[f].status /\ v.deleted /\ v.link = row[f].link
      /\ v.claim = row[f].claim /\ v.attempts = row[f].attempts /\ v.active = row[f].active
  BY <1>1, DeleteUpdate
<1> HIDE DEF v
<1>3. row' = [row EXCEPT ![f] = v] /\ row'[f] = v
  BY DEF TypeOK, v
<1>4. ~Live(f)'
  BY <1>2, <1>3 DEF Live
<1>5. Grows(f) /\ NotCompleted(f) /\ Explained(f)
  BY <1>2, <1>3, SameStatus
<1> QED BY <1>2, <1>3, <1>4, <1>5, Rewritten

\* The states of a deletion.
LEMMA RemoverUpdate ==
  ASSUME NEW v \in RemoverType, NEW pc \in {"idle", "mark", "quarantine", "candidates", "row"},
         NEW b \in BOOLEAN
  PROVE  /\ LET w == [v EXCEPT !.pc = pc] IN
            /\ w \in RemoverType /\ w.pc = pc /\ w.file = v.file /\ w.upto = v.upto
            /\ w.last = v.last /\ w.purge = v.purge /\ w.active = v.active
         /\ LET w == [v EXCEPT !.pc = pc, !.last = b] IN
            /\ w \in RemoverType /\ w.pc = pc /\ w.file = v.file /\ w.upto = v.upto
            /\ w.last = b /\ w.purge = v.purge /\ w.active = v.active
BY DEF RemoverType

\* A deletion that begins.
LEMMA DeletionType ==
  ASSUME TypeOK, NEW f \in Files, NEW pc \in {"mark", "quarantine"}, NEW b \in BOOLEAN,
         NEW p \in BOOLEAN
  PROVE  LET w == Deletion(f, pc, b, p) IN
         /\ w \in RemoverType /\ w.pc = pc /\ w.file = f /\ w.upto = row[f].attempts
         /\ w.last = b /\ w.purge = p /\ (p => w.active = row[f].active)
<1>1. row[f].attempts \in 0..MaxAttempts /\ row[f].active \in 0..MaxAttempts /\ 0 \in 0..MaxAttempts
  BY FieldTypes, ConstantsAssumption DEF TypeOK, ConstantsAssumption
<1> QED BY <1>1 DEF Deletion, RemoverType

\* Deletions write the row of a file that exists.
LEMMA RemoverTyped ==
  ASSUME TypeOK, Rows, Removals, NEW m \in Removers,
         (\E f \in Files : BeginDelete(m, f) \/ BeginPurge(m, f) \/ ClaimCleanup(m, f))
         \/ RemoverStep(m) \/ StopRemover(m)
  PROVE  TypeOK' /\ Evolves
<1> DEFINE f == remover[m].file
<1>1. remover[m] \in RemoverType
  BY DEF TypeOK
<1>2. ASSUME NEW g \in Files
      PROVE  row[g].attempts \in 0..MaxAttempts
  BY FieldTypes DEF TypeOK
<1>3. CASE \E g \in Files : BeginDelete(m, g)
  <2>1. PICK g \in Files : BeginDelete(m, g)
    BY <1>3
  <2>2. remover' \in [Removers -> RemoverType]
    BY <2>1, DeletionType DEF TypeOK, BeginDelete
  <2> QED BY <2>1, <2>2, SameRows DEF TypeOK, BeginDelete, bucket, history
<1>10. CASE \E g \in Files : BeginPurge(m, g)
  <2>1. PICK g \in Files : BeginPurge(m, g)
    BY <1>10
  <2>2. remover' \in [Removers -> RemoverType]
    BY <2>1, DeletionType DEF TypeOK, BeginPurge
  <2> QED BY <2>1, <2>2, SameRows DEF TypeOK, BeginPurge, bucket
<1>4. CASE \E g \in Files : ClaimCleanup(m, g)
  <2>1. PICK g \in Files : ClaimCleanup(m, g)
    BY <1>4
  <2>2. row[g].status # "absent" /\ row' = [row EXCEPT ![g].deleted = TRUE]
    BY <2>1 DEF ClaimCleanup, Cleanable, Exists, Statuses
  <2>3. row' \in [Files -> RowType] /\ Evolves
    BY <2>2, DeletedEvolves
  <2>4. remover' \in [Removers -> RemoverType]
    BY <2>1, DeletionType DEF TypeOK, ClaimCleanup
  <2> QED BY <2>1, <2>3, <2>4 DEF TypeOK, ClaimCleanup, bucket, history
<1>5. CASE MarkDeleted(m)
  <2>0. f \in Files /\ row[f].status # "absent"
    BY <1>5 DEF MarkDeleted, Removals, Removing
  <2>1. PICK g \in Files : g = f /\ row[g].status # "absent"
    BY <2>0
  <2>2. remover' \in [Removers -> RemoverType]
    <3>1. [remover[m] EXCEPT !.pc = "quarantine"] \in RemoverType
      BY <1>1 DEF RemoverType
    <3>2. \/ remover' = [remover EXCEPT ![m] = [remover[m] EXCEPT !.pc = "quarantine"]]
          \/ remover' = [remover EXCEPT ![m] = IdleRemover]
      BY <1>5 DEF MarkDeleted
    <3> QED BY <3>1, <3>2, IdleTypes DEF TypeOK
  <2>3. row' \in [Files -> RowType] /\ Evolves
    <3>1. CASE row' = [row EXCEPT ![g].deleted = TRUE]
      BY <2>1, <3>1, DeletedEvolves
    <3>2. CASE row' = row
      BY <3>2, SameRows DEF TypeOK
    <3> QED BY <1>5, <2>1, <3>1, <3>2 DEF MarkDeleted
  <2> QED BY <1>5, <2>2, <2>3 DEF TypeOK, MarkDeleted, bucket, history
<1>6. CASE RemoveQuarantine(m)
  <2>1. PICK kept \in SUBSET {f} :
        /\ Refuses(kept)
        /\ quarantine' = IF kept = {} THEN [quarantine EXCEPT ![f] = None] ELSE quarantine
        /\ remover' = [remover EXCEPT ![m].pc = "candidates", ![m].last = @ /\ kept = {}]
    BY <1>6 DEF RemoveQuarantine
  <2> DEFINE b == remover[m].last /\ kept = {}
  <2>2. b \in BOOLEAN
    OBVIOUS
  <2>3. remover' = [remover EXCEPT ![m] = [remover[m] EXCEPT !.pc = "candidates", !.last = b]]
    BY <2>1 DEF TypeOK
  <2> HIDE DEF b
  <2>4. remover' \in [Removers -> RemoverType]
    BY <1>1, <2>2, <2>3, RemoverUpdate DEF TypeOK
  <2>5. quarantine' \in [Files -> Contents \union {None}]
    BY <2>1 DEF TypeOK
  <2>6. faults' \in 0..MaxFaults
    BY <2>1, RefusesTyped
  <2> QED BY <1>6, <2>4, <2>5, <2>6, SameRows DEF TypeOK, RemoveQuarantine
<1>7. CASE RemoveCandidates(m)
  <2> DEFINE named == 1..remover[m].upto
  <2>0. f \in Files
    BY <1>7 DEF RemoveCandidates, Removals, Removing
  <2>1. PICK kept \in SUBSET named :
        /\ Refuses(kept)
        /\ candidate' = [candidate EXCEPT ![f] =
                          [t \in Tokens |-> IF t \in named \ kept THEN None ELSE @[t]]]
        /\ remover' = [remover EXCEPT ![m] =
                        IF @.last /\ kept = {} THEN [@ EXCEPT !.pc = "row"] ELSE IdleRemover]
    BY <1>7 DEF RemoveCandidates
  <2> DEFINE S == named \ kept
  <2>2. candidate' = [candidate EXCEPT ![f] =
                            [u \in Tokens |-> IF u \in S THEN None ELSE candidate[f][u]]]
    BY <2>0, <2>1 DEF TypeOK
  <2> HIDE DEF S
  <2>3. candidate' \in [Files -> [Tokens -> Contents \union {None}]]
    BY <2>0, <2>2, ClearedTyped
  <2>4. remover' \in [Removers -> RemoverType]
    BY <1>1, <2>1, RemoverUpdate, IdleTypes DEF TypeOK
  <2>5. faults' \in 0..MaxFaults
    BY <2>1, RefusesTyped
  <2> QED BY <1>7, <2>3, <2>4, <2>5, SameRows DEF TypeOK, RemoveCandidates
<1>8. CASE HardDelete(m)
  <2>0. f \in Files /\ row[f].status # "absent"
    BY <1>8 DEF HardDelete, Removals, Removing
  <2>1. PICK g \in Files : g = f /\ row[g].status # "absent"
    BY <2>0
  <2> DEFINE v == NoRow("gone")
  <2>2. v \in RowType /\ v.status = "gone" /\ v.link = "none"
    BY NewRow
  <2> HIDE DEF v
  <2>3. row' = [row EXCEPT ![g] = v] /\ row'[g] = v
    BY <1>8, <2>1 DEF HardDelete, TypeOK, v
  <2>4. Grows(g) /\ NotCompleted(g)
    BY <2>2, <2>3, NotLiveAnyMore
  <2>7. Explained(g)
    <3>1. Exists(g) => Ends(m, g)
      BY <1>8, <2>1 DEF HardDelete, Ends
    <3>2. Uploaded(g) => Exists(g)
      BY DEF Uploaded, Live
    <3> QED BY <2>1, <2>2, <2>3, <3>1, <3>2 DEF Explained
  <2>5. row' \in [Files -> RowType] /\ Evolves
    BY <2>1, <2>2, <2>3, <2>4, <2>7, Rewritten
  <2>6. remover' \in [Removers -> RemoverType]
    BY <1>8, IdleTypes DEF TypeOK, HardDelete
  <2>8. abandoned' \in SUBSET (Files \X Tokens)
    <3>1. CASE remover[m].purge /\ Exists(g) /\ row[g].active # remover[m].active
      <4>1. remover[m].active = 0
        BY <1>8, <2>1, <3>1 DEF HardDelete, Removals, Removing
      <4>2. row[g].active \in Tokens
        BY <3>1, <4>1, FieldTypes, ConstantsAssumption DEF TypeOK, ConstantsAssumption, Tokens
      <4> QED BY <1>8, <2>1, <3>1, <4>2 DEF HardDelete, TypeOK
    <3>2. CASE ~(remover[m].purge /\ Exists(g) /\ row[g].active # remover[m].active)
      BY <1>8, <2>1, <3>2 DEF HardDelete, TypeOK
    <3> QED BY <3>1, <3>2
  <2> QED BY <1>8, <2>5, <2>6, <2>8 DEF TypeOK, HardDelete, bucket
<1>9. CASE StopRemover(m)
  BY <1>9, FaultTyped, IdleTypes, SameRows DEF TypeOK, StopRemover, bucket
<1> QED BY <1>3, <1>4, <1>5, <1>6, <1>7, <1>8, <1>9, <1>10 DEF RemoverStep

\* An attachment marks settled files deleted, and links one that is uploaded.
LEMMA LinkedEvolves ==
  ASSUME TypeOK, NEW f \in Files, NEW x \in {"loose", "slot"}, NEW old,
         \A g \in old \intersect Files : Settled(g), Uploaded(f), f \notin old,
         row' = [g \in Files |-> IF g = f THEN [row[g] EXCEPT !.link = x]
                                 ELSE IF g \in old THEN [row[g] EXCEPT !.deleted = TRUE] ELSE row[g]]
  PROVE  row' \in [Files -> RowType] /\ Evolves
<1>1. SUFFICES ASSUME NEW g \in Files
               PROVE  row'[g] \in RowType /\ Grows(g) /\ NotCompleted(g) /\ Explained(g)
  BY DEF Evolves
<1>2. row[g] \in RowType /\ row[g].attempts \in 0..MaxAttempts
  BY FieldTypes DEF TypeOK
<1>3. CASE g = f
  <2> DEFINE v == [row[g] EXCEPT !.link = x]
  <2>1. /\ v \in RowType /\ v.status = row[g].status /\ v.deleted = row[g].deleted
        /\ v.claim = row[g].claim /\ v.attempts = row[g].attempts /\ v.active = row[g].active
    BY <1>2, LinkUpdate
  <2>2. row'[g] = v
    BY <1>3
  <2> HIDE DEF v
  <2>3. row[g].status = "uploaded"
    BY <1>3 DEF Uploaded
  <2>4. /\ row'[g].status = row[g].status /\ row'[g].claim = row[g].claim
        /\ row'[g].attempts = row[g].attempts /\ row'[g].active = row[g].active
        /\ row[g].deleted => row'[g].deleted
    BY <2>1, <2>2, Zenon
  <2> QED BY <2>1, <2>2, <2>3, <2>4, SameStatus, Zenon
<1>4. CASE g \in old
  <2> DEFINE v == [row[g] EXCEPT !.deleted = TRUE]
  <2>1. /\ v \in RowType /\ v.status = row[g].status /\ v.deleted /\ v.link = row[g].link
        /\ v.claim = row[g].claim /\ v.attempts = row[g].attempts /\ v.active = row[g].active
    BY <1>2, DeleteUpdate
  <2>2. row'[g] = v
    BY <1>4
  <2> HIDE DEF v
  <2>4. /\ row'[g].status = row[g].status /\ row'[g].claim = row[g].claim
        /\ row'[g].attempts = row[g].attempts /\ row'[g].active = row[g].active
        /\ row[g].deleted => row'[g].deleted
        /\ row'[g].link # "none" => row[g].link # "none" \/ row[g].status = "uploaded"
    BY <2>1, <2>2, Zenon
  <2> QED BY <2>1, <2>2, <2>4, SameStatus, Zenon
<1>5. CASE g # f /\ g \notin old
  <2>1. row'[g] = row[g]
    BY <1>5
  <2>2. Grows(g) /\ NotCompleted(g) /\ Explained(g)
    BY <2>1, SameStatus, Zenon
  <2> QED BY <1>2, <2>1, <2>2, Zenon
<1> QED BY <1>3, <1>4, <1>5

\* Attachments write the rows of settled files.
LEMMA AttachTyped ==
  ASSUME TypeOK, Replaced, NEW a \in Attachers,
         (\E f \in Files, link \in {"loose", "slot"} : BeginAttach(a, f, link)) \/ AttachStep(a)
         \/ AbortAttach(a)
  PROVE  TypeOK' /\ Evolves
<1> DEFINE f == attach[a].file
           old == attach[a].old
<1>1. attach[a] \in AttachType /\ old \subseteq Files /\ attach[a].link \in {"loose", "slot"}
  BY DEF TypeOK, AttachType
<1>2. CASE \E g \in Files, link \in {"loose", "slot"} : BeginAttach(a, g, link)
  <2>1. PICK g \in Files, link \in {"loose", "slot"} : BeginAttach(a, g, link)
    BY <1>2
  <2> DEFINE gone == IF link = "slot" THEN Occupants ELSE {}
  <2>2. gone \in SUBSET Files
    BY DEF Occupants
  <2>3. attach' = [attach EXCEPT ![a] = [pc |-> IF gone = {} THEN "link" ELSE "erase",
                                         file |-> g, link |-> link, old |-> gone]]
    BY <2>1 DEF BeginAttach
  <2> HIDE DEF gone
  <2>4. attach' \in [Attachers -> AttachType]
    BY <2>2, <2>3 DEF TypeOK, AttachType
  <2> QED BY <2>1, <2>4, SameRows DEF TypeOK, BeginAttach, bucket, history
<1>3. CASE EraseOccupants(a)
  <2>1. [attach[a] EXCEPT !.pc = "link"] \in AttachType
    BY <1>1 DEF AttachType
  <2>2. attach' \in [Attachers -> AttachType]
    BY <1>3, <2>1 DEF TypeOK, EraseOccupants
  <2>3. quarantine' \in [Files -> Contents \union {None}]
    BY <1>3 DEF TypeOK, EraseOccupants
  <2>4. [t \in Tokens |-> None] \in [Tokens -> Contents \union {None}]
    OBVIOUS
  <2>5. candidate' \in [Files -> [Tokens -> Contents \union {None}]]
    BY <1>3, <2>4 DEF TypeOK, EraseOccupants
  <2> QED BY <1>3, <2>2, <2>3, <2>5, SameRows DEF TypeOK, EraseOccupants, history
<1>4. CASE LinkFile(a)
  <2>1. attach' \in [Attachers -> AttachType]
    BY <1>4, IdleTypes DEF TypeOK, LinkFile
  <2>2. CASE Uploaded(f) /\ f \notin old
    <3>1. f \in Files
      BY <1>4 DEF Replaced, LinkFile
    <3>2. /\ row' = [g \in Files |-> IF g = f THEN [row[g] EXCEPT !.link = attach[a].link]
                         ELSE IF g \in old THEN [row[g] EXCEPT !.deleted = TRUE] ELSE row[g]]
          /\ undone' = undone
      BY <1>4, <2>2 DEF LinkFile
    <3>3. \A g \in old \intersect Files : Settled(g)
      BY DEF Replaced
    <3>4. row' \in [Files -> RowType] /\ Evolves
      BY <1>1, <2>2, <3>1, <3>2, <3>3, LinkedEvolves
    <3> QED BY <1>4, <2>1, <3>2, <3>4 DEF TypeOK, LinkFile, bucket
  <2>3. CASE ~(Uploaded(f) /\ f \notin old)
    <3>1. row' = row /\ undone' = undone \union old
      BY <1>4, <2>3 DEF LinkFile
    <3> QED BY <1>1, <1>4, <2>1, <3>1, SameRows DEF TypeOK, LinkFile, bucket
  <2> QED BY <2>2, <2>3
<1>5. CASE AbortAttach(a)
  BY <1>1, <1>5, FaultTyped, IdleTypes, SameRows DEF TypeOK, AbortAttach, bucket
<1> QED BY <1>2, <1>3, <1>4, <1>5 DEF AttachStep

\* Reconciliations write the rows of settled files.
LEMMA ReconcilerTyped ==
  ASSUME TypeOK, Reconciling, Rows, NEW k \in Reconcilers,
         (\E f \in Files : ListUploaded(k, f)) \/ LookForObject(k) \/ MarkMissing(k)
  PROVE  TypeOK' /\ Evolves
<1>1. reconciler[k] \in ReconcilerType
  BY DEF TypeOK
<1>2. CASE \E g \in Files : ListUploaded(k, g)
  <2>1. PICK g \in Files : ListUploaded(k, g)
    BY <1>2
  <2>2. row[g].active \in 0..MaxAttempts
    BY FieldTypes DEF TypeOK
  <2> QED BY <2>1, <2>2, SameRows DEF TypeOK, ListUploaded, bucket, history, ReconcilerType
<1>3. CASE LookForObject(k)
  <2>1. [reconciler[k] EXCEPT !.pc = "missing"] \in ReconcilerType
    BY <1>1 DEF ReconcilerType
  <2>2. \/ reconciler' = [reconciler EXCEPT ![k] = [reconciler[k] EXCEPT !.pc = "missing"]]
        \/ reconciler' = [reconciler EXCEPT ![k] = IdleReconciler]
    BY <1>3 DEF LookForObject
  <2>3. reconciler' \in [Reconcilers -> ReconcilerType]
    BY <2>1, <2>2, IdleTypes DEF TypeOK
  <2> QED BY <1>3, <2>3, SameRows DEF TypeOK, LookForObject, bucket, history
<1>4. CASE MarkMissing(k)
  <2>0. reconciler[k].file \in Files /\ Settled(reconciler[k].file)
    BY <1>4 DEF MarkMissing, Reconciling, Looking
  <2>1. PICK f \in Files : f = reconciler[k].file /\ Settled(f)
    BY <2>0
  <2>2. reconciler' \in [Reconcilers -> ReconcilerType]
    BY <1>4, IdleTypes DEF TypeOK, MarkMissing
  <2>5. reconciler[k].pc = "missing"
    BY <1>4 DEF MarkMissing
  <2>3. CASE Live(f)
    <3> DEFINE v == [row[f] EXCEPT !.status = "failed"]
    <3>1. row[f] \in RowType
      BY <2>1 DEF TypeOK
    <3>2. /\ v \in RowType /\ v.status = "failed" /\ v.deleted = row[f].deleted
          /\ v.link = row[f].link /\ v.claim = row[f].claim /\ v.attempts = row[f].attempts
          /\ v.active = row[f].active
      BY <3>1, StatusUpdate DEF Statuses
    <3> HIDE DEF v
    <3>3. row' = [row EXCEPT ![f] = v] /\ row'[f] = v
      BY <1>4, <2>1, <2>3 DEF TypeOK, MarkMissing, v
    <3>4. Grows(f) /\ NotCompleted(f)
      BY <2>1, <2>3, <3>2, <3>3, NotLiveAnyMore
    <3>6. Explained(f)
      <4>1. row'[f].status = "failed"
        BY <3>2, <3>3
      <4>2. row[f].status \notin {"absent", "pending"}
        BY <2>1 DEF Settled
      <4> QED BY <2>1, <2>5, <4>1, <4>2 DEF Explained, Exists, Statuses
    <3>5. row' \in [Files -> RowType] /\ Evolves
      BY <2>1, <3>2, <3>3, <3>4, <3>6, Rewritten
    <3> QED BY <1>4, <2>2, <3>5 DEF TypeOK, MarkMissing, bucket, history
  <2>4. CASE ~Live(f)
    BY <1>4, <2>1, <2>2, <2>4, SameRows DEF TypeOK, MarkMissing, bucket, history
  <2> QED BY <2>3, <2>4
<1> QED BY <1>2, <1>3, <1>4

-----------------------------------------------------------------------------
(* What survives the steps of others *)

\* A file that had no bytes, nor a signed URL, has none now.
Silent(f) ==
  /\ f \in urls' => f \in urls
  /\ quarantine'[f] # None => quarantine[f] # None \/ f \in urls
  /\ confirming'[f] # None => confirming[f] # None \/ quarantine[f] # None

\* A scanner goes on with its claim, or ends.
Proceeds(s) ==
  scanner'[s].pc # "idle" =>
    /\ scanner[s].pc # "idle"
    /\ scanner'[s].file = scanner[s].file /\ scanner'[s].token = scanner[s].token

\* A candidate whose owner lets go of it is deleted, or the active one of a live row.
Followed(f) ==
  \A t \in Tokens : candidate'[f][t] # None =>
    \/ Owned(f, t)'
    \/ Live(f)' /\ ~Settled(f) /\ t = row'[f].active
    \/ candidate[f][t] # None /\ ~Owned(f, t)

\* A candidate of a file that is uploaded for good is left alone.
Spared(f) ==
  Uploaded(f) /\ f \notin Forsaken' => candidate'[f][row[f].active] = candidate[f][row[f].active]

\* A file leaves the forsaken ones only by its deletion.
Shrinks == \A f \in Forsaken \ Forsaken' : ~Uploaded(f)'

\* An uploaded file was so before.
LEMMA UploadedBefore ==
  ASSUME NEW f \in Files, Grows(f), NotCompleted(f), Uploaded(f)'
  PROVE  Uploaded(f) /\ row'[f].active = row[f].active
BY DEF Grows, NotCompleted, Uploaded, Live, Exists, Settled

\* A row that is gone does not come back.
LEMMA GoneStays ==
  ASSUME TypeOK', NEW f \in Files, Grows(f), row[f].status = "gone"
  PROVE  row'[f].status = "gone"
<1>1. row'[f].status \in Statuses \union {"absent", "gone"}
  BY FieldTypes DEF TypeOK
<1> QED BY <1>1 DEF Grows, Exists, Statuses

\* Rows, as long as an uploaded file names one of its attempts.
LEMMA RowsKept ==
  ASSUME TypeOK, TypeOK', Rows, \A f \in Files : Grows(f),
         \A f \in Files : NotCompleted(f) \/ row'[f].active \in 1..row'[f].attempts,
         \A f \in Files : Silent(f) \/ row[f].status # "absent"
  PROVE  Rows'
<1>1. SUFFICES ASSUME NEW f \in Files
               PROVE  /\ row'[f].link # "none" => Settled(f)'
                      /\ row'[f].status = "uploaded" => row'[f].active \in 1..row'[f].attempts
                      /\ row'[f].status \in Statuses =>
                           /\ row'[f].active <= row'[f].attempts
                           /\ row'[f].active # 0 => Settled(f)'
                      /\ row'[f].status = "absent" =>
                           f \notin urls' /\ quarantine'[f] = None /\ confirming'[f] = None
  BY DEF Rows, Exists
<1>2. Grows(f)
  OBVIOUS
<1>3. row'[f].link # "none" => Settled(f)'
  BY <1>2 DEF Rows, Grows, Settled
<1>4. row'[f].status = "absent" =>
        f \notin urls' /\ quarantine'[f] = None /\ confirming'[f] = None
  <2>1. row'[f].status = "absent" => row[f].status = "absent" /\ Silent(f)
    BY <1>2 DEF Grows
  <2> QED BY <2>1 DEF Rows, Silent
<1>5. ASSUME row'[f].status = "uploaded", NotCompleted(f)
      PROVE  row'[f].active \in 1..row'[f].attempts
  <2>1. row[f].status = "uploaded" /\ Exists(f)'
    BY <1>5 DEF NotCompleted, Exists, Statuses
  <2>2. row'[f].active = row[f].active /\ row[f].attempts <= row'[f].attempts
    BY <1>2, <2>1 DEF Grows, Settled
  <2>3. row[f].active \in 1..row[f].attempts /\ row[f].attempts \in Nat
    BY <2>1, FieldTypes, ConstantsAssumption DEF Rows, TypeOK, ConstantsAssumption
  <2>4. row'[f].attempts \in Nat
    BY FieldTypes, ConstantsAssumption DEF TypeOK, ConstantsAssumption
  <2> QED BY <2>2, <2>3, <2>4
<1>6. ASSUME row'[f].status \in Statuses
      PROVE  row'[f].active <= row'[f].attempts /\ (row'[f].active # 0 => Settled(f)')
  <2>1. /\ row[f].active \in Nat /\ row[f].attempts \in Nat
        /\ row'[f].active \in Nat /\ row'[f].attempts \in Nat
    BY FieldTypes, ConstantsAssumption DEF TypeOK, ConstantsAssumption
  <2>2. CASE row'[f].active = 0
    BY <2>1, <2>2
  <2>3. CASE row'[f].active # 0 /\ row'[f].status = "uploaded"
    <3>1. row'[f].active \in 1..row'[f].attempts
      BY <1>5, <2>3
    <3> QED BY <2>1, <2>3, <3>1 DEF Settled
  <2>4. CASE row'[f].active # 0 /\ row'[f].status # "uploaded"
    <3>1. Exists(f) /\ row'[f].active = row[f].active
      BY <1>2, <1>6, <2>4 DEF Grows, Exists
    <3>2. row[f].active <= row[f].attempts /\ Settled(f)
      BY <2>4, <3>1 DEF Rows
    <3>3. row[f].attempts <= row'[f].attempts /\ Settled(f)'
      BY <1>2, <1>6, <3>1, <3>2 DEF Grows, Exists, Statuses
    <3> QED BY <2>1, <3>1, <3>2, <3>3
  <2> QED BY <2>2, <2>3, <2>4
<1> QED BY <1>3, <1>4, <1>5, <1>6

\* Requests that go on, or stay.
LEMMA ReservingKept ==
  ASSUME TypeOK, TypeOK', Rows, Reserving, \A f \in Files : Grows(f) /\ Explained(f) /\ Silent(f),
         request' = request
  PROVE  Reserving'
<1>1. ASSUME NEW r \in Requests, request[r].pc # "idle"
      PROVE  LET f == request[r].file IN
             /\ f \in Files
             /\ request[r].pc # "sign" => row'[f].status = "absent"
             /\ request[r].pc = "sign" => /\ row'[f].status \in {"pending", "gone"}
                                          /\ f \notin urls' /\ quarantine'[f] = None
                                          /\ confirming'[f] = None
  <2>1. PICK f \in Files : f = request[r].file
    BY <1>1 DEF Reserving
  <2>2. Grows(f) /\ Explained(f) /\ Silent(f)
    OBVIOUS
  <2>3. ~ \E q \in Requests : Asks(q, {"insert"}, f) /\ Asks(q, {"sign"}, f)'
    BY DEF Asks
  <2>4. ~ \E q \in Requests : Asks(q, {"sign"}, f) /\ ~Asks(q, {"sign"}, f)'
    BY DEF Asks
  <2>5. CASE request[r].pc # "sign"
    <3>1. row[f].status = "absent"
      BY <1>1, <2>1, <2>5 DEF Reserving
    <3> QED BY <2>1, <2>2, <2>3, <2>5, <3>1 DEF Explained
  <2>6. CASE request[r].pc = "sign"
    <3>1. row[f].status \in {"pending", "gone"} /\ f \notin urls /\ quarantine[f] = None
          /\ confirming[f] = None
      BY <1>1, <2>1, <2>6 DEF Reserving
    <3>2. f \notin urls' /\ quarantine'[f] = None /\ confirming'[f] = None
      BY <2>2, <3>1 DEF Silent
    <3>3. CASE row[f].status = "pending"
      <4>1. row'[f].status \in {"pending", "gone"}
        BY <2>2, <2>4, <3>1, <3>3 DEF Explained
      <4> QED BY <2>1, <2>6, <3>2, <4>1
    <3>4. CASE row[f].status = "gone"
      <4>1. row'[f].status = "gone"
        BY <2>2, <3>4, GoneStays
      <4> QED BY <2>1, <2>6, <3>2, <4>1
    <3> QED BY <3>1, <3>3, <3>4
  <2> QED BY <2>5, <2>6
<1> QED BY <1>1 DEF Reserving

\* A scanner that holds its claim has held it before.
LEMMA HeldBefore ==
  ASSUME TypeOK, Claims, \A f \in Files : Grows(f), NEW s \in Scanners, Proceeds(s),
         scanner'[s].pc # "idle", Holds(s)'
  PROVE  Holds(s)
<1>1. /\ scanner[s].pc # "idle" /\ scanner'[s].file = scanner[s].file
      /\ scanner'[s].token = scanner[s].token
  BY DEF Proceeds
<1>2. scanner[s].file \in Files
  BY <1>1 DEF Claims
<1>3. PICK f \in Files : f = scanner[s].file
  BY <1>2
<1>4. PICK t \in Tokens : t = scanner[s].token
  BY <1>1 DEF Claims
<1>5. Live(f)' /\ row'[f].status = "scanning" /\ row'[f].claim = t
  BY <1>1, <1>3, <1>4 DEF Holds, Live, Exists
<1>6. Grows(f) /\ Exists(f)' /\ row[f].status # "absent"
  BY <1>1, <1>3, <1>5 DEF Claims, Live
<1>7. t \in 0..row[f].attempts
  <2>1. t <= row[f].attempts
    BY <1>1, <1>3, <1>4, <1>6 DEF Claims, Grows
  <2>2. t \in Nat /\ row[f].attempts \in Nat
    BY FieldTypes, ConstantsAssumption DEF TypeOK, ConstantsAssumption, Tokens
  <2> QED BY <2>1, <2>2
<1> QED BY <1>3, <1>4, <1>5, <1>6, <1>7 DEF Grows, Holds

\* Claims, of a step after which every scanner proceeds.
LEMMA ClaimsKept ==
  ASSUME TypeOK, TypeOK', Claims, \A f \in Files : Grows(f), \A s \in Scanners : Proceeds(s)
  PROVE  Claims'
<1>1. ASSUME NEW s \in Scanners, scanner'[s].pc # "idle"
      PROVE  LET f == scanner'[s].file IN
             /\ f \in Files /\ scanner'[s].token \in Tokens
             /\ row'[f].status # "absent"
             /\ row'[f].status \in Statuses => scanner'[s].token <= row'[f].attempts
  <2>1. /\ scanner[s].pc # "idle" /\ scanner'[s].file = scanner[s].file
        /\ scanner'[s].token = scanner[s].token
    BY <1>1 DEF Proceeds
  <2>2. PICK f \in Files : f = scanner[s].file
    BY <2>1 DEF Claims
  <2>3. Grows(f) /\ row[f].status # "absent"
    BY <2>1, <2>2 DEF Claims
  <2>4. ASSUME row'[f].status \in Statuses
        PROVE  scanner[s].token <= row'[f].attempts
    <3>1. Exists(f) /\ row[f].attempts <= row'[f].attempts
      BY <2>3, <2>4 DEF Grows, Exists
    <3>2. scanner[s].token <= row[f].attempts
      BY <2>1, <2>2, <3>1 DEF Claims
    <3>3. row[f].attempts \in Nat /\ row'[f].attempts \in Nat /\ scanner[s].token \in Nat
      BY <2>1, FieldTypes, ConstantsAssumption DEF Claims, TypeOK, ConstantsAssumption, Tokens
    <3> QED BY <3>1, <3>2, <3>3
  <2>5. scanner[s].token \in Tokens
    BY <2>1 DEF Claims
  <2> QED BY <2>1, <2>2, <2>3, <2>4, <2>5 DEF Grows
<1>2. ASSUME NEW s \in Scanners, NEW z \in Scanners, scanner'[s].pc # "idle", scanner'[z].pc # "idle",
             scanner'[s].file = scanner'[z].file, scanner'[s].token = scanner'[z].token
      PROVE  s = z
  BY <1>2 DEF Proceeds, Claims
<1> QED BY <1>1, <1>2 DEF Claims, Exists, Tokens

\* The token of a scanner at work is not that of the object a row names, unless it becomes so.
LEMMA NotActive ==
  ASSUME Claims, NEW s \in Scanners, Scanned(s), scanner[s].pc \notin {"idle", "sweep", "tidy"},
         NEW f \in Files, f = scanner[s].file, Grows(f), NotCompleted(f),
         row'[f].status \in Statuses
  PROVE  scanner[s].token # row'[f].active
<1>1. scanner[s].token \in Tokens /\ row[f].status # "absent"
  BY DEF Claims
<1>2. scanner[s].token # 0
  BY <1>1, ConstantsAssumption DEF Tokens, ConstantsAssumption
<1>3. Exists(f)
  BY <1>1 DEF Grows, Exists
<1>4. scanner[s].token # row[f].active
  BY <1>3 DEF Scanned
<1>5. row'[f].active # 0 => row'[f].active = row[f].active
  BY <1>3 DEF Grows, NotCompleted, Exists, Settled
<1> QED BY <1>2, <1>4, <1>5

\* What a scanner knows, unless it moves.
LEMMA ScannedKept ==
  ASSUME TypeOK, Claims, \A f \in Files : Grows(f), NEW s \in Scanners, Scanned(s),
         scanner'[s] = scanner[s], undone \subseteq undone',
         scanner[s].pc = "complete" /\ Holds(s) /\ Holds(s)' =>
           \/ candidate'[scanner[s].file][scanner[s].token]
                = candidate[scanner[s].file][scanner[s].token]
           \/ /\ candidate'[scanner[s].file][scanner[s].token] = None
              /\ scanner[s].file \in undone',
         \A f \in Files : f = scanner[s].file => 
           NotCompleted(f) \/ (row[f].status = "scanning" /\ row'[f].active # scanner[s].token)
  PROVE  Scanned(s)'
<1>1. CASE scanner[s].pc = "idle"
  BY <1>1 DEF Scanned
<1>2. CASE scanner[s].pc # "idle"
  <2>1. PICK f \in Files : f = scanner[s].file
    BY <1>2 DEF Claims
  <2> DEFINE t == scanner[s].token
  <2>2. Grows(f) /\ row[f].status # "absent"
    BY <1>2, <2>1 DEF Claims
  <2>3. scanner[s].pc = "complete" /\ Holds(s)' =>
          candidate'[f][t] = scanner[s].source \/ (f \in undone' /\ candidate'[f][t] = None)
    BY <2>1, HeldBefore DEF Scanned, Proceeds
  <2>4. NotCompleted(f) \/ (row[f].status = "scanning" /\ row'[f].active # t)
    BY <2>1
  <2>5. scanner[s].pc \in {"sweep", "tidy"} =>
          Settled(f)' /\ (row'[f].status \in Statuses => row'[f].active = t)
    BY <2>1, <2>2 DEF Scanned, Grows, Exists, Settled
  <2>6. scanner[s].pc \notin {"idle", "sweep", "tidy"} /\ row'[f].status \in Statuses
          => t # row'[f].active
    <3>1. CASE NotCompleted(f)
      BY <1>2, <2>1, <2>2, <3>1, NotActive
    <3> QED BY <2>4, <3>1
  <2>7. scanner[s].pc \in {"extend", "copy", "verify", "complete"} => scanner[s].source \in Clean
    BY DEF Scanned
  <2>8. scanner'[s].file = f /\ scanner'[s].token = t /\ scanner'[s].pc = scanner[s].pc
        /\ scanner'[s].source = scanner[s].source
    BY <2>1
  <2> HIDE DEF t
  <2> QED BY <2>3, <2>5, <2>6, <2>7, <2>8 DEF Scanned, Settled, Exists
<1> QED BY <1>1, <1>2

\* The object a row names stays the row's, or is left behind with the row's end.
LEMMA Outlived ==
  ASSUME TypeOK, Rows, Removals, NEW f \in Files, NEW t \in Tokens, Grows(f), Explained(f),
         candidate[f][t] # None, ~Owned(f, t), Exists(f), t = row[f].active
  PROVE  (Exists(f)' /\ t = row'[f].active) \/ Owned(f, t)'
<1>1. t # 0
  BY ConstantsAssumption DEF Tokens, ConstantsAssumption
<1>2. Settled(f)
  BY <1>1 DEF Rows
<1>3. CASE Exists(f)'
  BY <1>2, <1>3 DEF Grows
<1>4. CASE ~Exists(f)'
  <2>1. PICK m \in Removers : Ends(m, f)
    BY <1>4 DEF Explained
  <2>2. remover[m].purge /\ t # remover[m].active
    BY <2>1 DEF Ends, Removals, Removing
  <2>3. <<f, t>> \in abandoned'
    BY <2>1, <2>2 DEF Ends
  <2> QED BY <2>3 DEF Owned
<1> QED BY <1>3, <1>4

\* What a deletion knows, unless it moves.
LEMMA RemovingKept ==
  ASSUME TypeOK, Rows, Removals, NEW m \in Removers, remover'[m] = remover[m],
         undone \subseteq undone', \A f \in Files : Grows(f) /\ Followed(f) /\ Explained(f)
  PROVE  Removing(m)'
<1>0. Removing(m) /\ remover[m] \in RemoverType
  BY DEF Removals, TypeOK
<1>1. CASE remover[m].pc = "idle"
  BY <1>1 DEF Removing
<1>2. CASE remover[m].pc # "idle"
  <2>1. PICK f \in Files : f = remover[m].file
    BY <1>0, <1>2 DEF Removing
  <2>2. Grows(f) /\ Followed(f) /\ Explained(f) /\ row[f].status # "absent"
    BY <1>0, <1>2, <2>1 DEF Removing
  <2>3. row'[f].status # "absent" /\ (row'[f].status \in Statuses => Exists(f))
    BY <2>2 DEF Grows, Exists
  <2>4. ASSUME remover[m].pc \in {"quarantine", "candidates", "row"}, ~remover[m].purge
        PROVE  ~Live(f)' /\ (remover[m].last /\ Exists(f)' => remover[m].upto = row'[f].attempts)
    <3>1. ~Live(f) /\ (remover[m].last /\ Exists(f) => remover[m].upto = row[f].attempts)
      BY <1>0, <2>1, <2>4 DEF Removing
    <3> QED BY <2>2, <3>1 DEF Grows
  <2>5. ASSUME remover[m].purge
        PROVE  /\ f \in undone' /\ remover[m].active <= remover[m].upto
               /\ remover[m].active # 0 /\ row'[f].status \in Statuses =>
                    row'[f].active = remover[m].active
    <3>1. /\ f \in undone /\ remover[m].active <= remover[m].upto
          /\ remover[m].active # 0 /\ Exists(f) => row[f].active = remover[m].active
      BY <1>0, <1>2, <2>1, <2>5 DEF Removing
    <3>2. ASSUME remover[m].active # 0, row'[f].status \in Statuses
          PROVE  row'[f].active = remover[m].active
      <4>1. row[f].active = remover[m].active /\ Settled(f)
        BY <2>3, <3>1, <3>2 DEF Rows
      <4> QED BY <2>2, <3>2, <4>1 DEF Grows, Exists
    <3> QED BY <3>1, <3>2
  <2>6. ASSUME remover[m].pc = "row", NEW t \in Tokens, candidate'[f][t] # None
        PROVE  \/ Owned(f, t)'
               \/ /\ remover[m].purge /\ row'[f].status \in Statuses
                  /\ t = row'[f].active /\ t # remover[m].active
    <3>1. CASE Owned(f, t)'
      BY <3>1
    <3>2. CASE Live(f)' /\ ~Settled(f) /\ t = row'[f].active
      <4>1. remover[m].purge
        BY <2>4, <2>6, <3>2
      <4>2. row'[f].status \in Statuses /\ t # 0
        BY <3>2, ConstantsAssumption DEF Live, Exists, Tokens, ConstantsAssumption
      <4>3. remover[m].active = 0
        BY <1>0, <1>2, <2>1, <2>3, <3>2, <4>1, <4>2 DEF Removing, Rows
      <4> QED BY <3>2, <4>1, <4>2, <4>3
    <3>3. CASE candidate[f][t] # None /\ ~Owned(f, t)
      <4>1. remover[m].purge /\ Exists(f) /\ t = row[f].active /\ t # remover[m].active
        BY <1>0, <2>1, <2>6, <3>3 DEF Removing
      <4>2. (Exists(f)' /\ t = row'[f].active) \/ Owned(f, t)'
        BY <2>2, <3>3, <4>1, Outlived
      <4> QED BY <4>1, <4>2 DEF Exists
    <3> QED BY <2>2, <2>6, <3>1, <3>2, <3>3 DEF Followed
  <2>7. /\ remover[m].pc = "row" => remover[m].last
        /\ remover[m].pc = "mark" => ~remover[m].last /\ ~remover[m].purge
    BY <1>0 DEF Removing
  <2>8. remover'[m].file = f /\ remover'[m].pc = remover[m].pc /\ remover'[m].last = remover[m].last
        /\ remover'[m].upto = remover[m].upto /\ remover'[m].purge = remover[m].purge
        /\ remover'[m].active = remover[m].active
    BY <2>1
  <2> QED BY <2>3, <2>4, <2>5, <2>6, <2>7, <2>8 DEF Removing, Live, Exists, Owned, At, Tokens
<1> QED BY <1>1, <1>2

\* Accounted, of a step that disowns no candidate.
LEMMA AccountedKept ==
  ASSUME TypeOK, Rows, Accounted, Removals,
         \A f \in Files : Grows(f) /\ Followed(f) /\ Explained(f)
  PROVE  Accounted'
<1>1. SUFFICES ASSUME NEW f \in Files, NEW t \in Tokens, candidate'[f][t] # None
               PROVE  (Exists(f)' /\ t = row'[f].active) \/ Owned(f, t)'
  BY DEF Accounted, Exists, Owned, At, Tokens
<1>2. CASE candidate[f][t] # None /\ ~Owned(f, t)
  <2>1. Exists(f) /\ t = row[f].active
    BY <1>2 DEF Accounted
  <2> QED BY <1>2, <2>1, Outlived
<1>3. CASE Live(f)' /\ t = row'[f].active
  BY <1>3 DEF Live
<1> QED BY <1>1, <1>2, <1>3 DEF Followed

\* What a reconciliation knows, unless it moves.
LEMMA LookingKept ==
  ASSUME NEW k \in Reconcilers, Looking(k), reconciler'[k] = reconciler[k], Shrinks,
         \A f \in Files : Grows(f) /\ (NotCompleted(f) \/ row[f].status = "scanning")
  PROVE  Looking(k)'
<1>1. CASE reconciler[k].pc = "idle"
  BY <1>1 DEF Looking
<1>2. CASE reconciler[k].pc # "idle"
  <2>1. PICK f \in Files : f = reconciler[k].file
    BY <1>2 DEF Looking
  <2>2. Grows(f) /\ Settled(f) /\ reconciler[k].token \in Tokens
        /\ (Exists(f) => row[f].active = reconciler[k].token)
    BY <1>2, <2>1 DEF Looking
  <2>3. Settled(f)' /\ (Exists(f)' => row'[f].active = reconciler[k].token)
    BY <2>2 DEF Grows, Settled, Exists, Statuses
  <2>4. NotCompleted(f)
    BY <2>2 DEF Settled
  <2>5. reconciler[k].pc = "missing" => f \in Forsaken' \/ ~Uploaded(f)'
    <3>1. CASE f \in Forsaken
      BY <3>1 DEF Shrinks
    <3>2. CASE ~Uploaded(f)
      BY <2>2, <2>4, <3>2, UploadedBefore
    <3> QED BY <2>1, <3>1, <3>2 DEF Looking
  <2>6. reconciler'[k].file = f /\ reconciler'[k].pc = reconciler[k].pc
        /\ reconciler'[k].token = reconciler[k].token
    BY <2>1
  <2> QED BY <2>2, <2>3, <2>5, <2>6 DEF Looking, Settled, Exists, Live, Uploaded, Tokens
<1> QED BY <1>1, <1>2

\* ServedIsClean, of a step that spares what is served or completes a clean candidate.
LEMMA ServedKept ==
  ASSUME ServedIsClean, Shrinks,
         \A f \in Files : Grows(f) /\ ((NotCompleted(f) /\ Spared(f))
                                       \/ candidate'[f][row'[f].active] \in Clean
                                       \/ f \in undone')
  PROVE  ServedIsClean'
<1>1. SUFFICES ASSUME NEW f \in Files, f \notin Forsaken', Uploaded(f)'
               PROVE  candidate'[f][row'[f].active] \in Clean
  BY DEF ServedIsClean, Uploaded, Live, Exists
<1>2. CASE NotCompleted(f) /\ Spared(f)
  <2>1. Uploaded(f) /\ row'[f].active = row[f].active
    BY <1>1, <1>2, UploadedBefore
  <2>2. f \notin Forsaken
    BY <1>1 DEF Shrinks
  <2> QED BY <1>1, <1>2, <2>1, <2>2 DEF ServedIsClean, Spared
<1>3. f \notin undone'
  BY <1>1 DEF Forsaken
<1> QED BY <1>2, <1>3

\* Replaced, of a step in which attachments only go on.
LEMMA ReplacedKept ==
  ASSUME TypeOK, Replaced, \A f \in Files : Grows(f),
         \A a \in Attachers : /\ attach'[a].old \subseteq attach[a].old
                              /\ attach'[a].pc = "idle" => attach[a].pc = "idle" \/ attach'[a].old = {}
                              /\ attach'[a].pc # "idle" => attach[a].pc # "idle" /\ attach'[a].file = attach[a].file
  PROVE  Replaced'
<1>1. SUFFICES ASSUME NEW a \in Attachers
               PROVE  /\ attach'[a].pc = "idle" => attach'[a].old = {}
                      /\ attach'[a].pc # "idle" => attach'[a].file \in Files
                      /\ \A g \in attach'[a].old : Settled(g)'
  BY DEF Replaced, Settled
<1>2. attach[a].old \subseteq Files
  BY DEF TypeOK, AttachType
<1>3. ASSUME NEW g \in attach'[a].old
      PROVE  Settled(g)'
  <2>1. g \in Files /\ Settled(g)
    BY <1>2, <1>3 DEF Replaced
  <2> QED BY <2>1 DEF Grows
<1>4. attach'[a].pc = "idle" => attach'[a].old = {}
  BY DEF Replaced
<1> QED BY <1>3, <1>4 DEF Replaced

\* Others delete the bytes of deleted, purged and replaced files only.
Removed(f) ==
  \A t \in Tokens :
    \/ candidate'[f][t] = candidate[f][t]
    \/ /\ candidate'[f][t] = None
       /\ ~Live(f) \/ f \in undone \/ (Settled(f) /\ f \in Forsaken')

\* The steps that are not of a scanner.
LEMMA OutsideKept ==
  ASSUME IInv, TypeOK', Evolves, scanner' = scanner, abandoned \subseteq abandoned',
         undone \subseteq undone', Shrinks, \A f \in Files : Removed(f)
  PROVE  /\ Claims' /\ Scans' /\ Accounted' /\ ServedIsClean'
         /\ \A m \in Removers : remover'[m] = remover[m] => Removing(m)'
         /\ \A k \in Reconcilers : reconciler'[k] = reconciler[k] => Looking(k)'
<1>1. \A f \in Files : Grows(f) /\ NotCompleted(f) /\ Explained(f)
  BY DEF Evolves
<1>2. TypeOK /\ Rows /\ Claims /\ Scans /\ Removals /\ Reconciling /\ Accounted /\ ServedIsClean
  BY DEF IInv
<1>3. \A s \in Scanners : Proceeds(s)
  BY DEF Proceeds
<1>4. Claims'
  BY <1>1, <1>2, <1>3, ClaimsKept
<1>5. ASSUME NEW s \in Scanners
      PROVE  Scanned(s)'
  <2>1. scanner[s].pc = "complete" /\ Holds(s) /\ Holds(s)' =>
           \/ candidate'[scanner[s].file][scanner[s].token]
                = candidate[scanner[s].file][scanner[s].token]
           \/ /\ candidate'[scanner[s].file][scanner[s].token] = None
              /\ scanner[s].file \in undone
    <3>1. SUFFICES ASSUME scanner[s].pc = "complete", Holds(s)
                   PROVE  \/ candidate'[scanner[s].file][scanner[s].token]
                               = candidate[scanner[s].file][scanner[s].token]
                          \/ /\ candidate'[scanner[s].file][scanner[s].token] = None
                             /\ scanner[s].file \in undone
      OBVIOUS
    <3>2. PICK f \in Files, t \in Tokens : f = scanner[s].file /\ t = scanner[s].token
      BY <1>2, <3>1 DEF Claims
    <3>3. Live(f) /\ ~Settled(f)
      BY <3>1, <3>2 DEF Holds, Settled
    <3> QED BY <3>2, <3>3 DEF Removed
  <2>2. Scanned(s)
    BY <1>2 DEF Scans
  <2> QED BY <1>1, <1>2, <2>1, <2>2, ScannedKept
<1>6. \A f \in Files : Followed(f)
  BY DEF Removed, Followed, Owned, At
<1>7. Accounted'
  BY <1>1, <1>2, <1>6, AccountedKept
<1>8. ASSUME NEW f \in Files
      PROVE  Spared(f)
  <2>1. SUFFICES ASSUME Uploaded(f), f \notin Forsaken'
                 PROVE  candidate'[f][row[f].active] = candidate[f][row[f].active]
    BY DEF Spared
  <2>2. row[f].active \in Tokens
    <3>1. row[f].active \in 1..row[f].attempts /\ row[f].attempts \in 0..MaxAttempts
      BY <1>2, <2>1, FieldTypes DEF Uploaded, Rows, TypeOK
    <3> QED BY <3>1, ConstantsAssumption DEF ConstantsAssumption, Tokens
  <2>3. f \notin undone /\ Live(f)
    BY <2>1 DEF Forsaken, Uploaded
  <2> QED BY <2>1, <2>2, <2>3 DEF Removed
<1>9. ServedIsClean'
  BY <1>1, <1>2, <1>8, ServedKept
<1>10. ASSUME NEW m \in Removers, remover'[m] = remover[m]
       PROVE  Removing(m)'
  BY <1>1, <1>2, <1>6, <1>10, RemovingKept
<1>11. ASSUME NEW k \in Reconcilers, reconciler'[k] = reconciler[k]
       PROVE  Looking(k)'
  BY <1>1, <1>2, <1>11, LookingKept DEF Reconciling
<1> QED BY <1>4, <1>5, <1>7, <1>9, <1>10, <1>11 DEF Scans

\* Of them, those that touch neither attachments nor objects.
LEMMA QuietKept ==
  ASSUME IInv, TypeOK', Evolves, scanner' = scanner, abandoned' = abandoned,
         candidate' = candidate, attach' = attach, undone' = undone
  PROVE  /\ Claims' /\ Scans' /\ Accounted' /\ ServedIsClean' /\ Replaced'
         /\ \A m \in Removers : remover'[m] = remover[m] => Removing(m)'
         /\ \A k \in Reconcilers : reconciler'[k] = reconciler[k] => Looking(k)'
<1>1. Shrinks
  BY DEF Shrinks, Forsaken
<1>2. \A f \in Files : Removed(f)
  BY DEF Removed
<1>3. Replaced'
  BY ReplacedKept DEF IInv, Evolves
<1> QED BY <1>1, <1>2, <1>3, OutsideKept

\* A step that rewrites no row but by Evolves, and no bytes of files without any.
LEMMA RowsAndRequests ==
  ASSUME IInv, TypeOK', Evolves, \A f \in Files : Silent(f)
  PROVE  Rows' /\ (request' = request => Reserving')
<1>1. \A f \in Files : Grows(f) /\ NotCompleted(f) /\ Explained(f)
  BY DEF Evolves
<1>2. Rows'
  BY <1>1, RowsKept DEF IInv
<1>3. request' = request => Reserving'
  BY <1>1, ReservingKept DEF IInv
<1> QED BY <1>2, <1>3

-----------------------------------------------------------------------------
(* The steps *)

\* Uploads, confirmations and the passing of time keep the invariant.
LEMMA UploadSafe ==
  ASSUME IInv, NEW f \in Files,
         (\E c \in Contents : PutObject(f, c)) \/ BeginConfirm(f) \/ MarkUploadReady(f)
         \/ LeaseEnds(f) \/ Age(f)
  PROVE  IInv'
<1>1. TypeOK' /\ Evolves
  BY UploadTyped, TimeTyped DEF IInv
<1>2. UNCHANGED <<candidate, request, scanner, remover, attach, reconciler, undone, abandoned>>
  BY DEF PutObject, BeginConfirm, MarkUploadReady, LeaseEnds, Age, bucket, history
<1>3. ASSUME NEW g \in Files
      PROVE  Silent(g)
  <2>1. CASE \E c \in Contents : PutObject(f, c)
    BY <2>1 DEF PutObject, Silent, IInv, TypeOK
  <2>2. CASE BeginConfirm(f)
    BY <2>2 DEF BeginConfirm, Silent, IInv, TypeOK, bucket
  <2>3. CASE MarkUploadReady(f)
    <3>1. quarantine' = quarantine /\ urls' = urls /\ confirming' = [confirming EXCEPT ![f] = None]
      BY <2>3 DEF MarkUploadReady, bucket
    <3> QED BY <3>1 DEF Silent, IInv, TypeOK
  <2>4. CASE LeaseEnds(f) \/ Age(f)
    <3>1. quarantine' = quarantine /\ urls' \subseteq urls /\ confirming' = confirming
      BY <2>4 DEF LeaseEnds, Age, bucket
    <3> QED BY <3>1 DEF Silent
  <2> QED BY <2>1, <2>2, <2>3, <2>4
<1>4. Rows' /\ Reserving'
  BY <1>1, <1>2, <1>3, RowsAndRequests
<1>5. Claims' /\ Scans' /\ Accounted' /\ ServedIsClean' /\ Replaced' /\ Removals' /\ Reconciling'
  BY <1>1, <1>2, QuietKept DEF Removals, Reconciling
<1> QED BY <1>1, <1>4, <1>5 DEF IInv

\* Reservations keep the invariant.
LEMMA RequestSafe ==
  ASSUME IInv, NEW r \in Requests,
         (\E f \in Files : BeginUpload(r, f)) \/ RequestStep(r) \/ EndRequest(r)
  PROVE  IInv'
<1>1. TypeOK' /\ Evolves
  BY RequestTyped DEF IInv
<1>2. UNCHANGED <<candidate, quarantine, confirming, scanner, remover, attach, reconciler, undone,
                  abandoned>>
  BY DEF BeginUpload, RequestStep, LockUser, CheckQuota, InsertPending, SignUrl, EndRequest, bucket,
     history
<1>3. Claims' /\ Scans' /\ Accounted' /\ ServedIsClean' /\ Replaced' /\ Removals' /\ Reconciling'
  BY <1>1, <1>2, QuietKept DEF Removals, Reconciling
<1>4. \A q \in Requests \ {r} : request'[q] = request[q]
  BY DEF BeginUpload, RequestStep, LockUser, CheckQuota, InsertPending, SignUrl, EndRequest, IInv,
     TypeOK
<1>5. CASE SignUrl(r)
  <2>0. request[r].file \in Files /\ row[request[r].file].status # "absent"
    BY <1>5 DEF SignUrl, IInv, Reserving
  <2>1. PICK f \in Files : f = request[r].file /\ row[f].status # "absent"
    BY <2>0
  <2>2. row' = row /\ urls' = urls \union {f} /\ request'[r].pc = "idle"
    BY <1>5, <2>1, IdleTypes DEF SignUrl, IInv, TypeOK
  <2>3. \A g \in Files \ {f} : Silent(g)
    BY <1>2, <2>2 DEF Silent
  <2>4. Rows'
    <3>1. \A g \in Files : Silent(g) \/ row[g].status # "absent"
      BY <2>1, <2>3
    <3>2. \A g \in Files : Grows(g) /\ NotCompleted(g)
      BY <1>1 DEF Evolves
    <3> QED BY <1>1, <3>1, <3>2, RowsKept DEF IInv
  <2>5. ASSUME NEW q \in Requests, request'[q].pc # "idle"
        PROVE  q # r /\ request'[q] = request[q] /\ request[q].file # f
    BY <1>4, <1>5, <2>1, <2>2, <2>5 DEF SignUrl, IInv, Reserving
  <2>6. Reserving'
    BY <1>2, <2>2, <2>5 DEF Reserving, IInv
  <2> QED BY <1>1, <1>3, <2>4, <2>6 DEF IInv
<1>6. CASE ~SignUrl(r)
  <2>1. urls' = urls
    BY <1>6 DEF BeginUpload, RequestStep, LockUser, CheckQuota, InsertPending, EndRequest
  <2>2. \A f \in Files : Silent(f)
    BY <1>2, <2>1 DEF Silent
  <2>3. Rows'
    BY <1>1, <2>2, RowsAndRequests
  <2>4. ASSUME NEW q \in Requests \ {r}, request'[q].pc # "idle"
        PROVE  LET f == request'[q].file IN
               /\ f \in Files
               /\ request'[q].pc # "sign" => row'[f].status = "absent"
               /\ request'[q].pc = "sign" => /\ row'[f].status \in {"pending", "gone"}
                                             /\ f \notin urls' /\ quarantine'[f] = None
                                             /\ confirming'[f] = None
    <3>1. request'[q] = request[q] /\ request[q].pc # "idle"
      BY <1>4, <2>4
    <3>2. PICK f \in Files : f = request[q].file
      BY <3>1 DEF IInv, Reserving
    <3>3. row'[f] = row[f]
      <4>1. request[r].pc # "idle" => request[r].file # f
        BY <2>4, <3>1, <3>2 DEF IInv, Reserving
      <4>2. row' = row \/ \E v : request[r].pc # "idle" /\ row' = [row EXCEPT ![request[r].file] = v]
        BY DEF BeginUpload, RequestStep, LockUser, CheckQuota, InsertPending, SignUrl, EndRequest
      <4> QED BY <4>1, <4>2 DEF IInv, TypeOK
    <3> QED BY <1>2, <2>1, <3>1, <3>2, <3>3 DEF IInv, Reserving
  <2>5. request'[r].pc # "idle" =>
          LET f == request'[r].file IN
          /\ f \in Files
          /\ request'[r].pc # "sign" => row'[f].status = "absent"
          /\ request'[r].pc = "sign" => /\ row'[f].status \in {"pending", "gone"}
                                        /\ f \notin urls' /\ quarantine'[f] = None
                                        /\ confirming'[f] = None
          /\ \A q \in Requests \ {r} : request[q].pc # "idle" => request[q].file # f
    <3>0. request[r] \in RequestType /\ request' \in [Requests -> RequestType]
      BY <1>1 DEF IInv, TypeOK
    <3>1. CASE \E f \in Files : BeginUpload(r, f)
      BY <3>0, <3>1 DEF BeginUpload, IInv, TypeOK, Reserving
    <3>2. CASE LockUser(r)
      <4>1. request'[r].pc = "check" /\ request'[r].file = request[r].file /\ row' = row
            /\ request[r].pc = "user"
        BY <3>0, <3>2 DEF LockUser, IInv, TypeOK, RequestType
      <4> QED BY <4>1 DEF IInv, Reserving
    <3>3. CASE CheckQuota(r)
      <4>1. (request'[r].pc = "idle" \/ (request'[r].pc = "insert" /\ request'[r].file = request[r].file))
            /\ row' = row /\ request[r].pc = "check"
        BY <3>0, <3>3, IdleTypes DEF CheckQuota, IInv, TypeOK, RequestType
      <4> QED BY <4>1 DEF IInv, Reserving
    <3>4. CASE InsertPending(r)
      <4>0. request[r].pc = "insert" /\ request[r].file \in Files
            /\ row[request[r].file].status = "absent"
        BY <3>4 DEF InsertPending, IInv, Reserving
      <4>1. PICK f \in Files : f = request[r].file /\ row[f].status = "absent"
        BY <4>0
      <4>2. request'[r].pc = "sign" /\ request'[r].file = f /\ row'[f] = NoRow("pending")
        BY <3>0, <3>4, <4>1 DEF InsertPending, IInv, TypeOK, RequestType
      <4>3. f \notin urls /\ quarantine[f] = None /\ confirming[f] = None
        BY <4>1 DEF IInv, Rows
      <4>4. \A q \in Requests \ {r} : request[q].pc # "idle" => request[q].file # f
        BY <4>0, <4>1 DEF IInv, Reserving
      <4> QED BY <1>2, <2>1, <4>1, <4>2, <4>3, <4>4, NewRow
    <3>5. CASE EndRequest(r)
      BY <3>5, IdleTypes DEF EndRequest, IInv, TypeOK
    <3> QED BY <1>6, <3>1, <3>2, <3>3, <3>4, <3>5 DEF RequestStep
  <2>6. ASSUME NEW q \in Requests, NEW p \in Requests, request'[q].pc # "idle",
               request'[p].pc # "idle", request'[q].file = request'[p].file
        PROVE  q = p
    <3>1. CASE q # r /\ p # r
      BY <1>4, <2>6, <3>1 DEF IInv, Reserving
    <3>2. CASE q = r \/ p = r
      BY <1>4, <2>5, <2>6, <3>2
    <3> QED BY <3>1, <3>2
  <2>7. Reserving'
    BY <2>4, <2>5, <2>6 DEF Reserving
  <2> QED BY <1>1, <1>3, <2>3, <2>7 DEF IInv
<1> QED BY <1>5, <1>6

\* Deletions, purges and clean-ups keep the invariant.
LEMMA RemoverSafe ==
  ASSUME IInv, NEW m \in Removers,
         (\E f \in Files : BeginDelete(m, f) \/ BeginPurge(m, f) \/ ClaimCleanup(m, f))
         \/ RemoverStep(m) \/ StopRemover(m)
  PROVE  IInv'
<1>1. TypeOK' /\ Evolves
  BY RemoverTyped DEF IInv
<1>2. /\ UNCHANGED <<urls, confirming, request, scanner, attach, reconciler>>
      /\ undone \subseteq undone' /\ abandoned \subseteq abandoned'
  BY DEF BeginDelete, BeginPurge, ClaimCleanup, RemoverStep, MarkDeleted, RemoveQuarantine,
     RemoveCandidates, HardDelete, StopRemover, history
<1>3. Shrinks
  BY <1>2 DEF Shrinks, Forsaken
<1>4. Replaced'
  BY <1>1, <1>2, ReplacedKept DEF IInv, Evolves
<1>5. \A f \in Files : Silent(f)
  <2>1. quarantine' = quarantine \/ quarantine' = [quarantine EXCEPT ![remover[m].file] = None]
    BY DEF BeginDelete, BeginPurge, ClaimCleanup, RemoverStep, MarkDeleted, RemoveQuarantine,
       RemoveCandidates, HardDelete, StopRemover, bucket
  <2> QED BY <1>2, <2>1 DEF Silent, IInv, TypeOK
<1>6. Rows' /\ Reserving'
  BY <1>1, <1>2, <1>5, RowsAndRequests
<1>7. \A f \in Files : Removed(f)
  <2>1. CASE RemoveCandidates(m)
    <3>1. PICK kept :
            candidate' = [candidate EXCEPT ![remover[m].file] =
              [t \in Tokens |-> IF t \in (1..remover[m].upto) \ kept THEN None
                                ELSE candidate[remover[m].file][t]]]
      BY <2>1 DEF RemoveCandidates, IInv, TypeOK
    <3>2. /\ remover[m].file \in Files
          /\ ~Live(remover[m].file) \/ remover[m].file \in undone
      BY <2>1 DEF RemoveCandidates, IInv, Removals, Removing
    <3>3. PICK f \in Files : f = remover[m].file /\ (~Live(f) \/ f \in undone)
      BY <3>2
    <3> DEFINE S == (1..remover[m].upto) \ kept
    <3>4. candidate' = [candidate EXCEPT ![f] =
                          [t \in Tokens |-> IF t \in S THEN None ELSE candidate[f][t]]]
      BY <3>1, <3>3
    <3> HIDE DEF S
    <3>5. /\ \A t \in Tokens : candidate'[f][t] = candidate[f][t] \/ candidate'[f][t] = None
          /\ \A g \in Files \ {f} : candidate'[g] = candidate[g]
      BY <3>4, ClearedTyped DEF IInv
    <3> QED BY <3>3, <3>5 DEF Removed
  <2>2. CASE ~RemoveCandidates(m)
    <3>1. candidate' = candidate
      BY <2>2 DEF BeginDelete, BeginPurge, ClaimCleanup, RemoverStep, MarkDeleted, RemoveQuarantine,
         HardDelete, StopRemover, bucket
    <3> QED BY <3>1 DEF Removed
  <2> QED BY <2>1, <2>2
<1>8. /\ Claims' /\ Scans' /\ Accounted' /\ ServedIsClean'
      /\ \A z \in Removers : remover'[z] = remover[z] => Removing(z)'
      /\ Reconciling'
  BY <1>1, <1>2, <1>3, <1>7, OutsideKept DEF Reconciling
<1>9. \A z \in Removers \ {m} : remover'[z] = remover[z]
  BY DEF BeginDelete, BeginPurge, ClaimCleanup, RemoverStep, MarkDeleted, RemoveQuarantine,
     RemoveCandidates, HardDelete, StopRemover, IInv, TypeOK
<1>10. Removing(m)'
  <2>0. remover[m] \in RemoverType /\ Removing(m)
    BY DEF IInv, TypeOK, Removals
  <2>7. ASSUME NEW f \in Files, Live(f)
        PROVE  row[f].status # "absent" /\ row[f].active <= row[f].attempts
    BY <2>7 DEF IInv, Rows, Live, Exists, Statuses
  <2>1. CASE \E f \in Files : BeginDelete(m, f)
    <3>1. PICK f \in Files : BeginDelete(m, f)
      BY <2>1
    <3>2. remover'[m] = Deletion(f, "mark", FALSE, FALSE) /\ row' = row
      BY <3>1 DEF BeginDelete, IInv, TypeOK
    <3>3. /\ remover'[m].pc = "mark" /\ remover'[m].file = f
          /\ ~remover'[m].last /\ ~remover'[m].purge
      BY <3>2 DEF Deletion
    <3>4. row[f].status # "absent"
      BY <2>7, <3>1 DEF BeginDelete
    <3> QED BY <3>2, <3>3, <3>4 DEF Removing
  <2>8. CASE \E f \in Files : BeginPurge(m, f)
    <3>1. PICK f \in Files : BeginPurge(m, f)
      BY <2>8
    <3>2. remover'[m] = Deletion(f, "quarantine", TRUE, TRUE) /\ row' = row /\ f \in undone'
      BY <3>1 DEF BeginPurge, IInv, TypeOK
    <3>3. /\ remover'[m].pc = "quarantine" /\ remover'[m].file = f /\ remover'[m].purge
          /\ remover'[m].upto = row[f].attempts /\ remover'[m].active = row[f].active
      BY <3>2 DEF Deletion
    <3>4. row[f].status # "absent" /\ row[f].active <= row[f].attempts
      BY <2>7, <3>1 DEF BeginPurge
    <3> QED BY <3>2, <3>3, <3>4 DEF Removing
  <2>2. CASE \E f \in Files : ClaimCleanup(m, f)
    <3>1. PICK f \in Files : ClaimCleanup(m, f)
      BY <2>2
    <3>6. remover'[m] = Deletion(f, "quarantine", TRUE, FALSE)
      BY <3>1 DEF ClaimCleanup, IInv, TypeOK
    <3>2. /\ remover'[m].pc = "quarantine" /\ remover'[m].file = f
          /\ remover'[m].upto = row[f].attempts /\ ~remover'[m].purge
      BY <3>6 DEF Deletion
    <3>3. row[f].status # "absent" /\ row' = [row EXCEPT ![f].deleted = TRUE]
      BY <3>1 DEF ClaimCleanup, Cleanable, Exists, Statuses
    <3>4. ~Live(f)' /\ row'[f].attempts = row[f].attempts /\ Grows(f)
      BY <3>3, DeletedEvolves DEF IInv, Evolves
    <3>5. row'[f].status # "absent"
      BY <3>3, <3>4 DEF Grows
    <3> QED BY <3>2, <3>4, <3>5 DEF Removing, Live, Exists
  <2>3. CASE MarkDeleted(m)
    <3>1. CASE Live(remover[m].file)
      <4>0. remover[m].file \in Files /\ row[remover[m].file].status # "absent"
            /\ ~remover[m].last /\ ~remover[m].purge
        BY <2>0, <2>3 DEF MarkDeleted, Removing
      <4>1. PICK f \in Files : f = remover[m].file /\ row[f].status # "absent"
        BY <4>0
      <4>2. row' = [row EXCEPT ![f].deleted = TRUE]
        BY <2>3, <3>1, <4>1 DEF MarkDeleted
      <4>3. ~Live(f)' /\ Grows(f)
        BY <4>1, <4>2, DeletedEvolves DEF IInv, Evolves
      <4>4. row'[f].status # "absent"
        BY <4>1, <4>3 DEF Grows
      <4>5. remover'[m] = [remover[m] EXCEPT !.pc = "quarantine"]
        BY <2>3, <3>1 DEF MarkDeleted, IInv, TypeOK
      <4>6. /\ remover'[m].pc = "quarantine" /\ remover'[m].file = f
            /\ remover'[m].last = remover[m].last /\ remover'[m].purge = remover[m].purge
        BY <2>0, <4>1, <4>5 DEF RemoverType
      <4> QED BY <4>0, <4>3, <4>4, <4>6 DEF Removing, Live, Exists
    <3>2. CASE ~Live(remover[m].file)
      <4>1. remover'[m].pc = "idle"
        BY <2>3, <3>2, IdleTypes DEF MarkDeleted, IInv, TypeOK
      <4> QED BY <4>1 DEF Removing
    <3> QED BY <3>1, <3>2
  <2>4. CASE RemoveQuarantine(m)
    <3>1. PICK b \in BOOLEAN : (b => remover[m].last)
                               /\ remover'[m] = [remover[m] EXCEPT !.pc = "candidates", !.last = b]
      <4>1. PICK kept \in SUBSET {remover[m].file} :
            remover' = [remover EXCEPT ![m].pc = "candidates", ![m].last = @ /\ kept = {}]
        BY <2>4 DEF RemoveQuarantine
      <4> DEFINE b == remover[m].last /\ kept = {}
      <4>2. remover'[m] = [remover[m] EXCEPT !.pc = "candidates", !.last = b]
        BY <4>1 DEF IInv, TypeOK
      <4> QED BY <4>2
    <3>2. /\ remover'[m].pc = "candidates" /\ remover'[m].file = remover[m].file
          /\ remover'[m].upto = remover[m].upto /\ remover'[m].last = b
          /\ remover'[m].purge = remover[m].purge /\ remover'[m].active = remover[m].active
      BY <2>0, <3>1 DEF RemoverType
    <3>3. row' = row /\ undone' = undone /\ remover[m].pc = "quarantine"
      BY <2>4 DEF RemoveQuarantine
    <3> QED BY <2>0, <3>1, <3>2, <3>3 DEF Removing, Live, Exists
  <2>5. CASE RemoveCandidates(m)
    <3>1. PICK kept :
            /\ candidate' = [candidate EXCEPT ![remover[m].file] =
                 [t \in Tokens |-> IF t \in (1..remover[m].upto) \ kept THEN None
                                   ELSE candidate[remover[m].file][t]]]
            /\ remover' = [remover EXCEPT ![m] =
                             IF remover[m].last /\ kept = {} THEN [remover[m] EXCEPT !.pc = "row"]
                             ELSE IdleRemover]
      BY <2>5 DEF RemoveCandidates, IInv, TypeOK
    <3>2. CASE remover[m].last /\ kept = {}
      <4>1. remover'[m] = [remover[m] EXCEPT !.pc = "row"]
        BY <3>1, <3>2 DEF IInv, TypeOK
      <4>2. /\ remover'[m].pc = "row" /\ remover'[m].file = remover[m].file
            /\ remover'[m].upto = remover[m].upto /\ remover'[m].last = remover[m].last
            /\ remover'[m].purge = remover[m].purge /\ remover'[m].active = remover[m].active
        BY <2>0, <4>1 DEF RemoverType
      <4>3. row' = row /\ undone' = undone /\ remover[m].pc = "candidates"
        BY <2>5 DEF RemoveCandidates
      <4>4. remover[m].file \in Files
        BY <2>0, <4>3 DEF Removing
      <4>5. PICK f \in Files : f = remover[m].file
        BY <4>4
      <4> DEFINE S == 1..remover[m].upto
      <4>6. candidate' = [candidate EXCEPT ![f] =
                          [t \in Tokens |-> IF t \in S THEN None ELSE candidate[f][t]]]
        BY <3>1, <3>2, <4>5
      <4>7. ASSUME NEW t \in Tokens, candidate'[f][t] # None
            PROVE  \/ Owned(f, t)
                   \/ remover[m].purge /\ Exists(f) /\ t = row[f].active /\ t # remover[m].active
        <5>1. candidate[f][t] # None /\ t \notin S
          <6> HIDE DEF S
          <6> QED BY <4>6, <4>7, ClearedTyped DEF IInv
        <5>2. t \in Nat \ {0} /\ remover[m].upto \in Nat /\ remover[m].active \in Nat
              /\ row[f].active \in Nat /\ row[f].attempts \in Nat
          BY <2>0, FieldTypes, ConstantsAssumption
          DEF RemoverType, IInv, TypeOK, ConstantsAssumption, Tokens
        <5>3. ~(t <= remover[m].upto)
          BY <5>1, <5>2
        <5>4. CASE Owned(f, t)
          BY <5>4
        <5>5. CASE ~Owned(f, t)
          <6>1. Exists(f) /\ t = row[f].active /\ t <= row[f].attempts
            BY <5>1, <5>5 DEF IInv, Accounted, Rows
          <6>2. remover[m].purge
            BY <2>0, <3>2, <4>3, <4>5, <5>2, <5>3, <6>1 DEF Removing
          <6>3. remover[m].active <= remover[m].upto
            BY <2>0, <4>3, <6>2 DEF Removing
          <6> QED BY <5>2, <5>3, <6>1, <6>2, <6>3
        <5> QED BY <5>4, <5>5
      <4>8. \A t \in Tokens : Owned(f, t) => Owned(f, t)'
        BY <1>2 DEF Owned, At
      <4> QED BY <2>0, <3>2, <4>2, <4>3, <4>5, <4>7, <4>8 DEF Removing, Live, Exists, Owned, At, Tokens
    <3>3. CASE ~(remover[m].last /\ kept = {})
      <4>1. remover'[m].pc = "idle"
        BY <3>1, <3>3, IdleTypes DEF IInv, TypeOK
      <4> QED BY <4>1 DEF Removing
    <3> QED BY <3>2, <3>3
  <2>6. CASE HardDelete(m) \/ StopRemover(m)
    <3>1. remover'[m].pc = "idle"
      BY <2>6, IdleTypes DEF HardDelete, StopRemover, IInv, TypeOK
    <3> QED BY <3>1 DEF Removing
  <2> QED BY <2>1, <2>2, <2>3, <2>4, <2>5, <2>6, <2>8 DEF RemoverStep
<1>11. Removals'
  BY <1>8, <1>9, <1>10 DEF Removals
<1> QED BY <1>1, <1>4, <1>6, <1>8, <1>11 DEF IInv

\* Attachments keep the invariant.
LEMMA AttachSafe ==
  ASSUME IInv, NEW a \in Attachers,
         (\E f \in Files, link \in {"loose", "slot"} : BeginAttach(a, f, link)) \/ AttachStep(a)
         \/ AbortAttach(a)
  PROVE  IInv'
<1> DEFINE old == attach[a].old
<1>1. TypeOK' /\ Evolves
  BY AttachTyped DEF IInv
<1>2. UNCHANGED <<urls, confirming, request, scanner, remover, reconciler, abandoned>>
  BY DEF BeginAttach, AttachStep, EraseOccupants, LinkFile, AbortAttach, history
<1>3. \A b \in Attachers \ {a} : attach'[b] = attach[b]
  BY DEF BeginAttach, AttachStep, EraseOccupants, LinkFile, AbortAttach, IInv, TypeOK
<1>4. \A f \in Files : Silent(f)
  <2>1. quarantine' = quarantine
        \/ quarantine' = [g \in Files |-> IF g \in old THEN None ELSE quarantine[g]]
    BY DEF BeginAttach, AttachStep, EraseOccupants, LinkFile, AbortAttach, bucket
  <2> QED BY <1>2, <2>1 DEF Silent
<1>5. Rows' /\ Reserving'
  BY <1>1, <1>2, <1>4, RowsAndRequests
<1>8. undone \subseteq undone'
  BY DEF BeginAttach, AttachStep, EraseOccupants, LinkFile, AbortAttach, history
<1>6. Replaced' /\ Shrinks /\ \A f \in Files : Removed(f)
  <2>0. attach[a] \in AttachType /\ old \subseteq Files /\ \A g \in old : Settled(g)
    BY DEF IInv, TypeOK, AttachType, Replaced
  <2>1. CASE \E f \in Files, link \in {"loose", "slot"} : BeginAttach(a, f, link)
    <3>1. PICK f \in Files, gone \in SUBSET Files :
            /\ gone \subseteq Occupants
            /\ attach'[a].old = gone /\ attach'[a].file = f /\ attach'[a].pc # "idle"
      <4>1. PICK f \in Files, link \in {"loose", "slot"} : BeginAttach(a, f, link)
        BY <2>1
      <4> DEFINE gone == IF link = "slot" THEN Occupants ELSE {}
      <4>2. gone \in SUBSET Files /\ gone \subseteq Occupants
        BY DEF Occupants
      <4>3. attach'[a] = [pc |-> IF gone = {} THEN "link" ELSE "erase", file |-> f, link |-> link,
                          old |-> gone]
        BY <4>1 DEF BeginAttach, IInv, TypeOK
      <4> HIDE DEF gone
      <4> QED BY <4>2, <4>3
    <3>2. attach[a].pc = "idle" /\ row' = row /\ candidate' = candidate /\ undone' = undone
      BY <2>1 DEF BeginAttach, bucket, history
    <3>3. old = {}
      BY <3>2 DEF IInv, Replaced
    <3>4. \A g \in Occupants : g \in Files /\ Settled(g)
      BY DEF Occupants, IInv, Rows
    <3>5. Replaced'
      BY <1>3, <3>1, <3>2, <3>4 DEF Replaced, IInv, Settled
    <3>6. Forsaken \subseteq Forsaken'
      BY <1>3, <3>2, <3>3 DEF Forsaken
    <3> QED BY <3>2, <3>5, <3>6 DEF Shrinks, Removed
  <2>2. CASE EraseOccupants(a)
    <3>1. attach'[a].old = old /\ attach'[a].file = attach[a].file /\ attach'[a].pc = "link"
          /\ attach[a].pc = "erase" /\ undone' = undone
      BY <2>0, <2>2 DEF EraseOccupants, IInv, TypeOK, AttachType, history
    <3>2. Replaced'
      BY <1>1, <1>3, <3>1, ReplacedKept DEF IInv, Evolves
    <3>3. Forsaken' = Forsaken
      BY <1>3, <3>1 DEF Forsaken
    <3>4. ASSUME NEW f \in Files
          PROVE  Removed(f)
      <4>1. CASE f \in old
        <5>1. f \in Forsaken'
          BY <3>3, <4>1 DEF Forsaken
        <5>2. candidate'[f] = [t \in Tokens |-> None]
          BY <2>2, <4>1 DEF EraseOccupants
        <5> QED BY <2>0, <4>1, <5>1, <5>2 DEF Removed
      <4>2. CASE f \notin old
        <5>1. candidate'[f] = candidate[f]
          BY <2>2, <4>2 DEF EraseOccupants
        <5> QED BY <5>1 DEF Removed
      <4> QED BY <4>1, <4>2
    <3> QED BY <3>2, <3>3, <3>4 DEF Shrinks
  <2>3. CASE LinkFile(a) \/ AbortAttach(a)
    <3>1. attach'[a].pc = "idle" /\ attach'[a].old = {} /\ candidate' = candidate
      BY <2>3, IdleTypes DEF LinkFile, AbortAttach, IInv, TypeOK, bucket
    <3>2. Replaced'
      BY <1>1, <1>3, <3>1, ReplacedKept DEF IInv, Evolves
    <3>3. \A f \in Files : Removed(f)
      BY <3>1 DEF Removed
    <3>4. \/ undone' = undone \union old
          \/ undone' = undone /\ \A g \in old : ~Uploaded(g)'
      <4>1. CASE AbortAttach(a)
        BY <4>1 DEF AbortAttach
      <4>2. CASE LinkFile(a)
        <5>1. CASE Uploaded(attach[a].file) /\ attach[a].file \notin old
          <6>1. ASSUME NEW g \in old
                PROVE  ~Uploaded(g)'
            <7>1. g \in Files /\ g # attach[a].file /\ row[g] \in RowType
              BY <2>0, <5>1, <6>1 DEF IInv, TypeOK
            <7>2. row'[g] = [row[g] EXCEPT !.deleted = TRUE]
              BY <4>2, <5>1, <6>1, <7>1 DEF LinkFile
            <7>3. row'[g].deleted
              BY <7>1, <7>2, DeleteUpdate
            <7> QED BY <7>3 DEF Uploaded, Live
          <6>2. undone' = undone
            BY <4>2, <5>1 DEF LinkFile
          <6> QED BY <6>1, <6>2
        <5>2. CASE ~(Uploaded(attach[a].file) /\ attach[a].file \notin old)
          <6>1. undone' = undone \union old
            BY <4>2, <5>2 DEF LinkFile
          <6> QED BY <6>1
        <5> QED BY <5>1, <5>2
      <4> QED BY <2>3, <4>1, <4>2
    <3>5. Shrinks
      <4>1. SUFFICES ASSUME NEW f \in Forsaken, f \notin Forsaken'
                     PROVE  ~Uploaded(f)'
        BY DEF Shrinks
      <4>2. f \notin undone' /\ \A b \in Attachers : f \notin attach'[b].old
        BY <4>1 DEF Forsaken
      <4>3. f \in old
        BY <1>3, <3>4, <4>1, <4>2 DEF Forsaken
      <4> QED BY <3>4, <4>2, <4>3
    <3> QED BY <3>2, <3>3, <3>5
  <2> QED BY <2>1, <2>2, <2>3 DEF AttachStep
<1>7. Claims' /\ Scans' /\ Accounted' /\ ServedIsClean' /\ Removals' /\ Reconciling'
  BY <1>1, <1>2, <1>6, <1>8, OutsideKept DEF Removals, Reconciling
<1> QED BY <1>1, <1>5, <1>6, <1>7 DEF IInv

\* Reconciliations keep the invariant.
LEMMA ReconcilerSafe ==
  ASSUME IInv, NEW k \in Reconcilers,
         (\E f \in Files : ListUploaded(k, f)) \/ LookForObject(k) \/ MarkMissing(k)
  PROVE  IInv'
<1>1. TypeOK' /\ Evolves
  BY ReconcilerTyped DEF IInv
<1>2. UNCHANGED <<quarantine, candidate, urls, confirming, request, scanner, remover, attach, undone,
                  abandoned>>
  BY DEF ListUploaded, LookForObject, MarkMissing, bucket, history
<1>3. Rows' /\ Reserving'
  BY <1>1, <1>2, RowsAndRequests DEF Silent
<1>4. /\ Claims' /\ Scans' /\ Accounted' /\ ServedIsClean' /\ Replaced' /\ Removals'
      /\ \A z \in Reconcilers : reconciler'[z] = reconciler[z] => Looking(z)'
  BY <1>1, <1>2, QuietKept DEF Removals
<1>5. \A z \in Reconcilers \ {k} : reconciler'[z] = reconciler[z]
  BY DEF ListUploaded, LookForObject, MarkMissing, IInv, TypeOK
<1>6. Looking(k)'
  <2>0. reconciler[k] \in ReconcilerType /\ Looking(k)
    BY DEF IInv, TypeOK, Reconciling
  <2>1. CASE \E f \in Files : ListUploaded(k, f)
    <3>1. PICK f \in Files : ListUploaded(k, f)
      BY <2>1
    <3>2. /\ reconciler'[k].pc = "listed" /\ reconciler'[k].file = f
          /\ reconciler'[k].token = row[f].active /\ row' = row /\ row[f].status = "uploaded"
      BY <3>1 DEF ListUploaded, IInv, TypeOK, Uploaded
    <3>3. row[f].active \in Tokens
      <4>1. row[f].active \in 1..row[f].attempts /\ row[f].attempts \in 0..MaxAttempts
        BY <3>2, FieldTypes DEF IInv, Rows, TypeOK
      <4> QED BY <4>1, ConstantsAssumption DEF ConstantsAssumption, Tokens
    <3> QED BY <3>2, <3>3 DEF Looking, Settled, Exists, Tokens
  <2>2. CASE LookForObject(k)
    <3>1. CASE reconciler'[k].pc = "idle"
      BY <3>1 DEF Looking
    <3>2. CASE reconciler'[k].pc # "idle"
      <4>1. /\ candidate[reconciler[k].file][reconciler[k].token] = None
            /\ reconciler'[k] = [reconciler[k] EXCEPT !.pc = "missing"]
            /\ reconciler[k].pc = "listed" /\ row' = row
        BY <2>2, <3>2, IdleTypes DEF LookForObject, IInv, TypeOK
      <4>2. PICK f \in Files : f = reconciler[k].file
        BY <2>0, <4>1 DEF Looking
      <4>3. /\ reconciler'[k].pc = "missing" /\ reconciler'[k].file = f
            /\ reconciler'[k].token = reconciler[k].token
        BY <2>0, <4>1, <4>2 DEF ReconcilerType
      <4>4. Settled(f) /\ reconciler[k].token \in Tokens
            /\ (Exists(f) => row[f].active = reconciler[k].token)
        BY <2>0, <4>1, <4>2 DEF Looking
      <4>5. f \in Forsaken \/ ~Uploaded(f)
        <5>1. SUFFICES ASSUME f \notin Forsaken, Uploaded(f)
                       PROVE  FALSE
          OBVIOUS
        <5>2. candidate[f][row[f].active] \in Clean
          BY <5>1 DEF IInv, ServedIsClean
        <5>3. row[f].active = reconciler[k].token
          BY <4>4, <5>1 DEF Uploaded, Live
        <5> QED BY <4>1, <4>2, <5>2, <5>3, ConstantsAssumption DEF ConstantsAssumption
      <4>6. Forsaken' = Forsaken
        BY <1>2 DEF Forsaken
      <4> QED BY <4>1, <4>3, <4>4, <4>5, <4>6 DEF Looking, Settled, Exists, Live, Uploaded, Tokens
    <3> QED BY <3>1, <3>2
  <2>3. CASE MarkMissing(k)
    <3>1. reconciler'[k].pc = "idle"
      BY <2>3, IdleTypes DEF MarkMissing, IInv, TypeOK
    <3> QED BY <3>1 DEF Looking
  <2> QED BY <2>1, <2>2, <2>3
<1>7. Reconciling'
  BY <1>4, <1>5, <1>6 DEF Reconciling
<1> QED BY <1>1, <1>3, <1>4, <1>7 DEF IInv

\* A scanner's step on its own candidate, or on the earlier ones of a file it has completed.
Touches(s) ==
  \A f \in Files, t \in Tokens :
    \/ candidate'[f][t] = candidate[f][t]
    \/ At(s, f, t) /\ scanner[s].pc \in {"copy", "drop", "refuse"}
    \/ /\ scanner[s].pc = "tidy" /\ f = scanner[s].file /\ t < scanner[s].token
       /\ candidate'[f][t] = None

\* What becomes of a candidate the scanner answers for.
Answers(s) ==
  \A f \in Files, t \in Tokens :
    /\ At(s, f, t) /\ candidate'[f][t] # None
    /\ scanner[s].pc \in {"verify", "complete", "drop", "refuse"} \/ candidate[f][t] = None
    => Owned(f, t)' \/ (Live(f)' /\ ~Settled(f) /\ t = row'[f].active)

Won(s, f) ==
  /\ scanner[s].pc = "complete" /\ Holds(s) /\ f = scanner[s].file
  /\ row'[f].active = scanner[s].token /\ row'[f].attempts = row[f].attempts
  /\ candidate'[f] = candidate[f]

\* What a scanner's step keeps of the parts that are not about that scanner.
LEMMA ScannerKept ==
  ASSUME IInv, TypeOK', NEW s \in Scanners, Touches(s), Answers(s),
         UNCHANGED <<urls, confirming, request, remover, attach, reconciler, undone>>,
         \A z \in Scanners \ {s} : scanner'[z] = scanner[z],
         \A f \in Files : quarantine'[f] \in {quarantine[f], None},
         abandoned \subseteq abandoned',
         \A f \in Files : Grows(f) /\ Explained(f) /\ (NotCompleted(f) \/ Won(s, f))
  PROVE  /\ Rows' /\ Reserving' /\ Replaced' /\ Removals' /\ Reconciling' /\ Accounted'
         /\ ServedIsClean' /\ \A z \in Scanners \ {s} : Scanned(z)'
<1>1. TypeOK /\ Rows /\ Reserving /\ Claims /\ Scans /\ Removals /\ Replaced /\ Reconciling
      /\ Accounted /\ ServedIsClean
  BY DEF IInv
<1>2. \A f \in Files : Grows(f) /\ Explained(f)
  OBVIOUS
<1>3. \A f \in Files : Silent(f)
  BY DEF Silent
<1>4. ASSUME NEW f \in Files, Won(s, f)
      PROVE  /\ row[f].status = "scanning" /\ row'[f].active \in 1..row'[f].attempts
             /\ candidate'[f][row'[f].active] \in Clean \/ f \in undone'
  <2>1. Live(f) /\ row[f].status = "scanning"
    BY <1>4 DEF Won, Holds
  <2>2. scanner[s].token \in Tokens /\ scanner[s].token <= row[f].attempts
    BY <1>1, <1>4, <2>1 DEF Won, Claims, Live
  <2>3. row[f].attempts \in Nat
    BY <1>1, FieldTypes, ConstantsAssumption DEF TypeOK, ConstantsAssumption
  <2>4. scanner[s].token \in 1..row[f].attempts
    BY <2>2, <2>3, ConstantsAssumption DEF Tokens, ConstantsAssumption
  <2>5. candidate[f][scanner[s].token] \in Clean \/ f \in undone
    BY <1>1, <1>4 DEF Won, Scans, Scanned
  <2> QED BY <1>4, <2>1, <2>4, <2>5 DEF Won
<1>5. Rows'
  BY <1>1, <1>2, <1>3, <1>4, RowsKept
<1>6. Reserving'
  BY <1>1, <1>2, <1>3, ReservingKept
<1>7. Replaced'
  BY <1>1, <1>2, ReplacedKept
<1>8. Forsaken' = Forsaken /\ Shrinks
  BY DEF Forsaken, Shrinks
<1>9. Reconciling'
  BY <1>1, <1>2, <1>4, <1>8, LookingKept DEF Reconciling
<1>10. ASSUME NEW f \in Files
       PROVE  Followed(f)
  <2>1. SUFFICES ASSUME NEW t \in Tokens, candidate'[f][t] # None
                 PROVE  \/ Owned(f, t)'
                        \/ Live(f)' /\ ~Settled(f) /\ t = row'[f].active
                        \/ candidate[f][t] # None /\ ~Owned(f, t)
    BY DEF Followed, Owned, At, Live, Exists, Tokens
  <2>2. CASE <<f, t>> \in abandoned
    BY <2>2 DEF Owned
  <2>3. CASE \E z \in Scanners \ {s} : At(z, f, t) /\ scanner[z].pc \in {"verify", "complete", "drop", "refuse"}
    BY <2>3 DEF Owned, At
  <2>4. CASE At(s, f, t) /\ scanner[s].pc \in {"verify", "complete", "drop", "refuse"}
    BY <2>1, <2>4 DEF Answers
  <2>5. CASE candidate[f][t] = None
    BY <2>1, <2>5 DEF Answers, Touches
  <2> QED BY <2>2, <2>3, <2>4, <2>5 DEF Owned
<1>11. Accounted'
  BY <1>1, <1>2, <1>10, AccountedKept
<1>12. Removals'
  BY <1>1, <1>2, <1>10, RemovingKept DEF Removals
<1>13. ASSUME NEW f \in Files
       PROVE  Spared(f)
  <2>1. SUFFICES ASSUME Uploaded(f)
                 PROVE  candidate'[f][row[f].active] = candidate[f][row[f].active]
    BY DEF Spared
  <2>2. row[f].status = "uploaded" /\ row[f].active \in Tokens
    <3>1. row[f].status = "uploaded"
      BY <2>1 DEF Uploaded
    <3>2. row[f].active \in 1..row[f].attempts /\ row[f].attempts \in 0..MaxAttempts
      BY <1>1, <3>1, FieldTypes DEF Rows, TypeOK
    <3> QED BY <3>1, <3>2, ConstantsAssumption DEF ConstantsAssumption, Tokens
  <2>3. ~(At(s, f, row[f].active) /\ scanner[s].pc \in {"copy", "drop", "refuse"})
    BY <1>1, <2>2 DEF At, Scans, Scanned, Exists, Statuses
  <2>4. ~(scanner[s].pc = "tidy" /\ f = scanner[s].file /\ row[f].active < scanner[s].token)
    <3>1. SUFFICES ASSUME scanner[s].pc = "tidy", f = scanner[s].file
                   PROVE  ~(row[f].active < scanner[s].token)
      OBVIOUS
    <3>2. row[f].active = scanner[s].token
      BY <1>1, <2>2, <3>1 DEF Scans, Scanned, Exists, Statuses
    <3>3. row[f].active \in Nat
      BY <2>2, ConstantsAssumption DEF Tokens, ConstantsAssumption
    <3> QED BY <3>2, <3>3
  <2> QED BY <2>2, <2>3, <2>4 DEF Touches
<1>14. ServedIsClean'
  BY <1>1, <1>2, <1>4, <1>8, <1>13, ServedKept
<1>15. ASSUME NEW z \in Scanners \ {s}
       PROVE  Scanned(z)'
  <2>1. \A f \in Files : f = scanner[z].file /\ scanner[z].pc # "idle" =>
           NotCompleted(f) \/ (row[f].status = "scanning" /\ row'[f].active # scanner[z].token)
    <3>1. SUFFICES ASSUME NEW f \in Files, f = scanner[z].file, scanner[z].pc # "idle", Won(s, f)
                   PROVE  row[f].status = "scanning" /\ row'[f].active # scanner[z].token
      OBVIOUS
    <3>2. scanner[z].token # scanner[s].token
      <4>1. scanner[s].pc # "idle" /\ scanner[s].file = scanner[z].file
        BY <3>1 DEF Won
      <4>2. \A x, y \in Scanners : scanner[x].pc # "idle" /\ scanner[y].pc # "idle"
              /\ scanner[x].file = scanner[y].file /\ scanner[x].token = scanner[y].token => x = y
        BY <1>1 DEF Claims
      <4> QED BY <3>1, <4>1, <4>2, <1>15
    <3> QED BY <1>4, <3>1, <3>2 DEF Won
  <2>2. scanner[z].pc = "complete" /\ Holds(z) /\ Holds(z)' =>
           candidate'[scanner[z].file][scanner[z].token]
             = candidate[scanner[z].file][scanner[z].token]
    <3>1. SUFFICES ASSUME scanner[z].pc = "complete", Holds(z)
                   PROVE  candidate'[scanner[z].file][scanner[z].token]
                            = candidate[scanner[z].file][scanner[z].token]
      OBVIOUS
    <3>2. PICK f \in Files, t \in Tokens : f = scanner[z].file /\ t = scanner[z].token
      BY <1>1, <3>1 DEF Claims
    <3>3. ~At(s, f, t)
      BY <1>1, <3>1, <3>2 DEF At, Claims
    <3>4. ~(scanner[s].pc = "tidy" /\ f = scanner[s].file)
      BY <1>1, <3>1, <3>2 DEF Holds, Scans, Scanned, Settled
    <3> QED BY <3>2, <3>3, <3>4 DEF Touches
  <2>3. CASE scanner[z].pc = "idle"
    BY <2>3 DEF Scanned
  <2>4. CASE scanner[z].pc # "idle"
    BY <1>1, <1>2, <2>1, <2>2, <2>4, ScannedKept DEF Scans
  <2> QED BY <2>3, <2>4
<1> QED BY <1>5, <1>6, <1>7, <1>9, <1>11, <1>12, <1>14, <1>15

\* A scanner that only goes on: Asked, RenewLease, RetryScan, RejectScan and DropQuarantine.
LEMMA GoneOn ==
  ASSUME IInv, TypeOK', Evolves, NEW s \in Scanners, scanner[s].pc # "idle", NEW pc \in ScannerPcs,
         Goes(s, pc), candidate' = candidate, abandoned' = abandoned,
         UNCHANGED <<urls, confirming, request, remover, attach, reconciler, undone>>,
         \A f \in Files : quarantine'[f] \in {quarantine[f], None},
         scanner[s].pc \in {"verify", "complete", "drop", "refuse"}
           => pc \in {"complete", "refuse", "drop"},
         pc \in {"extend", "copy", "verify", "complete"} => scanner[s].source \in Clean,
         pc = "complete" => scanner[s].pc = "verify"
           /\ candidate[scanner[s].file][scanner[s].token] = scanner[s].source,
         pc \notin {"idle", "sweep", "tidy"} => scanner[s].pc \notin {"sweep", "tidy"},
         pc \in {"sweep", "tidy"} => scanner[s].pc \in {"sweep", "tidy"}
  PROVE  IInv'
<1>1. /\ scanner' \in [Scanners -> ScannerType]
      /\ \A z \in Scanners \ {s} : scanner'[z] = scanner[z]
      /\ scanner'[s].pc = pc
      /\ pc # "idle" => /\ scanner'[s].file = scanner[s].file
                        /\ scanner'[s].token = scanner[s].token
                        /\ scanner'[s].source = scanner[s].source
  BY GoesFacts DEF IInv
<1>2. \A f \in Files : Grows(f) /\ Explained(f) /\ NotCompleted(f)
  BY DEF Evolves
<1>3. \A z \in Scanners : Proceeds(z)
  BY <1>1 DEF Proceeds
<1>4. Claims'
  BY <1>2, <1>3, ClaimsKept DEF IInv
<1>5. Touches(s)
  BY DEF Touches
<1>6. Answers(s)
  BY <1>1 DEF Answers, Owned, At
<1>7. /\ Rows' /\ Reserving' /\ Replaced' /\ Removals' /\ Reconciling' /\ Accounted'
      /\ ServedIsClean' /\ \A z \in Scanners \ {s} : Scanned(z)'
  BY <1>1, <1>2, <1>5, <1>6, ScannerKept
<1>8. Scanned(s)'
  <2>1. CASE pc = "idle"
    BY <1>1, <2>1 DEF Scanned
  <2>2. CASE pc # "idle"
    <3>1. PICK f \in Files : f = scanner[s].file /\ row[f].status # "absent"
      BY DEF IInv, Claims
    <3>2. Scanned(s) /\ Grows(f) /\ NotCompleted(f)
      BY <1>2 DEF IInv, Scans
    <3>3. pc \in {"sweep", "tidy"} =>
            Settled(f)' /\ (row'[f].status \in Statuses => row'[f].active = scanner[s].token)
      BY <3>1, <3>2 DEF Scanned, Settled, Exists, Grows
    <3>4. pc \notin {"idle", "sweep", "tidy"} /\ row'[f].status \in Statuses
            => scanner[s].token # row'[f].active
      BY <3>1, <3>2, NotActive DEF IInv
    <3>5. scanner'[s].file = f /\ scanner'[s].token = scanner[s].token
          /\ scanner'[s].source = scanner[s].source /\ scanner'[s].pc = pc
      BY <1>1, <2>2, <3>1
    <3>6. pc = "complete" => candidate'[f][scanner[s].token] = scanner[s].source
      BY <3>1
    <3> QED BY <3>3, <3>4, <3>5, <3>6 DEF Scanned, Settled, Exists
  <2> QED BY <2>1, <2>2
<1>9. Scans'
  BY <1>7, <1>8 DEF Scans
<1> QED BY <1>4, <1>7, <1>9 DEF IInv

\* What a scanner reads of the source, of the scan and of its candidate keeps the invariant.
LEMMA AskedSafe ==
  ASSUME IInv, NEW s \in Scanners, ReadSource(s) \/ ScanSource(s) \/ VerifyCandidate(s)
  PROVE  IInv'
<1>1. TypeOK' /\ Evolves
  BY AskedTyped DEF IInv
<1>2. /\ UNCHANGED <<urls, confirming, request, remover, attach, reconciler, undone>>
      /\ candidate' = candidate /\ quarantine' = quarantine /\ abandoned' = abandoned
  BY DEF ReadSource, ScanSource, VerifyCandidate, Asked, bucket, history
<1>3. CASE ReadSource(s)
  <2>1. PICK pc \in {"retry", "renew", "reject"} : Goes(s, pc) /\ scanner[s].pc = "read"
    BY <1>3 DEF ReadSource, Asked
  <2> QED BY <1>1, <1>2, <2>1, GoneOn DEF ScannerPcs
<1>4. CASE ScanSource(s)
  <2>1. PICK pc \in {"retry", "extend", "reject"} :
          Goes(s, pc) /\ scanner[s].pc = "scan" /\ (pc = "extend" => scanner[s].source \in Clean)
    BY <1>4 DEF ScanSource, Asked
  <2> QED BY <1>1, <1>2, <2>1, GoneOn DEF ScannerPcs
<1>5. CASE VerifyCandidate(s)
  <2>1. PICK pc \in {"complete", "refuse"} :
          Goes(s, pc) /\ scanner[s].pc = "verify"
          /\ (pc = "complete" =>
                candidate[scanner[s].file][scanner[s].token] = scanner[s].source)
    BY <1>5 DEF VerifyCandidate, Asked
  <2>2. scanner[s].source \in Clean
    BY <2>1 DEF IInv, Scans, Scanned
  <2> QED BY <1>1, <1>2, <2>1, <2>2, GoneOn DEF ScannerPcs
<1> QED BY <1>3, <1>4, <1>5

\* A scanner's fenced writes, and the removal of the quarantined object, keep the invariant.
LEMMA FencedSafe ==
  ASSUME IInv, NEW s \in Scanners,
         RenewLease(s) \/ RetryScan(s) \/ RejectScan(s) \/ DropQuarantine(s)
  PROVE  IInv'
<1>1. TypeOK' /\ Evolves
  BY RenewTyped, GiveUpTyped, CopyTyped DEF IInv
<1>2. /\ UNCHANGED <<urls, confirming, request, remover, attach, reconciler, undone>>
      /\ candidate' = candidate /\ abandoned' = abandoned
      /\ quarantine' = quarantine \/ quarantine' = [quarantine EXCEPT ![scanner[s].file] = None]
  BY DEF RenewLease, RetryScan, RejectScan, DropQuarantine, bucket, history
<1>3. \A f \in Files : quarantine'[f] \in {quarantine[f], None}
  BY <1>2 DEF IInv, TypeOK
<1>4. Scanned(s)
  BY DEF IInv, Scans
<1>5. PICK pc \in {"idle", "scan", "copy", "purge", "tidy"} :
        /\ Goes(s, pc)
        /\ pc = "scan" => scanner[s].pc = "renew"
        /\ pc = "copy" => scanner[s].pc = "extend"
        /\ pc = "purge" => scanner[s].pc = "reject"
        /\ pc = "tidy" => scanner[s].pc = "sweep"
        /\ scanner[s].pc \notin {"idle", "verify", "complete", "drop", "refuse"}
  BY DEF RenewLease, RetryScan, RejectScan, DropQuarantine
<1>6. pc = "copy" => scanner[s].source \in Clean
  BY <1>4, <1>5 DEF Scanned
<1> QED BY <1>1, <1>2, <1>3, <1>5, <1>6, GoneOn DEF ScannerPcs

\* A scanner's step that may write its own candidate or give up others: Scanned follows from
\* what the scanner knew, as no row is completed.
LEMMA MovedOn ==
  ASSUME IInv, TypeOK', Evolves, NEW s \in Scanners, scanner[s].pc # "idle", NEW pc \in ScannerPcs,
         Goes(s, pc), Touches(s), Answers(s), abandoned \subseteq abandoned',
         UNCHANGED <<urls, confirming, request, remover, attach, reconciler, undone>>,
         quarantine' = quarantine,
         pc = "verify" => scanner[s].source \in Clean,
         pc \notin {"extend", "copy", "complete", "sweep", "tidy"},
         pc = "idle" \/ scanner[s].pc \notin {"sweep", "tidy"}
  PROVE  IInv'
<1>1. /\ scanner' \in [Scanners -> ScannerType]
      /\ \A z \in Scanners \ {s} : scanner'[z] = scanner[z]
      /\ scanner'[s].pc = pc
      /\ pc # "idle" => /\ scanner'[s].file = scanner[s].file
                        /\ scanner'[s].token = scanner[s].token
                        /\ scanner'[s].source = scanner[s].source
  BY GoesFacts DEF IInv
<1>2. \A f \in Files : Grows(f) /\ Explained(f) /\ NotCompleted(f)
  BY DEF Evolves
<1>3. \A z \in Scanners : Proceeds(z)
  BY <1>1 DEF Proceeds
<1>4. Claims'
  BY <1>2, <1>3, ClaimsKept DEF IInv
<1>5. /\ Rows' /\ Reserving' /\ Replaced' /\ Removals' /\ Reconciling' /\ Accounted'
      /\ ServedIsClean' /\ \A z \in Scanners \ {s} : Scanned(z)'
  BY <1>1, <1>2, ScannerKept
<1>6. Scanned(s)'
  <2>1. CASE pc = "idle"
    BY <1>1, <2>1 DEF Scanned
  <2>2. CASE pc # "idle"
    <3>1. PICK f \in Files : f = scanner[s].file /\ row[f].status # "absent"
      BY DEF IInv, Claims
    <3>2. Scanned(s) /\ Grows(f) /\ NotCompleted(f)
      BY <1>2 DEF IInv, Scans
    <3>3. row'[f].status \in Statuses => scanner[s].token # row'[f].active
      BY <2>2, <3>1, <3>2, NotActive DEF IInv
    <3>4. scanner'[s].file = f /\ scanner'[s].token = scanner[s].token
          /\ scanner'[s].source = scanner[s].source /\ scanner'[s].pc = pc
      BY <1>1, <2>2, <3>1
    <3> QED BY <3>3, <3>4 DEF Scanned, Exists
  <2> QED BY <2>1, <2>2
<1>7. Scans'
  BY <1>5, <1>6 DEF Scans
<1> QED BY <1>4, <1>5, <1>7 DEF IInv

\* Writing one candidate touches no other.
LEMMA TouchesOne ==
  ASSUME TypeOK, NEW s \in Scanners, scanner[s].pc \in {"copy", "drop", "refuse"},
         NEW f \in Files, NEW t \in Tokens, f = scanner[s].file, t = scanner[s].token,
         NEW c \in Contents \union {None}, Puts(f, t, c)
  PROVE  Touches(s) /\ candidate'[f][t] = c
<1>1. /\ candidate'[f][t] = c
      /\ \A g \in Files, u \in Tokens : <<g, u>> # <<f, t>> => candidate'[g][u] = candidate[g][u]
  BY CandidateTyped
<1>2. ASSUME NEW g \in Files, NEW u \in Tokens
      PROVE  candidate'[g][u] = candidate[g][u] \/ At(s, g, u)
  <2>1. CASE g = f /\ u = t
    BY <2>1 DEF At
  <2>2. CASE ~(g = f /\ u = t)
    BY <1>1, <2>2
  <2> QED BY <2>1, <2>2
<1> QED BY <1>1, <1>2 DEF Touches

\* A scanner's work on its candidate keeps the invariant.
LEMMA CopySafe ==
  ASSUME IInv, NEW s \in Scanners,
         CopyToCandidate(s) \/ BucketFails(s) \/ DropCandidate(s)
  PROVE  IInv'
<1>1. TypeOK' /\ Evolves
  BY CopyTyped DEF IInv
<1>2. UNCHANGED <<urls, confirming, request, remover, attach, reconciler, undone>>
      /\ quarantine' = quarantine /\ abandoned \subseteq abandoned'
  BY DEF CopyToCandidate, BucketFails, DropCandidate, history
<1>3. scanner[s].pc # "idle" /\ Scanned(s)
  BY DEF CopyToCandidate, BucketFails, DropCandidate, IInv, Scans
<1>4. PICK f \in Files, t \in Tokens : f = scanner[s].file /\ t = scanner[s].token
  BY <1>3 DEF IInv, Claims
<1>5. quarantine[f] \in Contents \union {None} /\ None \in Contents \union {None}
  BY DEF IInv, TypeOK
<1>6. CASE CopyToCandidate(s)
  <2>1. PICK pc \in {"verify", "retry"} :
          /\ Goes(s, pc) /\ scanner[s].pc = "copy"
          /\ \/ Puts(f, t, quarantine[f])
             \/ pc = "retry" /\ candidate' = candidate
    BY <1>4, <1>6 DEF CopyToCandidate, Puts
  <2>2. Touches(s)
    <3>1. CASE candidate' = candidate
      BY <3>1 DEF Touches
    <3>2. CASE Puts(f, t, quarantine[f])
      BY <1>4, <1>5, <2>1, <3>2, TouchesOne DEF IInv
    <3> QED BY <2>1, <3>1, <3>2
  <2>3. scanner'[s].pc = pc /\ scanner'[s].file = f /\ scanner'[s].token = t
    BY <1>4, <2>1, GoesFacts DEF IInv, ScannerPcs
  <2>4. Answers(s)
    <3>1. CASE pc = "verify"
      BY <1>4, <2>3, <3>1 DEF Answers, Owned, At
    <3>2. CASE pc = "retry"
      <4>1. candidate' = candidate
        BY <1>4, <1>6, <2>3, <3>2, GoesFacts DEF CopyToCandidate, IInv, ScannerPcs
      <4> QED BY <2>1, <4>1 DEF Answers
    <3> QED BY <3>1, <3>2
  <2>5. scanner[s].source \in Clean
    BY <1>3, <2>1 DEF Scanned
  <2> QED BY <1>1, <1>2, <1>3, <2>1, <2>2, <2>4, <2>5, MovedOn DEF ScannerPcs
<1>7. CASE BucketFails(s)
  <2>1. PICK pc \in {"refuse", "retry"} :
          /\ Goes(s, pc) /\ scanner[s].pc \in {"read", "scan", "copy", "verify"}
          /\ scanner[s].pc = "verify" => pc = "refuse"
    BY <1>7 DEF BucketFails
  <2>2. \/ candidate' = candidate
        \/ /\ scanner[s].pc = "copy" /\ <<f, t>> \in abandoned'
           /\ Puts(f, t, quarantine[f])
    BY <1>4, <1>7 DEF BucketFails, Puts
  <2>3. Touches(s)
    <3>1. CASE candidate' = candidate
      BY <3>1 DEF Touches
    <3>2. CASE scanner[s].pc = "copy" /\ Puts(f, t, quarantine[f])
      BY <1>4, <1>5, <3>2, TouchesOne DEF IInv
    <3> QED BY <2>2, <3>1, <3>2
  <2>4. scanner'[s].pc = pc /\ scanner'[s].file = f /\ scanner'[s].token = t
    BY <1>4, <2>1, GoesFacts DEF IInv, ScannerPcs
  <2>5. Answers(s)
    BY <1>4, <2>1, <2>2, <2>4 DEF Answers, Owned, At
  <2> QED BY <1>1, <1>2, <1>3, <2>1, <2>3, <2>5, MovedOn DEF ScannerPcs
<1>8. CASE DropCandidate(s)
  <2>1. PICK pc \in {"idle", "deny"} : Goes(s, pc) /\ scanner[s].pc \in {"drop", "refuse"}
    BY <1>8 DEF DropCandidate
  <2>2. \/ candidate' = candidate /\ <<f, t>> \in abandoned'
        \/ Puts(f, t, None)
    BY <1>4, <1>8 DEF DropCandidate, Puts
  <2>3. CASE candidate' = candidate /\ <<f, t>> \in abandoned'
    <3>1. Touches(s)
      BY <2>3 DEF Touches
    <3>2. Answers(s)
      BY <1>4, <2>3 DEF Answers, Owned, At
    <3> QED BY <1>1, <1>2, <1>3, <2>1, <3>1, <3>2, MovedOn DEF ScannerPcs
  <2>4. CASE Puts(f, t, None)
    <3>1. Touches(s) /\ candidate'[f][t] = None
      BY <1>4, <1>5, <2>1, <2>4, TouchesOne DEF IInv
    <3>2. Answers(s)
      BY <1>4, <3>1 DEF Answers, At
    <3> QED BY <1>1, <1>2, <1>3, <2>1, <3>1, <3>2, MovedOn DEF ScannerPcs
  <2> QED BY <2>2, <2>3, <2>4
<1> QED BY <1>6, <1>7, <1>8

\* A scanner that ends or stops keeps the invariant.
LEMMA EndSafe ==
  ASSUME IInv, NEW s \in Scanners, DropOtherCandidates(s) \/ StopScanner(s)
  PROVE  IInv'
<1>1. TypeOK' /\ Evolves
  BY CopyTyped, StopScannerTyped DEF IInv
<1>2. /\ UNCHANGED <<urls, confirming, request, remover, attach, reconciler, undone>>
      /\ quarantine' = quarantine /\ abandoned \subseteq abandoned'
      /\ scanner[s].pc # "idle" /\ Goes(s, "idle")
  BY DEF DropOtherCandidates, StopScanner, bucket, history
<1>3. CASE DropOtherCandidates(s)
  <2>0. scanner[s].file \in Files
    BY <1>2 DEF IInv, Claims
  <2>1. PICK f \in Files : f = scanner[s].file
    BY <2>0
  <2> DEFINE others == {u \in Tokens : u < scanner[s].token}
  <2>2. PICK kept \in SUBSET others :
          candidate' = [candidate EXCEPT ![scanner[s].file] =
            [t \in Tokens |-> IF t \in others \ kept THEN None ELSE @[t]]]
    BY <1>3 DEF DropOtherCandidates
  <2> DEFINE S == others \ kept
  <2>3. \A t \in S : t < scanner[s].token
    OBVIOUS
  <2>4. candidate' = [candidate EXCEPT ![f] =
                        [t \in Tokens |-> IF t \in S THEN None ELSE candidate[f][t]]]
    BY <2>1, <2>2 DEF IInv, TypeOK
  <2> HIDE DEF S
  <2>5. /\ \A t \in Tokens : candidate'[f][t] = IF t \in S THEN None ELSE candidate[f][t]
        /\ \A g \in Files \ {f} : candidate'[g] = candidate[g]
    BY <2>4, ClearedTyped DEF IInv
  <2>6. scanner[s].pc = "tidy"
    BY <1>3 DEF DropOtherCandidates
  <2>7. Touches(s)
    BY <2>1, <2>3, <2>5, <2>6 DEF Touches
  <2>8. Answers(s)
    BY <2>1, <2>5, <2>6 DEF Answers, At
  <2> QED BY <1>1, <1>2, <2>7, <2>8, MovedOn DEF ScannerPcs
<1>4. CASE StopScanner(s)
  <2>1. candidate' = candidate /\ <<scanner[s].file, scanner[s].token>> \in abandoned'
    BY <1>4 DEF StopScanner, bucket
  <2>2. Touches(s)
    BY <2>1 DEF Touches
  <2>3. Answers(s)
    BY <2>1 DEF Answers, Owned, At
  <2> QED BY <1>1, <1>2, <2>2, <2>3, MovedOn DEF ScannerPcs
<1> QED BY <1>3, <1>4

\* The completion of a scan keeps the invariant.
LEMMA CompleteSafe ==
  ASSUME IInv, NEW s \in Scanners, CompleteScan(s)
  PROVE  IInv'
<1> DEFINE t == scanner[s].token
<1>1. /\ TypeOK' /\ \A f \in Files : Grows(f) /\ Explained(f)
      /\ ~Holds(s) => Evolves
      /\ \A f \in Files \ {scanner[s].file} : row'[f] = row[f]
      /\ Holds(s) => /\ row'[scanner[s].file].status = "uploaded"
                     /\ row'[scanner[s].file].active = t
                     /\ row'[scanner[s].file].attempts = row[scanner[s].file].attempts
                     /\ ~row'[scanner[s].file].deleted
  BY CompleteTyped DEF IInv
<1>2. /\ UNCHANGED <<urls, confirming, request, remover, attach, reconciler, undone>>
      /\ candidate' = candidate /\ quarantine' = quarantine /\ abandoned' = abandoned
      /\ scanner[s].pc = "complete"
  BY DEF CompleteScan, bucket, history
<1>3. CASE ~Holds(s)
  <2>1. Goes(s, "drop")
    BY <1>3 DEF CompleteScan
  <2> QED BY <1>1, <1>2, <1>3, <2>1, GoneOn DEF ScannerPcs
<1>4. CASE Holds(s)
  <2>1. Goes(s, "sweep")
    BY <1>4 DEF CompleteScan
  <2>2. /\ \A z \in Scanners \ {s} : scanner'[z] = scanner[z]
        /\ scanner'[s].pc = "sweep" /\ scanner'[s].file = scanner[s].file /\ scanner'[s].token = t
    BY <2>1, GoesFacts DEF IInv, ScannerPcs
  <2>3. Claims'
    <3>1. \A z \in Scanners : Proceeds(z)
      BY <1>2, <2>2 DEF Proceeds
    <3> QED BY <1>1, <3>1, ClaimsKept DEF IInv
  <2>4. PICK f \in Files : f = scanner[s].file
    BY <1>2 DEF IInv, Claims
  <2>5. row'[f].status = "uploaded" /\ row'[f].active = t /\ row'[f].attempts = row[f].attempts
    BY <1>1, <1>4, <2>4
  <2>6. Won(s, f)
    BY <1>2, <1>4, <2>4, <2>5 DEF Won
  <2>7. \A g \in Files : NotCompleted(g) \/ Won(s, g)
    BY <1>1, <2>4, <2>6 DEF NotCompleted
  <2>8. Touches(s)
    BY <1>2 DEF Touches
  <2>9. Answers(s)
    <3>1. Live(f)
      BY <1>4, <2>4 DEF Holds
    <3>2. Live(f)'
      BY <1>1, <1>4, <2>4, <2>5, <3>1 DEF Live, Exists, Statuses
    <3>3. ~Settled(f)
      BY <1>4, <2>4 DEF Holds, Settled
    <3> QED BY <2>4, <2>5, <3>2, <3>3 DEF Answers, At
  <2>10. /\ Rows' /\ Reserving' /\ Replaced' /\ Removals' /\ Reconciling' /\ Accounted'
         /\ ServedIsClean' /\ \A z \in Scanners \ {s} : Scanned(z)'
    BY <1>1, <1>2, <2>2, <2>7, <2>8, <2>9, ScannerKept
  <2>11. Scanned(s)'
    BY <2>2, <2>4, <2>5 DEF Scanned, Settled, Exists
  <2>12. Scans'
    BY <2>10, <2>11 DEF Scans
  <2> QED BY <1>1, <2>3, <2>10, <2>12 DEF IInv
<1> QED BY <1>3, <1>4

\* A claim takes a token that no row, scanner or candidate knows.
LEMMA ClaimSafe ==
  ASSUME IInv, NEW s \in Scanners, NEW f \in Files, ClaimUploading(s, f)
  PROVE  IInv'
<1> DEFINE t == row[f].attempts + 1
<1>1. TypeOK' /\ Evolves
  BY ClaimTyped DEF IInv
<1>2. /\ UNCHANGED <<urls, confirming, request, remover, attach, reconciler, undone>>
      /\ candidate' = candidate /\ quarantine' = quarantine /\ abandoned' = abandoned
      /\ scanner[s].pc = "idle"
  BY DEF ClaimUploading, bucket, history
<1>3. \A z \in Scanners \ {s} : scanner'[z] = scanner[z]
  BY DEF ClaimUploading, IInv, TypeOK
<1>4. \A g \in Files : Grows(g) /\ Explained(g) /\ NotCompleted(g)
  BY <1>1 DEF Evolves
<1>5. /\ scanner'[s].pc = "read" /\ scanner'[s].file = f /\ scanner'[s].token = t
      /\ row[f].status \in {"uploading", "scanning"} /\ row[f].attempts < MaxAttempts
  BY DEF ClaimUploading, Claimable, IInv, TypeOK
<1>6. row'[f].status = "scanning" /\ row'[f].attempts = t /\ row'[f].active = row[f].active
  <2>1. row[f] \in RowType /\ t \in 0..MaxAttempts
    BY <1>5, FieldTypes, ConstantsAssumption DEF IInv, TypeOK, ConstantsAssumption
  <2> DEFINE v == ClaimedRow(row[f], t)
  <2>2. v.status = "scanning" /\ v.attempts = t /\ v.active = row[f].active
    BY <2>1, ClaimUpdate
  <2> HIDE DEF v
  <2>3. row'[f] = v
    BY DEF ClaimUploading, IInv, TypeOK, ClaimedRow, v
  <2> QED BY <2>2, <2>3
<1>7. Touches(s) /\ Answers(s)
  BY <1>2 DEF Touches, Answers, At
<1>8. /\ Rows' /\ Reserving' /\ Replaced' /\ Removals' /\ Reconciling' /\ Accounted'
      /\ ServedIsClean' /\ \A z \in Scanners \ {s} : Scanned(z)'
  BY <1>1, <1>2, <1>3, <1>4, <1>7, ScannerKept
<1>9. Scanned(s)'
  <2>1. t # row[f].active
    <3>1. row[f].active \in Nat /\ row[f].attempts \in Nat
      BY FieldTypes, ConstantsAssumption DEF IInv, TypeOK, ConstantsAssumption
    <3>2. row[f].active <= row[f].attempts
      BY <1>5 DEF IInv, Rows, Exists, Statuses
    <3> QED BY <3>1, <3>2
  <2> QED BY <1>5, <1>6, <2>1 DEF Scanned
<1>10. Scans'
  BY <1>8, <1>9 DEF Scans
<1>11. row[f].attempts \in Nat /\ t \in Nat /\ t \in Tokens /\ t <= t /\ ~(t <= row[f].attempts)
  <2>1. row[f].attempts \in Nat
    BY FieldTypes, ConstantsAssumption DEF IInv, TypeOK, ConstantsAssumption
  <2> QED BY <1>5, <2>1, ConstantsAssumption DEF ConstantsAssumption, Tokens
<1>12. ASSUME NEW z \in Scanners \ {s}, scanner[z].pc # "idle"
       PROVE  /\ scanner[z].file \in Files /\ scanner[z].token \in Tokens
              /\ row'[scanner[z].file].status # "absent"
              /\ row'[scanner[z].file].status \in Statuses
                   => scanner[z].token <= row'[scanner[z].file].attempts
              /\ scanner[z].file = f => scanner[z].token # t
  <2>1. PICK g \in Files : g = scanner[z].file
    BY <1>12 DEF IInv, Claims
  <2>2. scanner[z].token \in Tokens /\ row[g].status # "absent"
        /\ (Exists(g) => scanner[z].token <= row[g].attempts)
    BY <1>12, <2>1 DEF IInv, Claims
  <2>3. row[g].attempts \in Nat /\ row'[g].attempts \in Nat /\ scanner[z].token \in Nat
    BY <1>1, <2>2, FieldTypes, ConstantsAssumption DEF IInv, TypeOK, ConstantsAssumption, Tokens
  <2>4. row'[g].status # "absent"
    BY <1>4, <2>2 DEF Grows
  <2>5. row'[g].status \in Statuses => Exists(g) /\ row[g].attempts <= row'[g].attempts
    BY <1>4, <2>2 DEF Grows, Exists
  <2>6. g = f => scanner[z].token # t
    BY <1>5, <1>11, <2>2 DEF Exists, Statuses
  <2> QED BY <2>1, <2>2, <2>3, <2>4, <2>5, <2>6
<1> HIDE DEF t
<1>13. Claims'
  <2>1. ASSUME NEW z \in Scanners, scanner'[z].pc # "idle"
        PROVE  LET g == scanner'[z].file IN
               /\ g \in Files /\ scanner'[z].token \in Tokens
               /\ row'[g].status # "absent"
               /\ row'[g].status \in Statuses => scanner'[z].token <= row'[g].attempts
    <3>1. CASE z = s
      BY <1>5, <1>6, <1>11, <3>1
    <3>2. CASE z # s
      BY <1>3, <1>12, <2>1, <3>2
    <3> QED BY <3>1, <3>2
  <2>2. ASSUME NEW z \in Scanners, NEW y \in Scanners, scanner'[z].pc # "idle",
               scanner'[y].pc # "idle", scanner'[z].file = scanner'[y].file,
               scanner'[z].token = scanner'[y].token
        PROVE  z = y
    <3>1. CASE z # s /\ y # s
      BY <1>3, <2>2, <3>1 DEF IInv, Claims
    <3>2. CASE z = s \/ y = s
      BY <1>3, <1>5, <1>12, <2>2, <3>2
    <3> QED BY <3>1, <3>2
  <2> QED BY <2>1, <2>2 DEF Claims, Exists, Tokens
<1> QED BY <1>1, <1>8, <1>10, <1>13 DEF IInv

-----------------------------------------------------------------------------
(* The theorems *)

\* The invariant holds of the empty table and bucket.
LEMMA InitIInv == Init => IInv
<1> SUFFICES ASSUME Init
             PROVE  IInv
  OBVIOUS
<1>1. NoRow("absent") \in RowType /\ NoRow("absent").status = "absent"
      /\ NoRow("absent").link = "none"
  BY NewRow
<1>2. 0 \in 0..MaxFaults /\ 0 \in 0..MaxAttempts
  BY ConstantsAssumption DEF ConstantsAssumption
<1>3. \A f \in Files : row[f].status = "absent" /\ row[f].link = "none"
  BY <1>1 DEF Init
<1>4. TypeOK
  BY <1>1, <1>2, IdleTypes DEF Init, TypeOK
<1>5. /\ \A r \in Requests : request[r].pc = "idle"
      /\ \A s \in Scanners : scanner[s].pc = "idle"
      /\ \A m \in Removers : remover[m].pc = "idle"
      /\ \A a \in Attachers : attach[a].pc = "idle" /\ attach[a].old = {}
      /\ \A k \in Reconcilers : reconciler[k].pc = "idle"
  BY IdleTypes DEF Init
<1>6. Rows /\ Reserving /\ Claims
  BY <1>3, <1>5 DEF Init, Rows, Reserving, Claims, Exists, Statuses
<1>7. Scans /\ Removals /\ Replaced /\ Reconciling
  BY <1>5 DEF Scans, Scanned, Removals, Removing, Replaced, Reconciling, Looking
<1>8. Accounted /\ ServedIsClean
  BY <1>3 DEF Init, Accounted, ServedIsClean, Uploaded
<1> QED BY <1>4, <1>6, <1>7, <1>8 DEF IInv

\* Every step keeps the invariant.
LEMMA NextIInv == IInv /\ [Next]_vars => IInv'
<1> SUFFICES ASSUME IInv, [Next]_vars
             PROVE  IInv'
  OBVIOUS
<1>1. CASE UNCHANGED vars
  <2>1. UNCHANGED <<row, quarantine, candidate, urls, confirming, request, scanner, remover, attach,
                    reconciler, undone, abandoned, faults>>
    BY <1>1 DEF vars
  <2>2. TypeOK'
    BY <2>1 DEF IInv, TypeOK
  <2>3. Evolves
    BY <2>1, SameRows DEF IInv
  <2>4. Rows' /\ Reserving'
    BY <2>1, <2>2, <2>3, RowsAndRequests DEF Silent
  <2>5. Claims' /\ Scans' /\ Accounted' /\ ServedIsClean' /\ Replaced' /\ Removals' /\ Reconciling'
    BY <2>1, <2>2, <2>3, QuietKept DEF Removals, Reconciling
  <2> QED BY <2>2, <2>4, <2>5 DEF IInv
<1>2. CASE \E f \in Files : FileStep(f)
  <2>1. PICK f \in Files : FileStep(f)
    BY <1>2
  <2>2. CASE \E r \in Requests : BeginUpload(r, f)
    BY <2>2, RequestSafe
  <2>3. CASE (\E c \in Contents : PutObject(f, c)) \/ BeginConfirm(f) \/ MarkUploadReady(f)
             \/ LeaseEnds(f) \/ Age(f)
    BY <2>3, UploadSafe
  <2>4. CASE \E s \in Scanners : ClaimUploading(s, f)
    BY <2>4, ClaimSafe
  <2>5. CASE \E m \in Removers : BeginDelete(m, f) \/ BeginPurge(m, f) \/ ClaimCleanup(m, f)
    BY <2>5, RemoverSafe
  <2>6. CASE \E a \in Attachers, link \in {"loose", "slot"} : BeginAttach(a, f, link)
    BY <2>6, AttachSafe
  <2>7. CASE \E k \in Reconcilers : ListUploaded(k, f)
    BY <2>7, ReconcilerSafe
  <2> QED BY <2>1, <2>2, <2>3, <2>4, <2>5, <2>6, <2>7 DEF FileStep
<1>3. CASE \E r \in Requests : RequestStep(r) \/ EndRequest(r)
  BY <1>3, RequestSafe
<1>4. CASE \E s \in Scanners : ScannerStep(s) \/ StopScanner(s) \/ BucketFails(s)
  BY <1>4, AskedSafe, FencedSafe, CopySafe, EndSafe, CompleteSafe DEF ScannerStep
<1>5. CASE \E m \in Removers : RemoverStep(m) \/ StopRemover(m)
  BY <1>5, RemoverSafe
<1>6. CASE \E a \in Attachers : AttachStep(a) \/ AbortAttach(a)
  BY <1>6, AttachSafe
<1>7. CASE \E k \in Reconcilers : LookForObject(k) \/ MarkMissing(k)
  BY <1>7, ReconcilerSafe
<1> QED BY <1>1, <1>2, <1>3, <1>4, <1>5, <1>6, <1>7 DEF Next, Stops

\* What every step does to a row is explained.
LEMMA NextEvolves ==
  ASSUME IInv, Next
  PROVE  \A f \in Files : Grows(f) /\ Explained(f)
<1>1. TypeOK /\ Rows /\ Reserving /\ Claims /\ Removals /\ Replaced /\ Reconciling
  BY DEF IInv
<1>2. CASE \E f \in Files : FileStep(f)
  BY <1>1, <1>2, RequestTyped, UploadTyped, TimeTyped, ClaimTyped, RemoverTyped, AttachTyped,
     ReconcilerTyped DEF FileStep, Evolves
<1>3. CASE \E r \in Requests : RequestStep(r) \/ EndRequest(r)
  BY <1>1, <1>3, RequestTyped DEF Evolves
<1>4. CASE \E s \in Scanners : ScannerStep(s) \/ StopScanner(s) \/ BucketFails(s)
  BY <1>1, <1>4, AskedTyped, RenewTyped, GiveUpTyped, CopyTyped, StopScannerTyped, CompleteTyped
  DEF ScannerStep, Evolves
<1>5. CASE \E m \in Removers : RemoverStep(m) \/ StopRemover(m)
  BY <1>1, <1>5, RemoverTyped DEF Evolves
<1>6. CASE \E a \in Attachers : AttachStep(a) \/ AbortAttach(a)
  BY <1>1, <1>6, AttachTyped DEF Evolves
<1>7. CASE \E k \in Reconcilers : LookForObject(k) \/ MarkMissing(k)
  BY <1>1, <1>7, ReconcilerTyped DEF Evolves
<1> QED BY <1>2, <1>3, <1>4, <1>5, <1>6, <1>7 DEF Next, Stops

\* Every reachable state satisfies the invariant.
THEOREM Invariant == Spec => []IInv
BY InitIInv, NextIInv, PTL DEF Spec

\* Files, objects, claims and processes have their types in every reachable state.
THEOREM TypeCorrect == Spec => []TypeOK
<1>1. IInv => TypeOK
  BY DEF IInv
<1> QED BY <1>1, Invariant, PTL

\* file-scan.worker: an uploaded file has its object, with contents that were found clean.
THEOREM ServedIsCleanHolds == Spec => []ServedIsClean
<1>1. IInv => ServedIsClean
  BY DEF IInv
<1> QED BY <1>1, Invariant, PTL

\* file-scan.worker and file-cleanup.worker: every candidate has a row or a worker that will
\* delete it, or its worker died or was refused, or its scan overtook a purge.
THEOREM NoOrphanedCandidateHolds == Spec => []NoOrphanedCandidate
<1>1. IInv => NoOrphanedCandidate
  <2> SUFFICES ASSUME IInv, NEW f \in Files, NEW t \in Tokens, candidate[f][t] # None
               PROVE  Accountable(f, t)
    BY DEF NoOrphanedCandidate
  <2>1. Exists(f) => row[f].active <= row[f].attempts
    BY DEF IInv, Rows
  <2> QED BY <2>1 DEF IInv, Accounted, Owned, At, Accountable
<1> QED BY <1>1, Invariant, PTL

\* file-reconciliation.worker: an uploaded file keeps its status and its object's key until it
\* is deleted; only a file that is purged, or whose replacement was rolled back or is under
\* way, is failed by a reconciliation or goes without having been marked.
THEOREM UploadedIsFinalHolds == Spec => UploadedIsFinal
<1>1. IInv /\ [Next]_vars => [\A f \in Files \ Forsaken : Uploaded(f) =>
         row'[f].status = "uploaded" /\ row'[f].active = row[f].active]_vars
  <2> SUFFICES ASSUME IInv, Next, NEW f \in Files \ Forsaken, Uploaded(f)
               PROVE  row'[f].status = "uploaded" /\ row'[f].active = row[f].active
    OBVIOUS
  <2>1. Grows(f) /\ Explained(f)
    BY NextEvolves
  <2>2. ASSUME NEW k \in Reconcilers, reconciler[k].pc = "missing", reconciler[k].file = f
        PROVE  FALSE
    BY <2>2 DEF IInv, Reconciling, Looking
  <2>3. ASSUME NEW m \in Removers, Ends(m, f)
        PROVE  FALSE
    <3>1. Live(f) /\ f \notin undone
      BY DEF Uploaded, Forsaken
    <3> QED BY <2>3, <3>1 DEF Ends, IInv, Removals, Removing
  <2>4. row'[f].status = "uploaded"
    BY <2>1, <2>2, <2>3 DEF Explained
  <2> QED BY <2>1, <2>4 DEF Grows, Settled, Exists, Statuses, Uploaded
<1> QED BY <1>1, Invariant, PTL DEF Spec, UploadedIsFinal

-----------------------------------------------------------------------------
(* Quotas *)

\* The two locks: requests of one user are one at a time from the check to the commit, those
\* of one organization from the lock on.
OneOfUser ==
  \A q, r \in Requests :
    request[q].pc \in {"check", "insert"} /\ request[r].pc \in {"check", "insert"}
    /\ Uploader[request[q].file] = Uploader[request[r].file] => q = r
OneOfTenant ==
  \A q, r \in Requests :
    request[q].pc \in {"user", "check", "insert"} /\ request[r].pc \in {"user", "check", "insert"}
    /\ TenantOf[request[q].file] = TenantOf[request[r].file] => q = r

\* What a request has checked is still so when it inserts.
RoomFor(f) ==
  /\ Usage(FilesOf(Uploader[f])) + 1 <= UserQuota
  /\ Usage(FilesIn(TenantOf[f])) + 1 <= TenantQuota
Room == \A r \in Requests, f \in Files : Asks(r, {"insert"}, f) => RoomFor(f)

QuotaInvariant == OneOfUser /\ OneOfTenant /\ Room /\ QuotaKept

\* The usage of a set of files is a number.
LEMMA UsageType ==
  ASSUME NEW S \in SUBSET Files
  PROVE  /\ IsFiniteSet({f \in S : Live(f)}) /\ IsFiniteSet({f \in S : Live(f)}')
         /\ Usage(S) \in Nat /\ Usage(S)' \in Nat
<1>1. IsFiniteSet(Files)
  BY ConstantsAssumption DEF ConstantsAssumption
<1>2. {f \in S : Live(f)} \in SUBSET Files /\ {f \in S : Live(f)}' \in SUBSET Files
  OBVIOUS
<1>3. IsFiniteSet({f \in S : Live(f)}) /\ IsFiniteSet({f \in S : Live(f)}')
  BY <1>1, <1>2, FS_Subset
<1> QED BY <1>3, FS_CardinalityType DEF Usage

\* Usage does not grow where no file comes to life.
LEMMA UsageShrinks ==
  ASSUME NEW S \in SUBSET Files, \A g \in S : Live(g)' => Live(g)
  PROVE  Usage(S)' <= Usage(S)
<1>1. {f \in S : Live(f)}' \in SUBSET {f \in S : Live(f)}
  OBVIOUS
<1> QED BY <1>1, UsageType, FS_Subset DEF Usage

\* It grows by one where one file does.
LEMMA UsageAdds ==
  ASSUME NEW S \in SUBSET Files, NEW f \in Files, \A g \in S \ {f} : Live(g)' => Live(g)
  PROVE  Usage(S)' <= Usage(S) + 1
<1> DEFINE L == {g \in S : Live(g)}
           M == {g \in S : Live(g)}'
<1>1. M \in SUBSET (L \union {f})
  OBVIOUS
<1>2. IsFiniteSet(L) /\ Usage(S) = Cardinality(L) /\ Usage(S)' = Cardinality(M)
  BY UsageType DEF Usage
<1>3. Usage(S) \in Nat /\ Usage(S)' \in Nat
  BY UsageType
<1> HIDE DEF L, M
<1>4. IsFiniteSet(L \union {f}) /\ Cardinality(L \union {f}) \in {Cardinality(L), Cardinality(L) + 1}
  BY <1>2, FS_AddElement
<1>5. Cardinality(M) <= Cardinality(L \union {f})
  BY <1>1, <1>4, FS_Subset
<1> QED BY <1>2, <1>3, <1>4, <1>5

\* Only the insertion of a request brings a file to life.
LEMMA LiveBefore ==
  ASSUME IInv, Next, NEW g \in Files, Live(g)', ~Live(g)
  PROVE  \E r \in Requests : Asks(r, {"insert"}, g) /\ Asks(r, {"sign"}, g)'
<1>1. Grows(g) /\ Explained(g)
  BY NextEvolves
<1>2. row[g].status = "absent"
  BY <1>1 DEF Grows
<1>3. row'[g].status # "absent"
  BY DEF Live, Exists, Statuses
<1> QED BY <1>1, <1>2, <1>3 DEF Explained

\* What a user, or an organization, owns.
LEMMA OwnedFiles ==
  /\ \A u \in Users : FilesOf(u) \in SUBSET Files
  /\ \A t \in Tenants : FilesIn(t) \in SUBSET Files
  /\ \A f \in Files : /\ Uploader[f] \in Users /\ TenantOf[f] \in Tenants
                      /\ f \in FilesOf(Uploader[f]) /\ f \in FilesIn(TenantOf[f])
BY DEF Users, Tenants, FilesOf, FilesIn

\* While no file comes to life, quotas are kept and checks stay true.
LEMMA QuotaQuiet ==
  ASSUME QuotaKept, \A g \in Files : Live(g)' => Live(g)
  PROVE  QuotaKept' /\ \A f \in Files : RoomFor(f) => RoomFor(f)'
<1>1. /\ \A u \in Users : Usage(FilesOf(u))' <= Usage(FilesOf(u))
      /\ \A t \in Tenants : Usage(FilesIn(t))' <= Usage(FilesIn(t))
  BY OwnedFiles, UsageShrinks
<1>2. /\ \A u \in Users : Usage(FilesOf(u)) \in Nat /\ Usage(FilesOf(u))' \in Nat
      /\ \A t \in Tenants : Usage(FilesIn(t)) \in Nat /\ Usage(FilesIn(t))' \in Nat
  BY OwnedFiles, UsageType
<1>3. UserQuota \in Nat /\ TenantQuota \in Nat
  BY ConstantsAssumption DEF ConstantsAssumption
<1>4. QuotaKept'
  BY <1>1, <1>2, <1>3 DEF QuotaKept
<1>5. \A f \in Files : RoomFor(f) => RoomFor(f)'
  BY <1>1, <1>2, <1>3, OwnedFiles DEF RoomFor
<1> QED BY <1>4, <1>5

\* An insertion takes the room it has checked, and no room that another request has checked.
LEMMA QuotaInserted ==
  ASSUME IInv, QuotaInvariant, Next, NEW r \in Requests, InsertPending(r)
  PROVE  QuotaInvariant'
<1>0. request[r].file \in Files
  BY DEF InsertPending, IInv, Reserving
<1>1. PICK f \in Files : f = request[r].file
  BY <1>0
<1>2. /\ \A q \in Requests \ {r} : request'[q] = request[q]
      /\ request'[r].pc = "sign" /\ request[r].pc = "insert"
  BY DEF InsertPending, IInv, TypeOK, RequestType
<1>3. \A g \in Files \ {f} : Live(g)' => Live(g)
  BY <1>1, <1>2, LiveBefore DEF Asks
<1>4. OneOfUser' /\ OneOfTenant'
  BY <1>2 DEF QuotaInvariant, OneOfUser, OneOfTenant
<1>5. RoomFor(f)
  BY <1>1, <1>2 DEF QuotaInvariant, Room, Asks
<1>6. /\ \A u \in Users : Usage(FilesOf(u)) \in Nat /\ Usage(FilesOf(u))' \in Nat
      /\ \A t \in Tenants : Usage(FilesIn(t)) \in Nat /\ Usage(FilesIn(t))' \in Nat
      /\ UserQuota \in Nat /\ TenantQuota \in Nat
  BY OwnedFiles, UsageType, ConstantsAssumption DEF ConstantsAssumption
<1>7. /\ Usage(FilesOf(Uploader[f]))' <= Usage(FilesOf(Uploader[f])) + 1
      /\ Usage(FilesIn(TenantOf[f]))' <= Usage(FilesIn(TenantOf[f])) + 1
  BY <1>3, OwnedFiles, UsageAdds
<1>8. ASSUME NEW u \in Users, u # Uploader[f]
      PROVE  Usage(FilesOf(u))' <= Usage(FilesOf(u))
  <2>1. \A g \in FilesOf(u) : g \in Files \ {f}
    BY <1>8 DEF FilesOf
  <2> QED BY <1>3, <2>1, OwnedFiles, UsageShrinks
<1>9. ASSUME NEW t \in Tenants, t # TenantOf[f]
      PROVE  Usage(FilesIn(t))' <= Usage(FilesIn(t))
  <2>1. \A g \in FilesIn(t) : g \in Files \ {f}
    BY <1>9 DEF FilesIn
  <2> QED BY <1>3, <2>1, OwnedFiles, UsageShrinks
<1>10. QuotaKept'
  <2>1. \A u \in Users : Usage(FilesOf(u))' <= UserQuota
    <3> SUFFICES ASSUME NEW u \in Users
                 PROVE  Usage(FilesOf(u))' <= UserQuota
      OBVIOUS
    <3>1. CASE u = Uploader[f]
      BY <1>5, <1>6, <1>7, <3>1, OwnedFiles DEF RoomFor
    <3>2. CASE u # Uploader[f]
      BY <1>6, <1>8, <3>2 DEF QuotaInvariant, QuotaKept
    <3> QED BY <3>1, <3>2
  <2>2. \A t \in Tenants : Usage(FilesIn(t))' <= TenantQuota
    <3> SUFFICES ASSUME NEW t \in Tenants
                 PROVE  Usage(FilesIn(t))' <= TenantQuota
      OBVIOUS
    <3>1. CASE t = TenantOf[f]
      BY <1>5, <1>6, <1>7, <3>1, OwnedFiles DEF RoomFor
    <3>2. CASE t # TenantOf[f]
      BY <1>6, <1>9, <3>2 DEF QuotaInvariant, QuotaKept
    <3> QED BY <3>1, <3>2
  <2> QED BY <2>1, <2>2 DEF QuotaKept
<1>11. Room'
  <2> SUFFICES ASSUME NEW q \in Requests, NEW g \in Files, Asks(q, {"insert"}, g)'
               PROVE  RoomFor(g)'
    BY DEF Room
  <2>1. q # r /\ Asks(q, {"insert"}, g)
    BY <1>2 DEF Asks
  <2>2. RoomFor(g)
    BY <2>1 DEF QuotaInvariant, Room
  <2>3. Uploader[g] # Uploader[f] /\ TenantOf[g] # TenantOf[f]
    BY <1>1, <1>2, <2>1 DEF Asks, QuotaInvariant, OneOfUser, OneOfTenant
  <2> QED BY <1>6, <1>8, <1>9, <2>2, <2>3, OwnedFiles DEF RoomFor
<1> QED BY <1>4, <1>10, <1>11 DEF QuotaInvariant

\* The other steps of a request: each lock is taken when no other request has it, and the
\* check is made under both.
LEMMA QuotaRequest ==
  ASSUME IInv, QuotaInvariant, NEW r \in Requests,
         \A g \in Files : Live(g)' => Live(g),
         \/ \E f \in Files : BeginUpload(r, f)
         \/ LockUser(r) \/ CheckQuota(r) \/ SignUrl(r) \/ EndRequest(r)
  PROVE  QuotaInvariant'
<1>1. request[r] \in RequestType /\ \A q \in Requests \ {r} : request'[q] = request[q]
  BY DEF IInv, TypeOK, BeginUpload, LockUser, CheckQuota, SignUrl, EndRequest
<1>2. QuotaKept' /\ \A f \in Files : RoomFor(f) => RoomFor(f)'
  BY QuotaQuiet DEF QuotaInvariant
<1>3. \A q \in Requests : request[q].pc # "idle" => request[q].file \in Files
  BY DEF IInv, Reserving
<1>4. ASSUME \A f \in Files : Asks(r, {"insert"}, f)' => RoomFor(f)
      PROVE  Room'
  <2> SUFFICES ASSUME NEW q \in Requests, NEW g \in Files, Asks(q, {"insert"}, g)'
               PROVE  RoomFor(g)'
    BY DEF Room
  <2>1. q # r => Asks(q, {"insert"}, g)
    BY <1>1 DEF Asks
  <2>2. RoomFor(g)
    BY <1>4, <2>1 DEF QuotaInvariant, Room
  <2> QED BY <1>2, <2>2
<1>5. CASE \E f \in Files : BeginUpload(r, f)
  <2>1. PICK f \in Files : BeginUpload(r, f)
    BY <1>5
  <2>2. request'[r].pc = "user" /\ request'[r].file = f
    BY <2>1 DEF BeginUpload, IInv, TypeOK
  <2>3. \A q \in Requests \ {r} : request[q].pc \in {"user", "check", "insert"} =>
          TenantOf[request[q].file] # TenantOf[f]
    BY <1>3, <2>1 DEF BeginUpload, Asks, FilesIn
  <2>4. OneOfUser' /\ OneOfTenant'
    BY <1>1, <2>2, <2>3 DEF QuotaInvariant, OneOfUser, OneOfTenant
  <2> QED BY <1>2, <1>4, <2>2, <2>4 DEF QuotaInvariant, Asks
<1>6. CASE LockUser(r)
  <2>1. request'[r].pc = "check" /\ request'[r].file = request[r].file /\ request[r].pc = "user"
    BY <1>1, <1>6 DEF LockUser, IInv, TypeOK, RequestType
  <2>2. \A q \in Requests : request[q].pc \in {"check", "insert"} =>
          Uploader[request[q].file] # Uploader[request[r].file]
    BY <1>3, <1>6 DEF LockUser, Asks, FilesOf
  <2>3. OneOfUser' /\ OneOfTenant'
    BY <1>1, <2>1, <2>2 DEF QuotaInvariant, OneOfUser, OneOfTenant
  <2> QED BY <1>2, <1>4, <2>1, <2>3 DEF QuotaInvariant, Asks
<1>7. CASE CheckQuota(r)
  <2>1. PICK f \in Files : f = request[r].file /\ request[r].pc = "check"
    BY <1>3, <1>7 DEF CheckQuota
  <2>2. \/ request'[r].pc = "insert" /\ request'[r].file = f /\ RoomFor(f)
        \/ request'[r].pc = "idle"
    <3>1. CASE RoomFor(f)
      BY <1>1, <1>7, <2>1, <3>1 DEF CheckQuota, RoomFor, IInv, TypeOK, RequestType
    <3>2. CASE ~RoomFor(f)
      BY <1>7, <2>1, <3>2, IdleTypes DEF CheckQuota, RoomFor, IInv, TypeOK
    <3> QED BY <3>1, <3>2
  <2>3. OneOfUser' /\ OneOfTenant'
    BY <1>1, <2>1, <2>2 DEF QuotaInvariant, OneOfUser, OneOfTenant
  <2> QED BY <1>2, <1>4, <2>2, <2>3 DEF QuotaInvariant, Asks
<1>8. CASE SignUrl(r) \/ EndRequest(r)
  <2>1. request'[r].pc = "idle"
    BY <1>8, IdleTypes DEF SignUrl, EndRequest, IInv, TypeOK
  <2>2. OneOfUser' /\ OneOfTenant'
    BY <1>1, <2>1 DEF QuotaInvariant, OneOfUser, OneOfTenant
  <2> QED BY <1>2, <1>4, <2>1, <2>2 DEF QuotaInvariant, Asks
<1> QED BY <1>5, <1>6, <1>7, <1>8

\* A step that leaves the requests where they are.
LEMMA QuotaOutside ==
  ASSUME IInv, QuotaInvariant, UNCHANGED request, \A g \in Files : Live(g)' => Live(g)
  PROVE  QuotaInvariant'
<1>1. QuotaKept' /\ \A f \in Files : RoomFor(f) => RoomFor(f)'
  BY QuotaQuiet DEF QuotaInvariant
<1>2. OneOfUser' /\ OneOfTenant'
  BY DEF QuotaInvariant, OneOfUser, OneOfTenant
<1>3. Room'
  <2>1. \A q \in Requests, f \in Files : Asks(q, {"insert"}, f)' => Asks(q, {"insert"}, f)
    BY DEF Asks
  <2> QED BY <1>1, <2>1 DEF QuotaInvariant, Room
<1> QED BY <1>1, <1>2, <1>3 DEF QuotaInvariant

\* Requests move by their own steps only.
LEMMA RequestsMove ==
  ASSUME Next
  PROVE  \/ UNCHANGED request
         \/ \E r \in Requests : \/ \E f \in Files : BeginUpload(r, f)
                                \/ RequestStep(r) \/ EndRequest(r)
<1>1. CASE \E f \in Files : FileStep(f)
  BY <1>1 DEF FileStep, PutObject, BeginConfirm, MarkUploadReady, ClaimUploading, BeginDelete,
              BeginPurge, ClaimCleanup, BeginAttach, ListUploaded, LeaseEnds, Age
<1>2. CASE \E s \in Scanners : ScannerStep(s) \/ StopScanner(s) \/ BucketFails(s)
  BY <1>2 DEF ScannerStep, ReadSource, ScanSource, VerifyCandidate, Asked, RenewLease,
              CopyToCandidate, CompleteScan, DropCandidate, DropQuarantine, DropOtherCandidates,
              RetryScan, RejectScan, StopScanner, BucketFails
<1>3. CASE \E m \in Removers : RemoverStep(m) \/ StopRemover(m)
  BY <1>3 DEF RemoverStep, MarkDeleted, RemoveQuarantine, RemoveCandidates, HardDelete, StopRemover
<1>4. CASE \/ \E a \in Attachers : AttachStep(a) \/ AbortAttach(a)
           \/ \E k \in Reconcilers : LookForObject(k) \/ MarkMissing(k)
  BY <1>4 DEF AttachStep, EraseOccupants, LinkFile, AbortAttach, LookForObject, MarkMissing
<1> QED BY <1>1, <1>2, <1>3, <1>4 DEF Next, Stops

\* Every step keeps locks, checks and quotas.
LEMMA NextQuota ==
  ASSUME IInv, QuotaInvariant, [Next]_vars
  PROVE  QuotaInvariant'
<1>1. CASE UNCHANGED vars
  BY <1>1, QuotaOutside DEF vars, Live, Exists
<1>2. CASE Next /\ \E r \in Requests : InsertPending(r)
  BY <1>2, QuotaInserted
<1>3. CASE Next /\ ~\E r \in Requests : InsertPending(r)
  <2> DEFINE Moves(r) == \/ \E f \in Files : BeginUpload(r, f)
                         \/ LockUser(r) \/ CheckQuota(r) \/ SignUrl(r) \/ EndRequest(r)
  <2>1. UNCHANGED request \/ \E r \in Requests : Moves(r)
    BY <1>3, RequestsMove DEF RequestStep
  <2>2. ASSUME NEW q \in Requests, request[q].pc = "insert", request'[q].pc = "sign"
        PROVE  FALSE
    <3>1. PICK r \in Requests : Moves(r)
      BY <2>1, <2>2
    <3>2. \A z \in Requests \ {r} : request'[z] = request[z]
      BY <3>1 DEF IInv, TypeOK, BeginUpload, LockUser, CheckQuota, SignUrl, EndRequest
    <3>3. EndRequest(r)
      BY <2>2, <3>1, <3>2 DEF BeginUpload, LockUser, CheckQuota, SignUrl
    <3> QED BY <2>2, <3>2, <3>3, IdleTypes DEF EndRequest, IInv, TypeOK
  <2>3. \A g \in Files : Live(g)' => Live(g)
    BY <1>3, <2>2, LiveBefore DEF Asks
  <2> QED BY <2>1, <2>3, QuotaOutside, QuotaRequest
<1> QED BY <1>1, <1>2, <1>3

\* request-upload.command: the rows that requests reserve never exceed the quota of their user
\* or of their organization, for any number of requests, users, organizations and files.
THEOREM QuotaKeptHolds == Spec => []QuotaKept
<1>1. Init => QuotaInvariant
  <2> SUFFICES ASSUME Init
               PROVE  QuotaInvariant
    OBVIOUS
  <2>1. \A r \in Requests : request[r].pc = "idle"
    BY IdleTypes DEF Init
  <2>2. \A S \in SUBSET Files : Usage(S) = 0
    <3>1. \A f \in Files : ~Live(f)
      BY NewRow DEF Init, Live, Exists, Statuses
    <3>2. \A S \in SUBSET Files : {f \in S : Live(f)} = {}
      BY <3>1
    <3> QED BY <3>2, FS_EmptySet DEF Usage
  <2>3. QuotaKept
    BY <2>2, OwnedFiles, ConstantsAssumption DEF QuotaKept, ConstantsAssumption
  <2> QED BY <2>1, <2>3 DEF QuotaInvariant, OneOfUser, OneOfTenant, Room, Asks
<1>2. QuotaInvariant => QuotaKept
  BY DEF QuotaInvariant
<1> QED BY <1>1, <1>2, NextQuota, Invariant, PTL DEF Spec
=============================================================================
