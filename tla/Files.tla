------------------------------- MODULE Files -------------------------------
(***************************************************************************)
(* Uploaded files, from the reservation under the quota to the last        *)
(* deletion: the rows in PostgreSQL, the objects in the bucket, and the    *)
(* processes that move one without the other in sight - scanners whose     *)
(* leases lapse, the clean-up, the reconciliation, deletions, purges of an *)
(* erased user or organization, and attachments.                           *)
(*                                                                         *)
(* A step is one transaction or one call of the bucket.  A scan claim's    *)
(* token is the number of its attempt, so the candidate keys of a row are  *)
(* those of the attempts made.  Wake-ups and retry delays only choose the  *)
(* moment of a claim, which is left open.                                  *)
(***************************************************************************)
EXTENDS Naturals, FiniteSets

CONSTANTS
  Files, Contents, None, Requests, Scanners, Removers, Attachers, Reconcilers,
  Clean,              \* contents that the scanner finds clean
  Uploads,            \* what browsers put under the URL of a file
  Uploader, TenantOf, \* the user and the organization of a file
  Erased,             \* files of the users and organizations that will be erased
  UserQuota, TenantQuota, \* in files: all of them have one size
  MaxAttempts,
  MaxFaults           \* bound: crashes and refused calls of the bucket

Users == {Uploader[f] : f \in Files}
Tenants == {TenantOf[f] : f \in Files}

ASSUME ConstantsAssumption ==
  /\ None \notin Contents \union Files
  /\ Clean \subseteq Contents
  /\ IsFiniteSet(Files)
  /\ Uploads \in [Files -> SUBSET Contents]
  /\ Uploader = [f \in Files |-> Uploader[f]]
  /\ TenantOf = [f \in Files |-> TenantOf[f]]
  /\ Erased \subseteq Files
  /\ UserQuota \in Nat /\ TenantQuota \in Nat /\ MaxAttempts \in Nat /\ MaxFaults \in Nat

VARIABLES
  row,         \* the table files
  quarantine,  \* the object under the quarantine key, written by the browser
  candidate,   \* the objects under the candidate keys
  urls,        \* files whose presigned URL is valid
  confirming,  \* the object a confirmation in flight has seen
  request,     \* requests for an upload
  scanner,     \* claims being worked on
  remover,     \* deletions, by a user, by the clean-up or by a purge
  attach,      \* attachments to the slot of a note
  reconciler,  \* reconciliations, and the file each is looking at
  undone,      \* history: files whose bytes go before a row that may stay: purged, or the
               \* deletion was rolled back
  abandoned,   \* history: candidates whose scanner died or was refused their deletion, or
               \* won its scan behind the back of a purge
  faults

vars == <<row, quarantine, candidate, urls, confirming, request, scanner, remover, attach,
          reconciler, undone, abandoned, faults>>
bucket == <<quarantine, candidate>>
history == <<undone, abandoned, faults>>

Tokens == 1..MaxAttempts
Statuses == {"pending", "uploading", "scanning", "uploaded", "failed"}
RowType == [status : Statuses \union {"absent", "gone"}, deleted : BOOLEAN,
            link : {"none", "loose", "slot"}, etag : Contents \union {None},
            claim : 0..MaxAttempts, lease : {"none", "held"}, attempts : 0..MaxAttempts,
            active : 0..MaxAttempts, age : {"new", "stale", "old"}]
RequestType == [pc : {"idle", "user", "check", "insert", "sign"}, file : Files \union {None}]
ScannerType == [pc : {"idle", "read", "renew", "scan", "extend", "copy", "verify", "complete",
                      "drop", "sweep", "tidy", "retry", "reject", "purge", "refuse", "deny"},
                file : Files \union {None}, token : 0..MaxAttempts,
                source : Contents \union {None}]
RemoverType == [pc : {"idle", "mark", "quarantine", "candidates", "row"},
                file : Files \union {None}, upto : 0..MaxAttempts, last : BOOLEAN,
                purge : BOOLEAN, active : 0..MaxAttempts]
AttachType == [pc : {"idle", "erase", "link"}, file : Files \union {None},
               link : {"loose", "slot"}, old : SUBSET Files]
ReconcilerType == [pc : {"idle", "listed", "missing"}, file : Files \union {None},
                   token : 0..MaxAttempts]

\* Every variable has its type.
TypeOK ==
  /\ row \in [Files -> RowType]
  /\ quarantine \in [Files -> Contents \union {None}]
  /\ candidate \in [Files -> [Tokens -> Contents \union {None}]]
  /\ urls \in SUBSET Files
  /\ confirming \in [Files -> Contents \union {None}]
  /\ request \in [Requests -> RequestType]
  /\ scanner \in [Scanners -> ScannerType]
  /\ remover \in [Removers -> RemoverType]
  /\ attach \in [Attachers -> AttachType]
  /\ reconciler \in [Reconcilers -> ReconcilerType]
  /\ undone \in SUBSET Files
  /\ abandoned \in SUBSET (Files \X Tokens)
  /\ faults \in 0..MaxFaults

NoRow(status) == [status |-> status, deleted |-> FALSE, link |-> "none", etag |-> None,
                  claim |-> 0, lease |-> "none", attempts |-> 0, active |-> 0, age |-> "new"]
IdleRequest == [pc |-> "idle", file |-> None]
IdleScanner == [pc |-> "idle", file |-> None, token |-> 0, source |-> None]
IdleRemover == [pc |-> "idle", file |-> None, upto |-> 0, last |-> FALSE, purge |-> FALSE,
                active |-> 0]
IdleReconciler == [pc |-> "idle", file |-> None, token |-> 0]
IdleAttach == [pc |-> "idle", file |-> None, link |-> "loose", old |-> {}]

Init ==
  /\ row = [f \in Files |-> NoRow("absent")]
  /\ quarantine = [f \in Files |-> None]
  /\ candidate = [f \in Files |-> [t \in Tokens |-> None]]
  /\ urls = {}
  /\ confirming = [f \in Files |-> None]
  /\ request = [r \in Requests |-> IdleRequest]
  /\ scanner = [s \in Scanners |-> IdleScanner]
  /\ remover = [m \in Removers |-> IdleRemover]
  /\ attach = [a \in Attachers |-> IdleAttach]
  /\ reconciler = [k \in Reconcilers |-> IdleReconciler]
  /\ undone = {}
  /\ abandoned = {}
  /\ faults = 0

-----------------------------------------------------------------------------

Exists(f) == row[f].status \in Statuses
Live(f) == Exists(f) /\ ~row[f].deleted
Uploaded(f) == Live(f) /\ row[f].status = "uploaded"

\* A row an attachment has marked deleted and not committed: other writers wait.
Held(f) == \E a \in Attachers : f \in attach[a].old

Fault == faults < MaxFaults /\ faults' = faults + 1

-----------------------------------------------------------------------------
(* Reservation under the quota *)

Usage(S) == Cardinality({f \in S : Live(f)})
FilesOf(u) == {f \in Files : Uploader[f] = u}
FilesIn(t) == {f \in Files : TenantOf[f] = t}
Asks(q, pcs, f) == request[q].pc \in pcs /\ request[q].file = f

\* The lock of the organization comes first.
BeginUpload(r, f) ==
  /\ request[r].pc = "idle"
  /\ row[f].status = "absent"
  /\ \A q \in Requests : request[q].file # f
  /\ \A q \in Requests, g \in FilesIn(TenantOf[f]) : ~Asks(q, {"user", "check", "insert"}, g)
  /\ request' = [request EXCEPT ![r] = [pc |-> "user", file |-> f]]
  /\ UNCHANGED <<row, bucket, urls, confirming, scanner, remover, attach, reconciler, history>>

\* Mutation: only the organization is locked.
SkipUserLock(r) ==
  /\ request[r].pc = "user"
  /\ request' = [request EXCEPT ![r].pc = "check"]
  /\ UNCHANGED <<row, bucket, urls, confirming, scanner, remover, attach, reconciler, history>>

LockUser(r) ==
  /\ request[r].pc = "user"
  /\ \A q \in Requests, g \in FilesOf(Uploader[request[r].file]) : ~Asks(q, {"check", "insert"}, g)
  /\ request' = [request EXCEPT ![r].pc = "check"]
  /\ UNCHANGED <<row, bucket, urls, confirming, scanner, remover, attach, reconciler, history>>

CheckQuota(r) ==
  LET f == request[r].file IN
  /\ request[r].pc = "check"
  /\ request' = [request EXCEPT ![r] =
       IF /\ Usage(FilesOf(Uploader[f])) + 1 <= UserQuota
          /\ Usage(FilesIn(TenantOf[f])) + 1 <= TenantQuota
       THEN [@ EXCEPT !.pc = "insert"] ELSE IdleRequest]
  /\ UNCHANGED <<row, bucket, urls, confirming, scanner, remover, attach, reconciler, history>>

\* The commit releases both locks.
InsertPending(r) ==
  /\ request[r].pc = "insert"
  /\ row' = [row EXCEPT ![request[r].file] = NoRow("pending")]
  /\ request' = [request EXCEPT ![r].pc = "sign"]
  /\ UNCHANGED <<bucket, urls, confirming, scanner, remover, attach, reconciler, history>>

SignUrl(r) ==
  /\ request[r].pc = "sign"
  /\ urls' = urls \union {request[r].file}
  /\ request' = [request EXCEPT ![r] = IdleRequest]
  /\ UNCHANGED <<row, bucket, confirming, scanner, remover, attach, reconciler, history>>

\* Signing fails, and markFailed; or the process dies, and the row is left to the clean-up.
EndRequest(r) ==
  LET f == request[r].file IN
  /\ request[r].pc # "idle"
  /\ Fault
  /\ \/ request[r].pc = "sign" /\ Live(f) /\ row' = [row EXCEPT ![f].status = "failed"]
     \/ UNCHANGED row
  /\ request' = [request EXCEPT ![r] = IdleRequest]
  /\ UNCHANGED <<bucket, urls, confirming, scanner, remover, attach, reconciler, undone, abandoned>>

-----------------------------------------------------------------------------
(* Upload and confirmation *)

\* The URL can be used again as long as it is valid.
PutObject(f, c) ==
  /\ f \in urls
  /\ c \in Uploads[f]
  /\ quarantine' = [quarantine EXCEPT ![f] = c]
  /\ UNCHANGED <<row, candidate, urls, confirming, request, scanner, remover, attach, reconciler,
                 history>>

BeginConfirm(f) ==
  /\ Live(f) /\ row[f].status = "pending"
  /\ quarantine[f] # None
  /\ confirming[f] = None
  /\ confirming' = [confirming EXCEPT ![f] = quarantine[f]]
  /\ UNCHANGED <<row, bucket, urls, request, scanner, remover, attach, reconciler, history>>

\* markUploadReady records the ETag that was seen.
MarkUploadReady(f) ==
  /\ confirming[f] # None
  /\ row' = IF Live(f) /\ row[f].status = "pending"
            THEN [row EXCEPT ![f].status = "uploading", ![f].etag = confirming[f]]
            ELSE row
  /\ confirming' = [confirming EXCEPT ![f] = None]
  /\ UNCHANGED <<bucket, urls, request, scanner, remover, attach, reconciler, history>>

-----------------------------------------------------------------------------
(* Scan and promotion *)

Claimable(f) ==
  /\ Live(f)
  /\ row[f].status = "uploading" \/ (row[f].status = "scanning" /\ row[f].lease = "none")
  /\ row[f].attempts < MaxAttempts

\* Mutation: the scan starts from what is in quarantine by now, not from what was confirmed.
ClaimWhatIsThere(s, f) ==
  LET token == row[f].attempts + 1 IN
  /\ scanner[s].pc = "idle"
  /\ Claimable(f)
  /\ row' = [row EXCEPT ![f].status = "scanning", ![f].claim = token, ![f].lease = "held",
                        ![f].attempts = token]
  /\ scanner' = [scanner EXCEPT ![s] =
                   [pc |-> "read", file |-> f, token |-> token, source |-> quarantine[f]]]
  /\ UNCHANGED <<bucket, urls, confirming, request, remover, attach, reconciler, history>>

ClaimUploading(s, f) ==
  LET token == row[f].attempts + 1 IN
  /\ scanner[s].pc = "idle"
  /\ Claimable(f)
  /\ row' = [row EXCEPT ![f].status = "scanning", ![f].claim = token, ![f].lease = "held",
                        ![f].attempts = token]
  /\ scanner' = [scanner EXCEPT ![s] =
                   [pc |-> "read", file |-> f, token |-> token, source |-> row[f].etag]]
  /\ UNCHANGED <<bucket, urls, confirming, request, remover, attach, reconciler, history>>

\* The fence of every write of a scanner.
Holds(s) ==
  LET f == scanner[s].file IN
  Live(f) /\ row[f].status = "scanning" /\ row[f].claim = scanner[s].token

Goes(s, pc) ==
  scanner' = [scanner EXCEPT ![s] = IF pc = "idle" THEN IdleScanner ELSE [@ EXCEPT !.pc = pc]]

\* A call of the bucket, whose answer decides how the scanner goes on.
Asked(s, pc, next) ==
  /\ scanner[s].pc = pc
  /\ Goes(s, next)
  /\ UNCHANGED <<row, bucket, urls, confirming, request, remover, attach, reconciler, history>>

\* getMetadata of the quarantine object, compared with the confirmed one.
ReadSource(s) ==
  LET seen == quarantine[scanner[s].file] IN
  Asked(s, "read", IF seen = None THEN "retry"
                   ELSE IF seen = scanner[s].source THEN "renew" ELSE "reject")

\* The scan reads the object it has verified, or none.
ScanSource(s) ==
  Asked(s, "scan", IF quarantine[scanner[s].file] # scanner[s].source THEN "retry"
                   ELSE IF scanner[s].source \in Clean THEN "extend" ELSE "reject")

\* getMetadata of the candidate.
VerifyCandidate(s) ==
  Asked(s, "verify", IF candidate[scanner[s].file][scanner[s].token] = scanner[s].source
                     THEN "complete" ELSE "refuse")

RenewLease(s) ==
  /\ scanner[s].pc \in {"renew", "extend"}
  /\ IF Holds(s)
     THEN /\ row' = [row EXCEPT ![scanner[s].file].lease = "held"]
          /\ Goes(s, IF scanner[s].pc = "renew" THEN "scan" ELSE "copy")
     ELSE Goes(s, "idle") /\ UNCHANGED row
  /\ UNCHANGED <<bucket, urls, confirming, request, remover, attach, reconciler, history>>

\* Mutation: whatever is in quarantine by now is copied.
CopyAnything(s) ==
  LET f == scanner[s].file IN
  /\ scanner[s].pc = "copy"
  /\ candidate' = [candidate EXCEPT ![f][scanner[s].token] = quarantine[f]]
  /\ Goes(s, "complete")
  /\ UNCHANGED <<row, quarantine, urls, confirming, request, remover, attach, reconciler, history>>

\* The copy is conditional on the ETag of the source.
CopyToCandidate(s) ==
  LET f == scanner[s].file IN
  /\ scanner[s].pc = "copy"
  /\ IF quarantine[f] = scanner[s].source
     THEN /\ candidate' = [candidate EXCEPT ![f][scanner[s].token] = quarantine[f]]
          /\ Goes(s, "verify")
     ELSE Goes(s, "retry") /\ UNCHANGED candidate
  /\ UNCHANGED <<row, quarantine, urls, confirming, request, remover, attach, reconciler, history>>

\* Mutation: a scanner that has lost its claim leaves its candidate where it is.
CompleteScanOnly(s) ==
  LET f == scanner[s].file IN
  /\ scanner[s].pc = "complete"
  /\ row' = IF Holds(s)
            THEN [row EXCEPT ![f].status = "uploaded", ![f].active = scanner[s].token,
                             ![f].claim = 0, ![f].lease = "none"]
            ELSE row
  /\ Goes(s, IF Holds(s) THEN "sweep" ELSE "idle")
  /\ UNCHANGED <<bucket, urls, confirming, request, remover, attach, reconciler, history>>

CompleteScan(s) ==
  LET f == scanner[s].file IN
  /\ scanner[s].pc = "complete"
  /\ row' = IF Holds(s)
            THEN [row EXCEPT ![f].status = "uploaded", ![f].active = scanner[s].token,
                             ![f].claim = 0, ![f].lease = "none"]
            ELSE row
  /\ Goes(s, IF Holds(s) THEN "sweep" ELSE "drop")
  /\ UNCHANGED <<bucket, urls, confirming, request, remover, attach, reconciler, history>>

Unclaimed(f, status) ==
  [row EXCEPT ![f].status = status, ![f].claim = 0, ![f].lease = "none"]

\* After a promotion that did not verify ("deny") the quarantine object stays.
RejectScan(s) ==
  /\ scanner[s].pc \in {"reject", "deny"}
  /\ row' = IF Holds(s) THEN Unclaimed(scanner[s].file, "failed") ELSE row
  /\ Goes(s, IF Holds(s) /\ scanner[s].pc = "reject" THEN "purge" ELSE "idle")
  /\ UNCHANGED <<bucket, urls, confirming, request, remover, attach, reconciler, history>>

RetryScan(s) ==
  LET f == scanner[s].file IN
  /\ scanner[s].pc = "retry"
  /\ row' = IF Holds(s)
            THEN Unclaimed(f, IF row[f].attempts >= MaxAttempts THEN "failed" ELSE "uploading")
            ELSE row
  /\ Goes(s, "idle")
  /\ UNCHANGED <<bucket, urls, confirming, request, remover, attach, reconciler, history>>

\* The bucket refuses some deletions of a loop, and the loop goes on.
Refuses(kept) == IF kept = {} THEN UNCHANGED faults ELSE Fault

\* The candidate of a scanner that has lost its claim, or of a failed promotion.
DropCandidate(s) ==
  LET f == scanner[s].file
      token == scanner[s].token IN
  /\ scanner[s].pc \in {"drop", "refuse"}
  /\ \E kept \in SUBSET {<<f, token>>} :
        /\ Refuses(kept)
        /\ abandoned' = abandoned \union kept
        /\ candidate' = IF kept = {} THEN [candidate EXCEPT ![f][token] = None] ELSE candidate
  /\ Goes(s, IF scanner[s].pc = "drop" THEN "idle" ELSE "deny")
  /\ UNCHANGED <<row, quarantine, urls, confirming, request, remover, attach, reconciler, undone>>

\* cleanupAfterWin and the end of reject: the quarantine object.
DropQuarantine(s) ==
  LET f == scanner[s].file IN
  /\ scanner[s].pc \in {"sweep", "purge"}
  /\ \E kept \in SUBSET {f} :
        /\ Refuses(kept)
        /\ quarantine' = IF kept = {} THEN [quarantine EXCEPT ![f] = None] ELSE quarantine
  /\ Goes(s, IF scanner[s].pc = "sweep" THEN "tidy" ELSE "idle")
  /\ UNCHANGED <<row, candidate, urls, confirming, request, remover, attach, reconciler, undone,
                 abandoned>>

\* cleanupAfterWin: the other candidates listed when the winner claimed.
DropOtherCandidates(s) ==
  LET f == scanner[s].file
      others == {t \in Tokens : t < scanner[s].token} IN
  /\ scanner[s].pc = "tidy"
  /\ \E kept \in SUBSET others :
        /\ Refuses(kept)
        /\ candidate' = [candidate EXCEPT ![f] =
                          [t \in Tokens |-> IF t \in others \ kept THEN None ELSE @[t]]]
  /\ Goes(s, "idle")
  /\ UNCHANGED <<row, quarantine, urls, confirming, request, remover, attach, reconciler, undone,
                 abandoned>>

LeaseEnds(f) ==
  /\ row[f].lease = "held"
  /\ row' = [row EXCEPT ![f].lease = "none"]
  /\ UNCHANGED <<bucket, urls, confirming, request, scanner, remover, attach, reconciler, history>>

\* The process dies.
StopScanner(s) ==
  /\ scanner[s].pc # "idle"
  /\ Fault
  /\ Goes(s, "idle")
  /\ abandoned' = abandoned \union {<<scanner[s].file, scanner[s].token>>}
  /\ UNCHANGED <<row, bucket, urls, confirming, request, remover, attach, reconciler, undone>>

\* A call fails; a copy may have been made all the same.
BucketFails(s) ==
  LET f == scanner[s].file
      token == scanner[s].token IN
  /\ scanner[s].pc \in {"read", "scan", "copy", "verify"}
  /\ Fault
  /\ Goes(s, IF scanner[s].pc = "verify" THEN "refuse" ELSE "retry")
  /\ \/ UNCHANGED <<candidate, abandoned>>
     \/ /\ scanner[s].pc = "copy" /\ quarantine[f] = scanner[s].source
        /\ candidate' = [candidate EXCEPT ![f][token] = quarantine[f]]
        /\ abandoned' = abandoned \union {<<f, token>>}
  /\ UNCHANGED <<row, quarantine, urls, confirming, request, remover, attach, reconciler, undone>>

-----------------------------------------------------------------------------
(* Deletion and clean-up *)

\* A deletion of the objects the row names at this moment; it goes on to the row if it is the last.
Deletion(f, pc, last, purge) ==
  [pc |-> pc, file |-> f, upto |-> row[f].attempts, last |-> last, purge |-> purge,
   active |-> IF purge THEN row[f].active ELSE 0]

\* Mutation: the objects go first.
DeleteObjectsFirst(m, f) ==
  /\ remover[m].pc = "idle"
  /\ Live(f)
  /\ remover' = [remover EXCEPT ![m] = Deletion(f, "quarantine", FALSE, FALSE)]
  /\ UNCHANGED <<row, bucket, urls, confirming, request, scanner, attach, reconciler, history>>

\* DeleteFileCommand reads the row, and will delete the objects it names by then.
BeginDelete(m, f) ==
  /\ remover[m].pc = "idle"
  /\ Live(f)
  /\ remover' = [remover EXCEPT ![m] = Deletion(f, "mark", FALSE, FALSE)]
  /\ UNCHANGED <<row, bucket, urls, confirming, request, scanner, attach, reconciler, history>>

\* PurgeUserFilesCommand and PurgeTenantFilesCommand, thirty days after the erasure was asked
\* for and the last upload: the rows of a page as read, their bytes first, and no mark on a row.
BeginPurge(m, f) ==
  /\ remover[m].pc = "idle"
  /\ f \in Erased /\ Live(f) /\ row[f].age = "old"
  /\ remover' = [remover EXCEPT ![m] = Deletion(f, "quarantine", TRUE, TRUE)]
  /\ undone' = undone \union {f}
  /\ UNCHANGED <<row, bucket, urls, confirming, request, scanner, attach, reconciler, abandoned,
                 faults>>

MarkDeleted(m) ==
  LET f == remover[m].file IN
  /\ remover[m].pc = "mark"
  /\ ~Held(f)
  /\ IF Live(f)
     THEN /\ row' = [row EXCEPT ![f].deleted = TRUE]
          /\ remover' = [remover EXCEPT ![m].pc = "quarantine"]
     ELSE UNCHANGED row /\ remover' = [remover EXCEPT ![m] = IdleRemover]
  /\ UNCHANGED <<bucket, urls, confirming, request, scanner, attach, reconciler, history>>

\* Mutation: a row in scanning is left to the scanners.
CleanableSettled(f) ==
  /\ Exists(f)
  /\ \/ row[f].deleted
     \/ row[f].age # "new" /\ row[f].status \in {"pending", "uploading", "failed"}
     \/ row[f].age = "old" /\ row[f].status = "uploaded" /\ row[f].link = "none"

Cleanable(f) ==
  /\ Exists(f)
  /\ \/ row[f].deleted
     \/ row[f].age # "new" /\ row[f].status \in {"pending", "uploading", "failed"}
     \/ row[f].age # "new" /\ row[f].status = "scanning" /\ row[f].lease = "none"
     \/ row[f].age = "old" /\ row[f].status = "uploaded" /\ row[f].link = "none"

\* The selection of candidates is only a hint; claimCleanup decides and marks.
ClaimCleanup(m, f) ==
  /\ remover[m].pc = "idle"
  /\ ~Held(f)
  /\ Cleanable(f)
  /\ row' = [row EXCEPT ![f].deleted = TRUE]
  /\ remover' = [remover EXCEPT ![m] = Deletion(f, "quarantine", TRUE, FALSE)]
  /\ UNCHANGED <<bucket, urls, confirming, request, scanner, attach, reconciler, history>>

\* deleteFileObjects goes on after a refusal, which keeps the row of a clean-up or a purge.
RemoveQuarantine(m) ==
  LET f == remover[m].file IN
  /\ remover[m].pc = "quarantine"
  /\ \E kept \in SUBSET {f} :
        /\ Refuses(kept)
        /\ quarantine' = IF kept = {} THEN [quarantine EXCEPT ![f] = None] ELSE quarantine
        /\ remover' = [remover EXCEPT ![m].pc = "candidates", ![m].last = @ /\ kept = {}]
  /\ UNCHANGED <<row, candidate, urls, confirming, request, scanner, attach, reconciler, undone,
                 abandoned>>

RemoveCandidates(m) ==
  LET f == remover[m].file
      named == 1..remover[m].upto IN
  /\ remover[m].pc = "candidates"
  /\ \E kept \in SUBSET named :
        /\ Refuses(kept)
        /\ candidate' = [candidate EXCEPT ![f] =
                          [t \in Tokens |-> IF t \in named \ kept THEN None ELSE @[t]]]
        /\ remover' = [remover EXCEPT ![m] =
                        IF @.last /\ kept = {} THEN [@ EXCEPT !.pc = "row"] ELSE IdleRemover]
  /\ UNCHANGED <<row, quarantine, urls, confirming, request, scanner, attach, reconciler, undone,
                 abandoned>>

\* By id alone.  A scan that was completed since a purge read the row leaves its candidate behind.
HardDelete(m) ==
  LET f == remover[m].file IN
  /\ remover[m].pc = "row"
  /\ ~Held(f)
  /\ abandoned' = IF remover[m].purge /\ Exists(f) /\ row[f].active # remover[m].active
                  THEN abandoned \union {<<f, row[f].active>>} ELSE abandoned
  /\ row' = [row EXCEPT ![f] = NoRow("gone")]
  /\ remover' = [remover EXCEPT ![m] = IdleRemover]
  /\ UNCHANGED <<bucket, urls, confirming, request, scanner, attach, reconciler, undone, faults>>

\* The process dies.
StopRemover(m) ==
  /\ remover[m].pc # "idle"
  /\ Fault
  /\ remover' = [remover EXCEPT ![m] = IdleRemover]
  /\ UNCHANGED <<row, bucket, urls, confirming, request, scanner, attach, reconciler, undone,
                 abandoned>>

-----------------------------------------------------------------------------
(* Attachment to a note, in one transaction *)

Occupants == {g \in Files : Live(g) /\ row[g].link = "slot"}

\* With a slot the files in it are deleted first: read and marked here, not yet committed.
BeginAttach(a, f, link) ==
  LET old == IF link = "slot" THEN Occupants ELSE {} IN
  /\ attach[a].pc = "idle"
  /\ Live(f)
  /\ \A g \in old : ~Held(g)
  /\ attach' = [attach EXCEPT ![a] = [pc |-> IF old = {} THEN "link" ELSE "erase", file |-> f,
                                      link |-> link, old |-> old]]
  /\ UNCHANGED <<row, bucket, urls, confirming, request, scanner, remover, reconciler, history>>

\* DeleteFileCommand deletes their objects inside the transaction.
EraseOccupants(a) ==
  LET old == attach[a].old IN
  /\ attach[a].pc = "erase"
  /\ quarantine' = [g \in Files |-> IF g \in old THEN None ELSE quarantine[g]]
  /\ candidate' = [g \in Files |-> IF g \in old THEN [t \in Tokens |-> None] ELSE candidate[g]]
  /\ attach' = [attach EXCEPT ![a].pc = "link"]
  /\ UNCHANGED <<row, urls, confirming, request, scanner, remover, reconciler, history>>

\* LinkFileCommand; a refusal rolls the deletion back.  Its read and its update are one step:
\* the update ignores deleted rows, and a file that failed in between ends as a failed one.
LinkFile(a) ==
  LET f == attach[a].file
      old == attach[a].old IN
  /\ attach[a].pc = "link"
  /\ \A b \in Attachers \ {a} : f \notin attach[b].old
  /\ IF Uploaded(f) /\ f \notin old
     THEN /\ row' = [g \in Files |->
                       IF g = f THEN [row[g] EXCEPT !.link = attach[a].link]
                       ELSE IF g \in old THEN [row[g] EXCEPT !.deleted = TRUE] ELSE row[g]]
          /\ UNCHANGED undone
     ELSE UNCHANGED row /\ undone' = undone \union old
  /\ attach' = [attach EXCEPT ![a] = IdleAttach]
  /\ UNCHANGED <<bucket, urls, confirming, request, scanner, remover, reconciler, abandoned, faults>>

\* The process dies or the commit fails.
AbortAttach(a) ==
  /\ attach[a].pc # "idle"
  /\ Fault
  /\ undone' = undone \union attach[a].old
  /\ attach' = [attach EXCEPT ![a] = IdleAttach]
  /\ UNCHANGED <<row, bucket, urls, confirming, request, scanner, remover, reconciler, abandoned>>

-----------------------------------------------------------------------------
(* Reconciliation *)

\* The worker reads a batch of uploaded files, and looks at one after the other.
ListUploaded(k, f) ==
  /\ reconciler[k].pc = "idle"
  /\ Uploaded(f)
  /\ reconciler' = [reconciler EXCEPT ![k] =
                      [pc |-> "listed", file |-> f, token |-> row[f].active]]
  /\ UNCHANGED <<row, bucket, urls, confirming, request, scanner, remover, attach, history>>

\* No answer ends the look as well.
LookForObject(k) ==
  /\ reconciler[k].pc = "listed"
  /\ \/ /\ candidate[reconciler[k].file][reconciler[k].token] = None
        /\ reconciler' = [reconciler EXCEPT ![k].pc = "missing"]
     \/ reconciler' = [reconciler EXCEPT ![k] = IdleReconciler]
  /\ UNCHANGED <<row, bucket, urls, confirming, request, scanner, remover, attach, history>>

\* updateById of the row as it is by now.
MarkMissing(k) ==
  LET f == reconciler[k].file IN
  /\ reconciler[k].pc = "missing"
  /\ ~Held(f)
  /\ row' = IF Live(f) THEN [row EXCEPT ![f].status = "failed"] ELSE row
  /\ reconciler' = [reconciler EXCEPT ![k] = IdleReconciler]
  /\ UNCHANGED <<bucket, urls, confirming, request, scanner, remover, attach, history>>

-----------------------------------------------------------------------------

\* A day goes by, then six more; a URL lives for minutes.
Age(f) ==
  /\ Exists(f) /\ row[f].age # "old"
  /\ row' = [row EXCEPT ![f].age = IF @ = "new" THEN "stale" ELSE "old"]
  /\ urls' = urls \ {f}
  /\ UNCHANGED <<bucket, confirming, request, scanner, remover, attach, reconciler, history>>

RequestStep(r) ==
  LockUser(r) \/ CheckQuota(r) \/ InsertPending(r) \/ SignUrl(r)
ScannerStep(s) ==
  \/ ReadSource(s) \/ RenewLease(s) \/ ScanSource(s) \/ CopyToCandidate(s) \/ VerifyCandidate(s)
  \/ CompleteScan(s) \/ DropCandidate(s) \/ DropQuarantine(s) \/ DropOtherCandidates(s)
  \/ RetryScan(s) \/ RejectScan(s)
RemoverStep(m) == MarkDeleted(m) \/ RemoveQuarantine(m) \/ RemoveCandidates(m) \/ HardDelete(m)
AttachStep(a) == EraseOccupants(a) \/ LinkFile(a)
Stops ==
  \/ \E r \in Requests : EndRequest(r)
  \/ \E s \in Scanners : StopScanner(s) \/ BucketFails(s)
  \/ \E m \in Removers : StopRemover(m)
  \/ \E a \in Attachers : AbortAttach(a)
FileStep(f) ==
  \/ \E r \in Requests : BeginUpload(r, f)
  \/ \E c \in Contents : PutObject(f, c)
  \/ BeginConfirm(f) \/ MarkUploadReady(f)
  \/ \E s \in Scanners : ClaimUploading(s, f)
  \/ \E m \in Removers : BeginDelete(m, f) \/ BeginPurge(m, f) \/ ClaimCleanup(m, f)
  \/ \E a \in Attachers, link \in {"loose", "slot"} : BeginAttach(a, f, link)
  \/ \E k \in Reconcilers : ListUploaded(k, f)
  \/ LeaseEnds(f) \/ Age(f)

Next ==
  \/ \E f \in Files : FileStep(f)
  \/ \E r \in Requests : RequestStep(r)
  \/ \E s \in Scanners : ScannerStep(s)
  \/ \E m \in Removers : RemoverStep(m)
  \/ \E a \in Attachers : AttachStep(a)
  \/ \E k \in Reconcilers : LookForObject(k) \/ MarkMissing(k)
  \/ Stops

Spec == Init /\ [][Next]_vars

Fairness ==
  /\ \A s \in Scanners : WF_vars(ScannerStep(s))
  /\ \A m \in Removers : WF_vars(RemoverStep(m))
  /\ \A a \in Attachers : WF_vars(AttachStep(a))
  /\ \A f \in Files : WF_vars(LeaseEnds(f)) /\ WF_vars(Age(f))
  /\ \A f \in Files : SF_vars(\E m \in Removers : ClaimCleanup(m, f))

FairSpec == Spec /\ Fairness

-----------------------------------------------------------------------------
(* Properties *)

\* Files whose bytes go, or went, under a row that stays or may stay.
Forsaken == undone \union UNION {attach[a].old : a \in Attachers}

\* file-scan.worker: whatever scanners, browsers, deletions and clean-ups do in between, the
\* object behind an uploaded file is there and holds contents that were found clean - until the
\* file is purged or being replaced, which take the bytes before the row.
ServedIsClean ==
  \A f \in Files \ Forsaken : Uploaded(f) => candidate[f][row[f].active] \in Clean

\* file-reconciliation.worker and the fences of completeScan and rejectScan: an uploaded file
\* keeps its object until it is deleted; no late scanner and no repair fails or replaces it.
\* A purged file is none: its bytes go first, and reconciliation may fail it meanwhile.
UploadedIsFinal ==
  [][\A f \in Files \ Forsaken : Uploaded(f) =>
       row'[f].status = "uploaded" /\ row'[f].active = row[f].active]_vars

\* The worker that copied a candidate, or the row that names it, will still delete it.
Accountable(f, t) ==
  \/ Exists(f) /\ t <= row[f].attempts
  \/ \E s \in Scanners : scanner[s].pc # "idle" /\ scanner[s].file = f /\ scanner[s].token = t
  \/ <<f, t>> \in abandoned

\* file-scan.worker and file-cleanup.worker: no candidate outlives its row without a process
\* that deletes it, unless that process died or was refused, or its scan was completed between
\* a purge's read of the row and its deletion of the row.
NoOrphanedCandidate ==
  \A f \in Files, t \in Tokens : candidate[f][t] # None => Accountable(f, t)

\* request-upload: requests of one user in several organizations and of several users in
\* one organization never reserve more than the quotas.
QuotaKept ==
  /\ \A u \in Users : Usage(FilesOf(u)) <= UserQuota
  /\ \A t \in Tenants : Usage(FilesIn(t)) <= TenantQuota

\* Scans, leases, workers and crashes together keep the life of a file as its user sees it
\* (FileLifecycle): what is served is what was confirmed, whoever has uploaded or scanned
\* what since, and only a deletion, a purge or the loss of the object takes it out of service.
Standing(f) ==
  CASE row[f].status = "absent" -> "none"
    [] row[f].status = "gone" -> "gone"
    [] Exists(f) /\ row[f].deleted -> "deleted"
    [] Live(f) /\ row[f].status = "pending" -> "reserved"
    [] Live(f) /\ row[f].status \in {"uploading", "scanning"} -> "accepted"
    [] Live(f) /\ row[f].status = "uploaded" -> "served"
    [] Live(f) /\ row[f].status = "failed" -> "refused"

Object(f) == IF Uploaded(f) THEN candidate[f][row[f].active] ELSE None

Lifecycle == INSTANCE FileLifecycle
  WITH standing <- [f \in Files |-> Standing(f)], confirmed <- [f \in Files |-> row[f].etag],
       object <- [f \in Files |-> Object(f)], replaced <- Forsaken

KeepsLifecycle == Lifecycle!LifecycleSpec

\* file-cleanup.worker: every file ends up attached, or without row and (but for leftovers
\* of faults) without bytes, whatever became of its upload and of its scanners.
FilesEndAttachedOrGone ==
  \A f \in Files : Exists(f) ~> (row[f].status = "gone" \/ (Uploaded(f) /\ row[f].link # "none"))
=============================================================================
