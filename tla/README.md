# Modular monolith starter: a verification project

TLA+ models of the backend of this repository (`apps/api`, with the client's
refresh coordinator from `packages/api-client`), small instances checked with
TLC, and theorems checked with the TLA+ proof system. Paths below are relative to the
repository; `I/` is `apps/api/src/infrastructure/`, `M/` is `apps/api/src/modules/`.

| module | what it is |
|---|---|
| `Outbox` | the transactional outbox: table, relay crons, BullMQ jobs, event worker, operation receipts, retention, dead-letter replay |
| `OutboxPromise` | what the outbox promises a producer, without any of that machinery |
| `OutboxProofs`, `OutboxLeaseProofs`, `OutboxPromiseProofs` | proofs about `Outbox`, the last one that it implements `OutboxPromise` |
| `Notifications` | senders, batch windows, digests and delivery intents of one user |
| `NotificationsProofs` | proofs about it |
| `Sessions` | sign-in, refresh-token rotation, logout and password reset of one account |
| `SessionKeys` | what the sessions of an account promise: tokens that work, without Redis and without commands |
| `SessionsProofs` | proofs about `Sessions`, and that it implements `SessionKeys` |
| `Tenancy` | memberships, the owners' lock, invitations, and the erasures and deletions that bypass that lock |
| `TenancyProofs` | proofs about it |
| `Files` | uploaded files: quota, upload, scan, promotion, deletion, clean-up, erasure purges, attachment, reconciliation |
| `FileLifecycle` | what a file is to its user: reserved, accepted, served or refused, deleted, gone |
| `FilesProofs`, `FileLifecycleProofs` | proofs about `Files`, the last one that it implements `FileLifecycle` |
| `MCOutbox`, `MCNotifications`, `MCSessions`, `MCTenancy`, `MCFiles` + `.cfg` | instances for TLC |

To check: `tlc -config MCOutboxSafety.cfg MCOutbox`, and so on for each `.cfg`;
`tlapm OutboxProofs.tla`, and so on for each `*Proofs.tla`.

## 1. The system

NestJS processes in two roles (`PROCESS_ROLE` api or worker; both may run
many times) over PostgreSQL, Redis and S3. Commands and repositories own short units
of work (`withResultTransaction`, `runTransaction`; READ COMMITTED), and a command called by another
joins its transaction; a transaction around a whole request is opt-in (`@DatabaseTransaction`,
`database-transaction.interceptor.ts`). A callback after the commit
(`runAfterCommit`) runs at once where there is no transaction, and its failure is only logged.
Modules call each other's commands and queries in-process, and talk
asynchronously through domain events, which the outbox carries. Cron workers run in
every worker process; most wrap their body in `withExclusiveExecution`, a Redis
lease that may lapse while the body still runs, so it reduces concurrency and excludes none.

### Inventory

| component | state it keeps | operations | hard behaviour | what makes it correct | in |
|---|---|---|---|---|---|
| Transactional outbox (`I/outbox`) | `outbox_events` rows; relay's batch in memory | dispatch, relay tick, enqueue, lock touch, retry with back-off, stale-lock recovery, retention, replay | relay and worker both write the row; crash between any two of receipt, queue and row | published only after every consumer took effect; nothing owed disappears; every event settles | `Outbox` |
| Operation receipts (`I/idempotency`) | `operation_receipts` | claim, complete, release, expire | a claim that outlives its lease; a claim nobody releases | one holder runs consumers; only a fault of its own leaves a claim to its lease | `Outbox`, and in-transaction in `Notifications` |
| Queue (`I/queue`) | BullMQ jobs by event id | add (ignored if the id exists), take, stall, fail, evict | a retained failed job absorbs re-enqueues | no attempt beyond the maximum | `Outbox` |
| Notifications (`M/notifications`) | rows, batches, delivery intents, preferences, device tokens | send, append to window, close window, deliver, retain, purge, mark read | window chosen without a lock; slow workers after their lease | one row per event; a digest equals its window; a settled intent stays | `Notifications` |
| Sessions and sign-in (`I/session`, `M/auth`, parts of `M/users`, `packages/api-client`) | account version, sessions, index, rotation chains in Redis, the device's cookie | login, verify e-mail, refresh, logout, reset, expiry, cap | commands of several awaits across PostgreSQL and Redis; lost answers; tabs | one usable token per session; nothing outlives a version bump; no false reuse | `Sessions` |
| Tenancy (`M/tenancy`) | memberships, invitations | invite, accept, change role, remove, delete organization | check-then-write; an advisory lock some paths do not take | an owner remains; an invitation is used once | `Tenancy` |
| Files (`M/files`) | `files` rows, objects in S3, quota | request, confirm, scan, link, delete, clean up, purge, reconcile | leases with claim tokens; S3 cannot roll back | what is served was found clean; no late scanner writes; quota holds; every file ends attached or gone | `Files` |
| Privacy (`M/privacy`) | `dsr_requests` | request export or erasure, claim, fulfil, fail, expire | two-phase erasure; claims by attempts | one pending erasure; a request settles once | not modelled |
| HTTP idempotency (`common/utils/idempotency*`) | keys in Redis | claim, cache, release, recover | answer lost after success; claim lost | a command runs at most once per key | not modelled |
| Redis lock, cache | leases; cached rows | acquire, renew, release; get, set, invalidate | lapse while running; stale put-back | at most one live holder; staleness bounded | not modelled |
| Realtime (`I/realtime`) | stream, groups, connections | publish, read, ack, claim, dead-letter, reap | an instance reaped while stalled | a routed message is acknowledged only after routing | not modelled |
| Users (rest), registration, rate limits, lockout, breakers, e-mail, storage, audit, flags, authorization, notes, health and observability, clients, packages | rows and counters | single-row writes, counters, pure predicates, I/O | little of their own | tested in place | not modelled |

`PROJECT.json` lists every component with its status and reason, and all hazards with
the properties that cover them. Its `sources` name every file in which a component keeps or
changes state (commands, workers, listeners, repositories, services, schemas), without controllers, mappers and
modules; of the four components that keep none (breakers and e-mail, authorization and guards, health
and observability, clients and shared packages) they name an entry point only. The definitions of
the modules stand for some 3,600 lines of the repository: about two fifths of the files of the seven components
they are about, a quarter of all the files named there, and a twentieth of the whole tree, most of which is
clients, UI components, generators, checks, contracts and read paths that have no state to model.

### How the modelled parts interact

A command dispatches an event by inserting its outbox row in its own transaction. A relay
locks pending rows and adds one job per row to BullMQ; the event worker claims the receipt
of the event, runs its required consumers one after the other and then the
listeners, completes the receipt and publishes the row. `SendNotificationCommand` is such a
consumer: it may be run again and concurrently, so `Notifications` lets any
sender start on any event at any time, which is what `Outbox` permits (its
`ConsumeStage`), and keeps its own receipt in the row's transaction. The listener that removes the
memberships of a deleted account is such a consumer as well: in `Tenancy` it may run late and again. Sign-in shares
only the account row and Redis with the others and stands alone, and so do files, whose
only meeting with another module is the slot of a note.

## 2. The modules

In all of them one action is what happens between two awaits: one SQL statement or commit, one
Redis command or Lua script, one call of a consumer or a provider. A process
in the middle of a command is a record with a program counter and its local
variables. Time is abstract: a lease, lock or window that may be over may be found so at any step
(or, where a constant says so, only if its holder is gone).

### Outbox

- `row`, `receipt`, `job` are what PostgreSQL and BullMQ hold for an event; `run` what a
  worker slot executes, `relay` what a relay does with its batch, `seen` the
  attempts it read, `replay` the operator's procedure. `handled` is the history of stages
  (required consumers, then the listeners) that took effect.
- Relay: `LockPending`, `Enqueue`, `TouchLock`, `ScheduleRetry` (and `InlineBegin/Consume/Publish`
  when there is no queue) are `outbox-relay.delivery.ts`; `RecoverStaleLock`, `RetainPublished` its crons.
- Worker: `TakeJob`, `Claim`, `ConsumeStage`, `Complete`, `Publish`, `FinishJob` and the exits
  `Release`, `Bury`, `RejectJob` are `outbox-event.worker.ts` with the receipt repository.
- BullMQ is external: a job id is added once, a stalled job goes back to waiting up to
  `maxStalledCount`, a failed job keeps its id until evicted.
- Faults: a consumer that fails, a database call that fails before or after it took effect,
  Redis calls, a worker or relay that dies, a handler that is stalled while it still runs.

### OutboxPromise

Accepted events are owed, published only when all stages have taken
effect, parked (dead letter), reopened (replay, or a relay's late retry), forgotten only after
published. `KeepsPromise` is this specification under the refinement mapping
`standing <- Standing(e)`, `effects <- handled`.

### Notifications

- `receipt`, `copies`, `window`, `digest`, `intent`, `recorded` are committed tables; a
  sender's own uncommitted writes are folded into its commit, but its row locks and the unique-key lock
  of a window being created are visible to others at once, since they block.
- Sender (`send-notification.command.ts`): `StartSend`, `ClaimReceipt`, `FindOpenWindow`,
  `AppendToWindow`, `CreateWindow`, `RefindWindow`, `CommitSend`, `RecordSend`, `AbortSend`.
  Which channels the user wants is chosen anew each time (`\E wanted`).
- Digest worker: `LockDueWindow`, `PrepareDigest`, `CloseWithoutDelivery`, `RecordDigest`.
  Delivery worker: `ClaimIntent`, `CallProvider`, `MarkDelivered`, `MarkFailed`; `LeaseExpires` and
  `PruneIntent` are its lease and the retention cron.
- Faults: a failed statement, a provider that refuses or whose answer is lost, a crash, a worker slower than its lease.

### Sessions

- `user` is the account row, `live`, `index`, `revoked`, `head`, `used` the Redis keys of its
  sessions, `signed` every refresh token ever signed, `cookie` and `lock` the
  device's cookie and its coordinator (`refresh-coordinator.ts`), `login`, `refresh`, `revocation` the
  commands in progress; `opened` and `lost` are histories.
- Sign-in: `VerifyCredentials` and `ReadAccount` are the two reads of
  `VerifyUserCredentialsQuery`; `VerifyEmail` the single UPDATE of the e-mailed link; `OpenSession` is the
  `CREATE_SESSION_SCRIPT` with its cap (`Overflow`).
- Refresh (`refresh-tokens.command.ts`): `LoadSession`, `CheckVersion`, `Rotate` or `RefuseRotation`
  (`Verdict` is `ROTATE_REFRESH_SCRIPT`), and after reuse `FindSession`, `DeleteSession`, `UnlistSession`,
  `MarkRevoked`; on the client `StartRefresh`, `Answer`, `TimeoutRefresh`.
- Logout and reset: the version bump, then `ListSessions`, `KillSessions`, `DropIndex`, `AnswerRevocation`.
- Sessions and tokens are numbered in the order they are made, which stands for random ids and for
  the creation times that score the index (ties of the millisecond and clock skew
  between processes are abstracted). The pipeline that kills the listed sessions is one
  step. `getRefreshSession` reads the revocation mark and then the session; since a session is deleted before it is marked and
  never made again, the second read decides and the two are one step.
- Faults: a client that stops waiting (10 s), a process or an answer lost, Redis not ready.
  An aborted sign-in is free: it changes nothing but where the sign-in stands.

### SessionKeys

Of a session at most one token works. A sign-in opens a session whose token works, unless a sign-out has overtaken it; a refresh spends the
token that works and hands out the one that works from then on; a sign-out ends what works; and a session can end at any other time (expiry, the cap,
reuse, a revocation that reaches it). There is no step by which a session that has ended works again. `KeepsKeys` is this specification under
`version <- user.version`, `known <- DOMAIN opened`, `issued <- DOMAIN signed`, and `works`, of each session, the tokens a refresh that ran now would accept (`Working`).
A refresh that was under way when a logout bumped the version still signs a token, of a session that does not work: an abstract `Rotate` of nothing.
A rotation that wrote the session as well as its chain would bring back one deleted meanwhile (`RotateAnew`), which no single state shows.

### Tenancy

- `org`, `member`, `invitation`, `account` are committed tables, `leaving` the users whose `user.deleted` is still in the outbox,
  `lock` the advisory lock `tenancy:owners:<t>`, `tx` the requests; `unlocked` is a history: organizations that lost an owner on a path without that lock.
- A request's uncommitted insert or delete shows only in who waits: `Held` rows and `Inserting`. Its last write and the commit are one step.
- `LockOwners`, `CountOwners`, `WriteMember` are `update-member` and `remove-member`; the actor's role (`BeginRoleChange`) was read by the guard, earlier.
- `CheckInvite`, `CreateInvitation`, `Join`, `Accept`, `Expire`, `DeleteSettled` are invitations from creation to retention; `ScrubMembers`,
  `EraseOrganization`, `HardDelete` an organization's end; `DeleteAccount`, `RemoveMemberships`, `PurgeMemberships`, `EraseAccount` an account's.
- Faults: `Abort`, at any step.
- `OnlyOwnersMoveOwnership` is the other thing the lock is for: the rights checked under it still hold at the write, though the target may have been promoted while the request waited.
- `LockedPathsKeepAnOwner` is what the lock is for, and says no more than the code achieves. The module also has behaviours no run
  asks about: an account deleted or erased while it is promoted leaves an organization without an owner (`docs/PRIVACY.md:47` promises that this is blocked;
  but the check and the promotion do not exclude each other), an acceptance concurrent with an organization's erasure leaves a
  member in the erased organization, and two admins can have two pending invitations for one address. They are hazards in `PROJECT.json`.

### Files

- `row` is the table, `quarantine` and `candidate` the bucket, `urls` the presigned URLs still valid; `confirming`, `request`, `scanner`,
  `remover`, `attach`, `reconciler` the processes between two awaits. A claim's token is its attempt's number: tokens are only ever compared, and candidates listed by row.
- Reservation (`request-upload.command.ts`): `BeginUpload` takes the organization's lock, `LockUser` the user's, then `CheckQuota`, `InsertPending`, `SignUrl`. The locks are where a request stands.
- Browser: `PutObject`, again and again while the URL lives. `BeginConfirm` and `MarkUploadReady` pin the ETag that was seen.
- Scan (`file-scan.worker.ts`): `ClaimUploading`, `ReadSource`, `RenewLease`, `ScanSource`, `CopyToCandidate`, `VerifyCandidate`, `CompleteScan`, and the exits
  `RetryScan`, `RejectScan`, `DropCandidate`, `DropQuarantine`, `DropOtherCandidates`. Contents are their ETag. A lease may lapse at any moment.
- Ends: `BeginDelete` with `MarkDeleted` (a user), `ClaimCleanup` (the cron), then `RemoveQuarantine`, `RemoveCandidates`, and for a clean-up `HardDelete`.
  `BeginPurge` (`purge-user-files.command.ts`, `purge-tenant-files.command.ts`) marks nothing: it reads the row, and then deletes the bytes it named, and the row by
  its id alone. It comes thirty days after the request, which has ended the account's sessions or the organization's memberships, so the row is `old`. `Age` stands for the cut-offs of one and seven days.
- Attachment (`attach-file-to-note.command.ts`): `BeginAttach`, `EraseOccupants`, `LinkFile` in one transaction; reconciliation: `ListUploaded`, `LookForObject`, `MarkMissing`.
- Faults: a process that dies, a bucket that refuses or whose copy succeeds without an answer, a signing that fails.
- `ServedIsClean` is the point of quarantine, ETags, candidates and fences together; `UploadedIsFinal` that nobody late undoes it, and that reconciliation, which marks by id alone on
  an old reading, is right to as long as bytes go after a mark; `NoOrphanedCandidate` that the bucket's bytes have somebody who answers for them. `abandoned` excepts candidates whose scanner
  died or was refused, and that of a scan completed between a purge's read of its page and its deletion of the row, which then names it no more. `Forsaken` excepts files whose bytes go before a row that may stay.
  One kind is the purged (`undone`): until their row goes, or for good if the purge dies or a bucket call is refused, they are live and uploaded without bytes, and
  a reconciliation fails them; a retry of the purge ends them. The other is what an attachment is replacing:
  the replacement deletes their bytes inside the transaction: if the link is then refused, or the commit fails, the row comes back without
  bytes. `docs/FILE_UPLOADS.md:73-76` prescribes that order, `docs/PRIVACY.md:60-62` the contrary for purges: calls of S3 outside of transactions
  that can roll back; attaching and removing an avatar is written like the former. This is a hazard in `PROJECT.json`, with no run.

### FileLifecycle

A file is reserved; what its user confirmed is accepted, then served if it is clean, or refused; a served file is
refused only when its object is missing; all are deleted and gone in the end. What is served is what was confirmed, and it is never
exchanged; it can be lost only while the file is, or was to be, replaced in a slot or erased (`replaced <- Forsaken`, given to the specification from outside, since
only attachments and purges know it), and an erasure ends the file without a mark (`Erase`). Neither scans, attempts, candidates nor processes occur in it. `KeepsLifecycle` is this specification under
`standing <- Standing(f)`, `confirmed <- row[f].etag`, `object <- Object(f)`: the candidate a live uploaded row names. A step
of the abstract specification takes any number of files one step each, because a replacement commits its link and its deletions together.
What it adds to `ServedIsClean` is identity: not just clean bytes, but those the user was shown at the confirmation, however often the presigned URL was used since.

## 3. The runs

| run | question | size | result |
|---|---|---|---|
| `outbox_safety` | `DeliveryInvariant`, `OnlyFaultsLeaveClaims`, `KeepsPromise` | 1 event, 2 workers, 1 relay, 2 stages, 2 attempts, every fault kind (at most 1), 1 replay of any row | holds, 340,550 states |
| `outbox_live` | `ConsumesUnderReceipt`, `EventuallySettled` | 1 event, 2 workers, 2 faults (consumer, crashes, stall), leases outlive handlers, fair | holds, 84,553 states |
| `outbox_inline` | `PublishedImpliesHandled`, `EventuallySettled` without a queue | 2 events, one of them never succeeding, batches of 2, 1 fault, fair | holds, 1,207 states |
| `outbox_stuck` | `EventuallySettled` with two worker crashes and `maxStalledCount` 1 | 1 event, 2 workers, fair | violated: finding |
| `notifications_safety` | `OneRowPerSource`, `DigestShowsItsWindow`, `EachItemOnce`, `OneClaimHolder`, `SettledStaysSettled` | 2 batched events, 2 windows, 2 senders, 2 digest and 2 delivery workers, 2 faults | holds, 303,078 states |
| `notifications_live` | `EverythingSettles` | 1 batched and 1 immediate event, a channel that never accepts, 2 faults, fair | holds, 90,389 states |
| `notifications_lost_item` | `BatchedItemIsInAWindow`, no fault | 3 events, 2 of them batched | violated: finding |
| `sessions_safety` | `OnlyNewestRotates`, `NoSessionOutlivesItsVersion`, `ReuseOnlyAfterLostAnswer`, `KeepsKeys` | 1 device, 2 refreshes, 1 logout or reset, 2 sessions under a cap of 1, 3 tokens, 2 faults of any kind | holds, 2,894,077 states |
| `sessions_old_password` | `CurrentPasswordOnly`, no fault | 1 device, 1 refresh, 1 reset | violated: finding |
| `tenancy_safety` | `LockedPathsKeepAnOwner`, `JoinsSpendAnInvitation`, `OnlyOwnersMoveOwnership` | 1 organization, 2 users, 2 invitations, 2 requests at once, aborts without limit | holds, 1,065,812 states |
| `files_safety` | `ServedIsClean`, `NoOrphanedCandidate`, `UploadedIsFinal`, `KeepsLifecycle` | 1 file, a clean and an unclean content, 2 scanners, 2 attempts, 1 deletion, clean-up or purge, 1 attachment, 1 reconciliation, 1 fault | holds, 2,603,407 states |
| `files_live` | `QuotaKept`, `FilesEndAttachedOrGone` | 1 user, a file in each of 2 organizations, a quota of 1, 1 scanner with 1 attempt, 1 fault, fair | holds, 431,126 states |

### Why these bounds

A race needs two parties and a victim: two workers on one event, two senders on one
window, two refreshes of one session. Events do not interact in the outbox except through a
relay's batch, which `outbox_inline` (and the proofs, for any number) take in. Two attempts
show a first try, a retry and the limit; two faults a failure during the recovery from
another. Two items in a window (`MaxItems` 2) could be the same item twice, which `EachItemOnce` excludes; with `MaxItems` 1 a window overflows
at its second item: that instance was run too, and holds in the same 303,078 states. `Cap` 1 a second sign-in evict the first
session; three tokens make a chain of a rotation and its successor, or two chains. Version 1 is
one bump, before or after which everything else can happen. Every bound is a
constant, none is in the code's logic; the theorems below hold for all their values. The
sessions instance with two devices and one fault is left out for its length: its first
9.5 million states show no violation, and the theorems cover it.

Two requests and two users show every race of two owners; a third request only waits for
the lock. Two invitations are an expired one and its successor. Invitations carry the role of a member in the run; admins come from role changes.
`files_safety` has one file, since files meet only in the quota and in a slot; a file that replaces itself in its
slot is the smallest replacement. Two attempts of two scanners make a late scanner and its successor. The file's user may be erased (`Erased` holds `f1`
in both files runs), so a purge meets every other process. The instance with two uploaded files, a slot, one scanner and no fault
was run as well: it holds there, in 12.6 million states, and is left out for its length; the theorems cover both. In `files_live` a second
scanner would only be a second chance, and without attachments "attached or gone" means gone; one attempt makes its first crash the last.

`CHECK_DEADLOCK FALSE` in the outbox configurations, since when all events are settled and no
replay is left the pipeline rests; in the tenancy configuration, since when the organization is gone and all accounts are closed nothing is left to ask for;
and in the files configurations, since all files may be gone. The other modules never stop.

### Fairness

- Outbox: relays and running handlers proceed (weak fairness of their whole step, since crons fire
  for ever and a promise that is awaited resolves); a waiting job is in the end handed to some worker
  (strong, for other jobs may take the slot in between); stale locks are recovered and dead holders
  detected; receipt leases end. Nothing makes failed jobs leave the queue's retention or an operator replay.
- Notifications: senders' transactions go on, windows fall due, digest and delivery crons fire, leases
  end. Nothing is bound to be dispatched, nor retention to run.
- Files: a scanner, a clean-up or an attachment that is at work goes on, leases end, days go by (weak fairness); the hourly clean-up finds a
  file that stays cleanable (strong fairness of its claim, because it works on other files in between). Nobody is bound to upload, to confirm or to scan: the property holds without it.
- Sessions and Tenancy are checked for safety only: their promises are about what may not happen, and a request that is not made again is nobody's debt.

### Findings

1. `outbox_stuck`: a job whose workers died more often than `maxStalledCount` is failed by BullMQ without its
   handler; it is retained under the event's id, every re-enqueue of the relay is ignored, and the row is never settled.
2. `notifications_lost_item`: `appendToBatch` ignores that its append found no open window any more.
3. `sessions_old_password`: a sign-in joins the password of one read with the version of a later one,
   and a reset in between neither refuses nor revokes its session.

Each is in `PROJECT.json` with the lines and the text it contradicts.

## 4. The proofs

All theorems are about `Spec`, for every value of the constants that satisfies
the module's `ConstantsAssumption`; those assumptions only fix types, name `None` apart, and are
evaluated by TLC in the runs.

**Outbox.** `DeliveryInvariantHolds`: `DeliveryInvariant` is inductive as stated. A handler's program counter implies which
stages have taken effect (`HandlerProgress`, `InlineProgress`), so completing a receipt means they all did
(`CompletedImpliesHandled`), and a handler that skips the consumers because the receipt is complete publishes rightly.
`RetriesLeft` carries the attempt bounds the types need. `PublishedOnlyWhenHandled` follows.
`ConsumesUnderReceiptHolds` adds `OwnedLeaseIsLive` to become inductive, and assumes
`LeaseOutlivesHandler` and `MaxReplays = 0`: without the first a lapsed claim is taken over while its holder
runs, without the second a replay deletes a live one (the code guards against neither).
`OnlyFaultsLeaveClaimsHolds` needs neither: a PROCESSING receipt whose handler is no longer on its way to complete or release it is left to its lease, and blocks every
retry until then (OPERATION_IN_PROGRESS, up to the dead letter). The code accepts three causes, each a fault: the answer to the claim's own commit is lost, the release fails (it is only logged), the
process dies. The theorem says there is no other one - not a failed consumer or completion, a take-over, a stall or a replay. It is proved step by step, from the types alone.
`ImplementsPromise`: the initial state maps to one of `OutboxPromise`, and each action to a step or a stutter; the
invariant supplies that publishing finds all effects, and `AcceptedFirst` that nothing takes effect before the row exists.

**Notifications.** The invariant has four layers. Shapes: types and what a program counter implies.
Receipts: a receipt is committed exactly with its row, and only one sender holds its uncommitted key (`OneRowPerSource`).
Locks: a window's lock belongs to the one process whose program counter says so, an open window has no digest
(`DigestShowsItsWindow`). Claims: attempts of an intent never go down and a worker holds at most the
current number, so two workers with the current number are one (`OneClaimHolder`, `SettledStaysSettled`).
`EachItemOnceHolds` adds `Placed`: what stands in a window was committed with its receipt. By Receipts the source a
commit is about to place has no receipt yet, so it stands in no window; the commit puts it at the end of one, where the limit `MaxItems` drops
items from the front only (`NewestIsEnd`), and every other step leaves the items of all windows alone (`ItemsStep`).

**Sessions.** `Ledger`: a token carries the version its session was opened with, and a rotation signs the version it compared
(`NoSessionOutlivesItsVersion`; so the guarantee rests on the version alone and survives any failure of the revocation).
`Chains`: of the tokens of a session exactly the newest is unused, and `head` names it or is absent (`OnlyNewestRotates`).
`Holders`, `Deliveries`, `Answers`: a device waits for at most one request and handles only its own sessions' tokens; a token on its way
to it is unused; a used token still in somebody's hands has a lost answer, or one about to arrive
(`ReuseOnlyAfterLostAnswer`).

`ImplementsKeys`: by `Chains`, a token works if it is the newest of a live, unmarked session and carries the account's version (`WorkingFacts`). So only what a step does to the histories,
`live`, `revoked` and the version counts, and a step does one of four things (`StepKinds`): it opens a session, it rotates, it bumps the version and leaves the rest, or it hands out nothing and
only takes sessions away (`Quiet`). After a bump nothing works, for no token is of a later version than the account (`Past`, which TLC checked first on the instance of `sessions_safety`).
A rotation's token inherits what its predecessor was worth, and `OpenSession` takes an identifier no token carries (`Ledger`).

**Tenancy.** `Exclusive`: the lock is held by exactly the request between its checks and its write. `Guarded`: a write about to take an owner
away leaves another, which `CountOwners` has seen and nobody else can have changed since, for all other takers need the lock too or are in `unlocked`
(`LockedPathsKeepAnOwner`). `Joining`: a request about to accept has its invitation's data and is alone in inserting its row, so what it
inserts is what the invitation grants (`JoinsSpendAnInvitation`); `Known` and `Shapes` bound what the two speak of.
`OnlyOwnersMoveOwnershipHolds` adds three conjuncts. `Authorized`: a request between its checks and its write that no owner began neither grants ownership nor aims at an owner; that stays true because only
holders of the lock write roles, foundings are of organizations nobody works on yet, and no invitation carries ownership. `Holding` and `Departed`: rows that go without the lock are those of an
organization that is erased or of a user whose account is gone. The role of the actor is the one its guard read: an owner demoted since may still finish what he began.

**Files.** The invariant says of each process what it knows. `Claims`: tokens are handed out once and counted in the row; so a scanner
that no longer holds its claim never will again. `Scans`: from the scan to the completion the source a scanner has pinned is clean, and its verified candidate is that
source; a scanner that is not cleaning up after its own win has another token than the active one (`ServedIsClean`: no loser can touch the winner's object).
`Removals`: a deletion or clean-up has marked its row before it touches an object, and the tokens a last clean-up names are all there are, because a marked row is claimed no more.
A purge has marked nothing, so it is known less of it: its file is in `undone`, and when its row is about to go, each candidate left has a scanner that will delete it, is `abandoned`, or is the active
one of a scan completed since the purge's read, which `HardDelete` makes `abandoned` (`NoOrphanedCandidate`, by `Accounted` and `Outlived`). `Reconciling`: an object that was looked for and not found belongs to a file that is not served any more or is forsaken
(`UploadedIsFinal`). `Rows`, `Reserving` and `Replaced` supply that a file is untouched before its URL is signed and that attachments concern settled files.
Instead of following each action through each conjunct, one relation on rows, `Evolves` (what no step undoes in a row, and who explains a change), is proved of every action, and
the conjuncts that hold of any such step are proved from it once (`ClaimsKept`, `AccountedKept`, `ServedKept`, `ReplacedKept`, `ScannerKept`).

`QuotaKeptHolds`: `QuotaInvariant` is inductive relative to `IInv`. `OneOfUser` and `OneOfTenant` are the two advisory locks; `Room` says that what a request has checked still
holds when it inserts, since whoever else inserts for its user or its organization would hold a lock it holds, and every other step only takes files out of the count. The cardinalities
come from the library's facts on finite sets (`Files` is assumed finite).

`ImplementsLifecycle`: every step changes the row of a file in one of ten ways (`Moves`), and the bytes of an uploaded file only when a replacement or a purge erases them (`ObjectKept`).
`LifeInvariant` supplies what a row does not say: a scanner works on the ETag that was confirmed, because nothing is confirmed after a claim (`Sourced`); a reconciliation about to fail
a file has seen its object gone, and no object comes back (`Missed`); a row that is gone remembers nothing (`Forgotten`). It was first checked by TLC on the instance of `files_safety`.
Then each way is a step of `FileLifecycle` or none: completing a scan is `Serve`, by `Scans` and `Sourced`; failing an uploaded file is `Miss`, by `Missed`.

**Only model-checked.** Liveness (`EventuallySettled`, `EverythingSettles`, `FilesEndAttachedOrGone`), since fairness and `ENABLED`
are beyond the prover; and the violations, which are facts about small instances. Induction
over data and `RECURSIVE` operators would be beyond it too; no module uses them.

## 5. What is not modelled

- Back-off times, cron periods and batch order; tracing, metrics and logs.
- Outbox: the Redis markers that replace receipts when no receipt module is provided (`AppModule` provides
  it); envelopes that do not parse take the same path as a failing consumer; the exit without a queue in production
  (`outbox-relay.delivery.ts:66-68`), which takes the path of a failed delivery: without a queue the model is outside production.
- Notifications: preferences, device tokens, mark-read and the unread cache (single-row writes); purging a user; deduplication at a provider.
- Sessions: lockout, registration, requesting a reset, deletion of the account; access tokens; `validate` and `getActiveSessions`, which nothing calls.
- A client's fingerprint and access token, by which the coordinator also notices another tab's refresh: it only makes it start fewer refreshes.
- Tenancy: row-level security, which decides what the erasures see and is taken to show them everything of their tenant or user; the keys of a membership cache,
  which are deleted and no longer read; names and addresses copied into memberships; reads that only list.
- Files: the loop of the purges over pages, and what it makes of a page it could not read (`findByUploader` answers an empty list, `purge-tenant-files.command.ts:33` breaks: both report success); downloads and who may; the queue that wakes scanners and the delays of retries
  (they choose the moment of a claim, which is open); the bucket's own expiry of quarantined objects; two attachments to one slot at once; sizes (a quota counts files).
- Outbox: `replay` against a handler still at work (a late completion makes the redelivered job skip its consumers), and Notifications: the sender's list of channels, which overwrites
  the delivery worker's, are behaviours of the modules that no run asks about; both are hazards.
- The components listed as not modelled, for the reasons given in `PROJECT.json`.

## 6. Plan

Done: the outbox and its promise, notifications, sessions, tenancy, files, each with proofs of all its safety properties, and refinements of an abstract specification for the outbox, sessions and files. Left, in this order:

1. `Privacy`: exports and erasures claimed by attempts, two-phase fulfilment; a request is settled once; one pending erasure per subject.
   It shares the shape of `Notifications`' claims: a common lemma module for leases fenced by attempts. With it the purge of
   notifications, what decides when `Files`' purges run, and row-level security as a scope each transaction carries.
2. `IdempotencyKeys` (HTTP) and `RedisLock`, with Lua scripts as steps; then the cache's stale put-back and the realtime stream.
3. Composition: `Outbox` delivering to `Notifications`' senders and to `Tenancy`'s listener, to show that the abstract
   redelivery assumed there is all the outbox does; liveness of a refresh in `Sessions`.

Where one configuration can answer two questions, runs are merged before new ones are added.
