------------------------------- MODULE Outbox -------------------------------
(***************************************************************************)
(* The durable-event pipeline of apps/api: the outbox table, the relay     *)
(* crons that move its rows to BullMQ, the BullMQ jobs, the event worker   *)
(* that runs the consumers under a database operation receipt, the         *)
(* retention crons and the operator's dead-letter replay.                  *)
(*                                                                         *)
(* Every step is one database statement, one Redis call or one consumer    *)
(* call: whatever lies between two awaits of the code.  Time is left out:  *)
(* a lock or a lease may be found old at any step.  A database call that   *)
(* fails may have committed all the same.                                  *)
(***************************************************************************)
EXTENDS Naturals, FiniteSets

CONSTANTS
  Events,        \* outbox rows ever written (event id = job id = operation id)
  Workers,       \* slots that run one BullMQ job at a time
  Relays,        \* processes with a relay cron
  None,          \* no event, no worker
  Stages,        \* required consumers of a topic, then the listener fan-out
  MaxAttempts,   \* OUTBOX_MAX_ATTEMPTS, of the relay and of the job
  MaxStalled,    \* BullMQ maxStalledCount
  Batch,         \* rows one relay tick may claim
  Poison,        \* events one of whose consumers never succeeds
  DurableQueue,  \* FALSE: no REDIS_URL outside production, inline fan-out
  FaultKinds,    \* which of AllFaultKinds may happen
  MaxFaults,     \* how many of them (bound)
  MaxReplays,    \* operator replays (bound)
  ReplayAnyRow,  \* TRUE: operators also replay ids whose row is not dead
  LeaseOutlivesHandler  \* TRUE: no handler runs longer than its receipt lease

AllFaultKinds ==
  {"consumer", "database", "redis", "workerCrash", "relayCrash", "stall"}

ASSUME ConstantsAssumption ==
  /\ Stages \in Nat \ {0}
  /\ MaxAttempts \in Nat \ {0}
  /\ MaxStalled \in Nat
  /\ Batch \in Nat \ {0}
  /\ Poison \subseteq Events
  /\ DurableQueue \in BOOLEAN
  /\ FaultKinds \subseteq AllFaultKinds
  /\ MaxFaults \in Nat
  /\ MaxReplays \in Nat
  /\ ReplayAnyRow \in BOOLEAN
  /\ LeaseOutlivesHandler \in BOOLEAN
  /\ None \notin Events
  /\ None \notin Workers

VARIABLES
  row,      \* outbox_events, per event
  receipt,  \* operation_receipts of the event consumer, per event
  job,      \* the BullMQ job of the event
  run,      \* what each worker slot is executing
  relay,    \* what each relay is executing
  seen,     \* attempts of the rows of a batch, as the relay read them
  replay,   \* the operator's replay in progress
  handled,  \* history: the stages of an event that have succeeded
  faults,   \* history: faults so far
  replays   \* history: replays so far

vars == <<row, receipt, job, run, relay, seen, replay, handled, faults, replays>>

StageSet == 1 .. Stages

-----------------------------------------------------------------------------
(* Types. *)

\* "ABSENT" is not dispatched yet, "PRUNED" deleted by retention.
Status == {"ABSENT", "PENDING", "PROCESSING", "PUBLISHED", "DEAD_LETTER", "PRUNED"}

\* lockedAt of a row: a time or null.
RowType == [status : Status, attempts : 0 .. MaxAttempts, lockedAt : {"null", "set"}]

\* owner: the handler that knows the receipt id, None when none does any more (LeftClaims).
\* lease: has expires_at passed?
ReceiptType == [state : {"NONE", "PROCESSING", "COMPLETED"},
                owner : Workers \union {None}, lease : {"live", "expired"}]

\* holder: the slot that owns the job's BullMQ lock token.
JobType == [state : {"none", "wait", "active", "completed", "failed"},
            made : 0 .. MaxAttempts, stalls : 0 .. MaxStalled,
            holder : Workers \union {None}]

\* made: job.attemptsMade as the handler read it; done: stages of this attempt.
\* ownsEvent && !eventProcessed is pc \in {"consume", "complete", "release"}.
RunPcs == {"idle", "claim", "consume", "complete", "publish", "finish",
           "release", "bury", "reject"}
RunType == [pc : RunPcs,
            event : Events \union {None}, made : 0 .. MaxAttempts,
            done : 0 .. Stages]

\* left: the rest of the locked batch.
RelayPcs == {"idle", "deliver", "touch", "inline", "settle", "retry"}
RelayType == [pc : RelayPcs,
              event : Events \union {None}, left : SUBSET Events,
              done : 0 .. Stages]

ReplayType == [pc : {"idle", "removeJob", "requeue"}, event : Events \union {None}]

TypeOK ==
  /\ row \in [Events -> RowType]
  /\ receipt \in [Events -> ReceiptType]
  /\ job \in [Events -> JobType]
  /\ run \in [Workers -> RunType]
  /\ relay \in [Relays -> RelayType]
  /\ seen \in [Relays -> [Events -> 0 .. MaxAttempts]]
  /\ replay \in ReplayType
  /\ handled \in [Events -> SUBSET StageSet]
  /\ faults \in 0 .. MaxFaults
  /\ replays \in 0 .. MaxReplays

NoReceipt == [state |-> "NONE", owner |-> None, lease |-> "live"]
NoJob == [state |-> "none", made |-> 0, stalls |-> 0, holder |-> None]
NewJob == [state |-> "wait", made |-> 0, stalls |-> 0, holder |-> None]
IdleRun == [pc |-> "idle", event |-> None, made |-> 0, done |-> 0]
IdleRelay == [pc |-> "idle", event |-> None, left |-> {}, done |-> 0]
NothingSeen == [e \in Events |-> 0]
IdleReplay == [pc |-> "idle", event |-> None]

Init ==
  /\ row = [e \in Events |-> [status |-> "ABSENT", attempts |-> 0, lockedAt |-> "null"]]
  /\ receipt = [e \in Events |-> NoReceipt]
  /\ job = [e \in Events |-> NoJob]
  /\ run = [w \in Workers |-> IdleRun]
  /\ relay = [r \in Relays |-> IdleRelay]
  /\ seen = [r \in Relays |-> NothingSeen]
  /\ replay = IdleReplay
  /\ handled = [e \in Events |-> {}]
  /\ faults = 0
  /\ replays = 0

-----------------------------------------------------------------------------
(* Helpers. *)

Fault(kind) ==
  /\ kind \in FaultKinds
  /\ faults < MaxFaults
  /\ faults' = faults + 1

\* updateById touches no row that is not there.
Present(e) == row[e].status \notin {"ABSENT", "PRUNED"}

SetRow(e, status, attempts, lockedAt) ==
  row' = IF Present(e)
         THEN [row EXCEPT ![e] = [status |-> status, attempts |-> attempts,
                                  lockedAt |-> lockedAt]]
         ELSE row

Settle(e, status) == SetRow(e, status, row[e].attempts, "null")

\* A handler or relay moves on to its next await.
RunAt(w, pc) == run' = [run EXCEPT ![w].pc = pc]

RelayAt(r, e, pc, done) ==
  /\ relay' = [relay EXCEPT ![r] = [pc |-> pc, event |-> e, left |-> @.left, done |-> done]]
  /\ UNCHANGED seen

Runs(w, e) == run[w].event = e

\* OutboxConsumerRegistry.executeRequired, then emitAsync: one consumer after
\* the other, the first that fails ends the attempt.
StageSucceeds(e, stage) ==
  /\ ~(e \in Poison /\ stage = Stages)
  /\ handled' = [handled EXCEPT ![e] = @ \union {stage}]
  /\ UNCHANGED faults

StageFails(e, stage) ==
  /\ \/ e \in Poison /\ stage = Stages /\ UNCHANGED faults
     \/ Fault("consumer")
  /\ UNCHANGED handled

\* The handler of w still owns the receipt row it claimed.
Owns(w, e) == receipt[e].state = "PROCESSING" /\ receipt[e].owner = w

-----------------------------------------------------------------------------
(* The producer and the retention crons. *)

\* OutboxService.persist, in the caller's transaction, as committed.
Dispatch(e) ==
  /\ row[e].status = "ABSENT"
  /\ row' = [row EXCEPT ![e].status = "PENDING"]
  /\ UNCHANGED <<receipt, job, run, relay, seen, replay, handled, faults, replays>>

\* Mutation: the lock is cleared, the status is not.
RecoverLockOnly(e) ==
  /\ row[e].status = "PROCESSING"
  /\ row[e].lockedAt = "set"
  /\ row' = [row EXCEPT ![e].lockedAt = "null"]
  /\ UNCHANGED <<receipt, job, run, relay, seen, replay, handled, faults, replays>>

\* OutboxRelayWorker.recoverStaleLocks: lockedAt older than LOCK_TIMEOUT_MS.
RecoverStaleLock(e) ==
  /\ row[e].status = "PROCESSING"
  /\ row[e].lockedAt = "set"
  /\ row' = [row EXCEPT ![e] = [status |-> "PENDING", attempts |-> @.attempts,
                                lockedAt |-> "null"]]
  /\ UNCHANGED <<receipt, job, run, relay, seen, replay, handled, faults, replays>>

\* Mutation: retention forgets to ask for the status.
RetainAnySettled(e) ==
  /\ row[e].status \in {"PUBLISHED", "DEAD_LETTER"}
  /\ row' = [row EXCEPT ![e].status = "PRUNED"]
  /\ UNCHANGED <<receipt, job, run, relay, seen, replay, handled, faults, replays>>

\* OutboxRelayWorker.retainPublishedEvents.
RetainPublished(e) ==
  /\ row[e].status = "PUBLISHED"
  /\ row' = [row EXCEPT ![e].status = "PRUNED"]
  /\ UNCHANGED <<receipt, job, run, relay, seen, replay, handled, faults, replays>>

\* The lease of a claim, or the retention of a completed receipt, runs out.
ExpireReceipt(e) ==
  /\ receipt[e].state # "NONE"
  /\ receipt[e].lease = "live"
  /\ LeaseOutlivesHandler /\ receipt[e].state = "PROCESSING"
       => receipt[e].owner = None
  /\ receipt' = [receipt EXCEPT ![e].lease = "expired"]
  /\ UNCHANGED <<row, job, run, relay, seen, replay, handled, faults, replays>>

\* OperationReceiptRetentionWorker.deleteExpired: whatever its state.
DeleteExpiredReceipt(e) ==
  /\ receipt[e].lease = "expired"
  /\ receipt' = [receipt EXCEPT ![e] = NoReceipt]
  /\ UNCHANGED <<row, job, run, relay, seen, replay, handled, faults, replays>>

-----------------------------------------------------------------------------
(* OutboxRelayWorker.relayEvents and OutboxRelayDelivery. *)

EndTick(r) ==
  /\ relay' = [relay EXCEPT ![r] = IdleRelay]
  /\ seen' = [seen EXCEPT ![r] = NothingSeen]

\* The next event of the batch, or the end of the tick.
RelayNext(r, left) ==
  IF left = {} THEN EndTick(r)
  ELSE /\ relay' = [relay EXCEPT ![r] = [pc |-> "deliver", event |-> None,
                                         left |-> left, done |-> 0]]
       /\ UNCHANGED seen

\* lockPendingEvents: due PENDING rows, FOR UPDATE SKIP LOCKED, in one
\* transaction.  A row not due yet, or locked by another, is one not chosen.
LockPending(r, batch) ==
  /\ relay[r].pc = "idle"
  /\ batch # {} /\ Cardinality(batch) <= Batch
  /\ \A e \in batch : row[e].status = "PENDING"
  /\ row' = [e \in Events |->
               IF e \in batch
               THEN [status |-> "PROCESSING", attempts |-> row[e].attempts, lockedAt |-> "set"]
               ELSE row[e]]
  /\ relay' = [relay EXCEPT ![r] =
                 [pc |-> "deliver", event |-> None, left |-> batch, done |-> 0]]
  /\ seen' = [seen EXCEPT ![r] =
                [e \in Events |-> IF e \in batch THEN row[e].attempts ELSE 0]]
  /\ UNCHANGED <<receipt, job, run, replay, handled, faults, replays>>

\* queue.add with jobId = event id: a job still kept under that id, whatever
\* its state, is returned as it is.
AddJob(e) ==
  job' = IF job[e].state = "none" THEN [job EXCEPT ![e] = NewJob]
         ELSE job

Enqueue(r, e) ==
  /\ DurableQueue
  /\ relay[r].pc = "deliver"
  /\ e \in relay[r].left
  /\ \/ /\ AddJob(e)
        /\ RelayAt(r, e, "touch", 0)
        /\ UNCHANGED faults
     \/ /\ Fault("redis")   \* thrown, with or without the job in Redis
        /\ AddJob(e) \/ UNCHANGED job
        /\ RelayAt(r, e, "retry", 0)
  /\ UNCHANGED <<row, receipt, run, replay, handled, replays>>

\* Mutation: the row is settled as soon as the job is in the queue.
TouchLockPublishes(r, e) ==
  /\ relay[r].pc = "touch"
  /\ relay[r].event = e
  /\ Settle(e, "PUBLISHED") /\ RelayNext(r, relay[r].left \ {e})
  /\ UNCHANGED <<receipt, job, run, replay, handled, faults, replays>>

\* "Enqueued is NOT processed": a fresh lock and nothing else.
TouchLock(r, e) ==
  /\ relay[r].pc = "touch"
  /\ relay[r].event = e
  /\ \/ /\ SetRow(e, row[e].status, row[e].attempts, "set")
        /\ RelayNext(r, relay[r].left \ {e})
        /\ UNCHANGED faults
     \/ /\ Fault("database")
        /\ SetRow(e, row[e].status, row[e].attempts, "set") \/ UNCHANGED row
        /\ RelayAt(r, e, "retry", 0)
  /\ UNCHANGED <<receipt, job, run, replay, handled, replays>>

\* Mutation: the consumers are started but not awaited.
InlineBeginDetached(r, e) ==
  /\ ~DurableQueue
  /\ relay[r].pc = "deliver"
  /\ e \in relay[r].left
  /\ RelayAt(r, e, "settle", 0)
  /\ UNCHANGED <<row, receipt, job, run, replay, handled, faults, replays>>

\* No durable queue: the relay awaits the consumers itself.
InlineBegin(r, e) ==
  /\ ~DurableQueue
  /\ relay[r].pc = "deliver"
  /\ e \in relay[r].left
  /\ RelayAt(r, e, "inline", 0)
  /\ UNCHANGED <<row, receipt, job, run, replay, handled, faults, replays>>

InlineConsume(r, e) ==
  LET next == relay[r].done + 1 IN
  /\ relay[r].pc = "inline"
  /\ relay[r].event = e
  /\ \/ /\ StageSucceeds(e, next)
        /\ RelayAt(r, e, IF next = Stages THEN "settle" ELSE "inline", next)
     \/ StageFails(e, next) /\ RelayAt(r, e, "retry", 0)
  /\ UNCHANGED <<row, receipt, job, run, replay, replays>>

InlinePublish(r, e) ==
  /\ relay[r].pc = "settle"
  /\ relay[r].event = e
  /\ \/ Settle(e, "PUBLISHED") /\ RelayNext(r, relay[r].left \ {e}) /\ UNCHANGED faults
     \/ /\ Fault("database")
        /\ Settle(e, "PUBLISHED") \/ UNCHANGED row
        /\ RelayAt(r, e, "retry", 0)
  /\ UNCHANGED <<receipt, job, run, replay, handled, replays>>

\* Mutation: the retry is counted, the row stays PROCESSING without a lock.
ScheduleRetryKeepsStatus(r, e) ==
  /\ relay[r].pc = "retry"
  /\ relay[r].event = e
  /\ SetRow(e, row[e].status, seen[r][e] + 1, "null")
  /\ RelayNext(r, relay[r].left \ {e})
  /\ UNCHANGED <<receipt, job, run, replay, handled, faults, replays>>

\* scheduleRetry, from the attempts read when the row was locked and whatever
\* the row says now; when it throws, relayEvents drops the rest of the batch.
ScheduleRetry(r, e) ==
  LET attempts == seen[r][e] + 1 IN
  /\ relay[r].pc = "retry"
  /\ relay[r].event = e
  /\ \/ /\ SetRow(e, IF attempts >= MaxAttempts THEN "DEAD_LETTER" ELSE "PENDING",
                  attempts, "null")
        /\ \/ RelayNext(r, relay[r].left \ {e}) /\ UNCHANGED faults
           \/ EndTick(r) /\ Fault("database")
     \/ EndTick(r) /\ Fault("database") /\ UNCHANGED row
  /\ UNCHANGED <<receipt, job, run, replay, handled, replays>>

RelayCrash(r) ==
  /\ relay[r].pc # "idle"
  /\ Fault("relayCrash")
  /\ EndTick(r)
  /\ UNCHANGED <<row, receipt, job, run, replay, handled, replays>>

-----------------------------------------------------------------------------
(* BullMQ, as QueueService.addWorker and the relay's job options use it. *)

\* A slot takes a waiting (or due delayed) job and its lock.
TakeJob(w, e) ==
  /\ run[w].pc = "idle"
  /\ job[e].state = "wait"
  /\ job' = [job EXCEPT ![e] = [state |-> "active", made |-> @.made,
                                stalls |-> @.stalls, holder |-> w]]
  /\ run' = [run EXCEPT ![w] = [pc |-> "claim", event |-> e, made |-> job[e].made, done |-> 0]]
  /\ UNCHANGED <<row, receipt, relay, seen, replay, handled, faults, replays>>

HolderAlive(e) == job[e].holder # None /\ Runs(job[e].holder, e)

\* An active job whose lock ran out: its handler died, or could not renew the
\* lock in time and keeps running without it.
StallJob(e) ==
  /\ job[e].state = "active"
  /\ IF HolderAlive(e) THEN Fault("stall") ELSE UNCHANGED faults
  /\ job' = [job EXCEPT ![e] =
               IF @.stalls < MaxStalled
               THEN [state |-> "wait", made |-> @.made, stalls |-> @.stalls + 1, holder |-> None]
               ELSE [state |-> "failed", made |-> @.made, stalls |-> @.stalls, holder |-> None]]
  /\ UNCHANGED <<row, receipt, run, relay, seen, replay, handled, replays>>

\* removeOnComplete / removeOnFail: a finished job is forgotten after 1000 more.
EvictJob(e) ==
  /\ job[e].state \in {"completed", "failed"}
  /\ job' = [job EXCEPT ![e] = NoJob]
  /\ UNCHANGED <<row, receipt, run, relay, seen, replay, handled, faults, replays>>

-----------------------------------------------------------------------------
(* OutboxEventWorker: the job handler, one await after the other. *)

\* Mutation: a claim is taken over before its lease has run out.
ClaimableWhileHeld(e) == receipt[e].state # "COMPLETED"

\* createIfAbsent: no row, or a claim whose lease ran out.
Claimable(e) ==
  \/ receipt[e].state = "NONE"
  \/ receipt[e].state = "PROCESSING" /\ receipt[e].lease = "expired"

TakeReceipt(e, owner) ==
  /\ Claimable(e)
  /\ receipt' = [receipt EXCEPT ![e] =
                   [state |-> "PROCESSING", owner |-> owner, lease |-> "live"]]

\* claimEvent over OperationReceiptService.claim, in its own transaction.
Claim(w, e) ==
  /\ run[w].pc = "claim"
  /\ Runs(w, e)
  /\ \/ /\ TakeReceipt(e, w)
        /\ RunAt(w, "consume")
        /\ UNCHANGED faults
     \/ /\ receipt[e].state = "COMPLETED"
        /\ RunAt(w, "publish")
        /\ UNCHANGED <<receipt, faults>>
     \/ /\ receipt[e].state = "PROCESSING" /\ ~Claimable(e)   \* OPERATION_IN_PROGRESS
        /\ RunAt(w, "bury")
        /\ UNCHANGED <<receipt, faults>>
     \/ /\ Fault("database")   \* the commit may have reached the database
        /\ TakeReceipt(e, None) \/ UNCHANGED receipt
        /\ RunAt(w, "bury")
  /\ UNCHANGED <<row, job, relay, seen, replay, handled, replays>>

ConsumeStage(w, e) ==
  LET next == run[w].done + 1 IN
  /\ run[w].pc = "consume"
  /\ Runs(w, e)
  /\ \/ /\ StageSucceeds(e, next)
        /\ run' = [run EXCEPT ![w] = [pc |-> IF next = Stages THEN "complete" ELSE "consume",
                                      event |-> e, made |-> @.made, done |-> next]]
     \/ StageFails(e, next) /\ RunAt(w, "release")
  /\ UNCHANGED <<row, receipt, job, relay, seen, replay, replays>>

\* completeEvent: only the claim's own receipt row can be completed.
CompleteReceipt(w, e) ==
  /\ Owns(w, e)
  /\ receipt' = [receipt EXCEPT ![e] =
                   [state |-> "COMPLETED", owner |-> None, lease |-> "live"]]

Complete(w, e) ==
  /\ run[w].pc = "complete"
  /\ Runs(w, e)
  /\ \/ /\ CompleteReceipt(w, e)
        /\ RunAt(w, "publish")
        /\ UNCHANGED faults
     \/ /\ ~Owns(w, e)   \* OUTBOX_DURABLE_COMPLETE_FAILED
        /\ RunAt(w, "release")
        /\ UNCHANGED <<receipt, faults>>
     \/ /\ Fault("database")
        /\ CompleteReceipt(w, e) \/ UNCHANGED receipt
        /\ RunAt(w, "release")
  /\ UNCHANGED <<row, job, relay, seen, replay, handled, replays>>

\* markPublished: the row, whatever it says now.
Publish(w, e) ==
  /\ run[w].pc = "publish"
  /\ Runs(w, e)
  /\ \/ Settle(e, "PUBLISHED") /\ RunAt(w, "finish") /\ UNCHANGED faults
     \/ /\ Fault("database")
        /\ Settle(e, "PUBLISHED") \/ UNCHANGED row
        /\ RunAt(w, "bury")
  /\ UNCHANGED <<receipt, job, relay, seen, replay, handled, replays>>

\* Mutation: the catch block forgets the claim.
ReleaseNothing(w, e) ==
  /\ run[w].pc = "release"
  /\ Runs(w, e)
  /\ RunAt(w, "bury")
  /\ UNCHANGED <<row, receipt, job, relay, seen, replay, handled, faults, replays>>

\* The catch block: release the claim unless it was completed; a failed
\* release is only logged and its receipt is nobody's.
Release(w, e) ==
  /\ run[w].pc = "release"
  /\ Runs(w, e)
  /\ RunAt(w, "bury")
  /\ \/ /\ receipt' = [receipt EXCEPT ![e] = IF Owns(w, e) THEN NoReceipt ELSE @]
        /\ UNCHANGED faults
     \/ /\ Fault("database")
        /\ \/ receipt' = [receipt EXCEPT ![e] = IF Owns(w, e) THEN NoReceipt ELSE @]
           \/ receipt' = [receipt EXCEPT ![e].owner = IF Owns(w, e) THEN None ELSE @]
  /\ UNCHANGED <<row, job, relay, seen, replay, handled, replays>>

\* markDeadLetter on the last attempt: the row, whatever it says now.
Bury(w, e) ==
  /\ run[w].pc = "bury"
  /\ Runs(w, e)
  /\ RunAt(w, "reject")
  /\ \/ /\ IF run[w].made + 1 >= MaxAttempts THEN Settle(e, "DEAD_LETTER")
           ELSE UNCHANGED row
        /\ UNCHANGED faults
     \/ /\ run[w].made + 1 >= MaxAttempts
        /\ Fault("database")
        /\ Settle(e, "DEAD_LETTER") \/ UNCHANGED row
  /\ UNCHANGED <<receipt, job, relay, seen, replay, handled, replays>>

\* The handler returns or throws; BullMQ takes the outcome only from the slot
\* that still has the job's lock.
FinishJob(w, e) ==
  /\ run[w].pc = "finish"
  /\ Runs(w, e)
  /\ job' = IF job[e].holder = w
            THEN [job EXCEPT ![e] = [state |-> "completed", made |-> @.made,
                                     stalls |-> @.stalls, holder |-> None]]
            ELSE job
  /\ run' = [run EXCEPT ![w] = IdleRun]
  /\ UNCHANGED <<row, receipt, relay, seen, replay, handled, faults, replays>>

RejectJob(w, e) ==
  LET made == job[e].made + 1 IN
  /\ run[w].pc = "reject"
  /\ Runs(w, e)
  /\ job' = IF job[e].holder = w
            THEN [job EXCEPT ![e] =
                   [state |-> IF made >= MaxAttempts THEN "failed" ELSE "wait",
                    made |-> made, stalls |-> @.stalls, holder |-> None]]
            ELSE job
  /\ run' = [run EXCEPT ![w] = IdleRun]
  /\ UNCHANGED <<row, receipt, relay, seen, replay, handled, faults, replays>>

\* The process dies: nobody knows its receipt id, BullMQ finds out by a stall.
WorkerCrash(w, e) ==
  /\ run[w].pc # "idle"
  /\ Runs(w, e)
  /\ Fault("workerCrash")
  /\ run' = [run EXCEPT ![w] = IdleRun]
  /\ receipt' = [receipt EXCEPT ![e].owner = IF @ = w THEN None ELSE @]
  /\ UNCHANGED <<row, job, relay, seen, replay, handled, replays>>

-----------------------------------------------------------------------------
(* OutboxEventWorker.replayDeadLetter; it does not look at the row first. *)

ReplayReleaseReceipt(e) ==
  /\ replay.pc = "idle"
  /\ replays < MaxReplays
  /\ ReplayAnyRow \/ row[e].status = "DEAD_LETTER"
  /\ replays' = replays + 1
  /\ replay' = [pc |-> "removeJob", event |-> e]
  /\ receipt' = [receipt EXCEPT ![e] = IF @.state = "PROCESSING" THEN NoReceipt ELSE @]
  /\ UNCHANGED <<row, job, run, relay, seen, handled, faults>>

\* Job.remove throws on a locked job; a failed removal is only logged.
ReplayRemoveJob(e) ==
  /\ replay = [pc |-> "removeJob", event |-> e]
  /\ replay' = [replay EXCEPT !.pc = "requeue"]
  /\ \/ job' = [job EXCEPT ![e] = IF @.state = "active" THEN @ ELSE NoJob] /\ UNCHANGED faults
     \/ Fault("redis") /\ UNCHANGED job
  /\ UNCHANGED <<row, receipt, run, relay, seen, handled, replays>>

\* requeueDeadLetter; FALSE is returned for a row that is not dead.
ReplayRequeue(e) ==
  /\ replay = [pc |-> "requeue", event |-> e]
  /\ replay' = IdleReplay
  /\ row' = [row EXCEPT ![e] = IF @.status = "DEAD_LETTER"
                               THEN [status |-> "PENDING", attempts |-> 0, lockedAt |-> "null"]
                               ELSE @]
  /\ UNCHANGED <<receipt, job, run, relay, seen, handled, faults, replays>>

-----------------------------------------------------------------------------
RelayStep(r) ==
  \/ \E batch \in SUBSET Events : LockPending(r, batch)
  \/ \E e \in Events :
       \/ Enqueue(r, e) \/ TouchLock(r, e) \/ ScheduleRetry(r, e)
       \/ InlineBegin(r, e) \/ InlineConsume(r, e) \/ InlinePublish(r, e)

HandlerStep(w, e) ==
  \/ Claim(w, e) \/ ConsumeStage(w, e) \/ Complete(w, e) \/ Publish(w, e)
  \/ Release(w, e) \/ Bury(w, e) \/ FinishJob(w, e) \/ RejectJob(w, e)

ReplayStep(e) ==
  ReplayReleaseReceipt(e) \/ ReplayRemoveJob(e) \/ ReplayRequeue(e)

Next ==
  \/ \E e \in Events :
       \/ Dispatch(e) \/ RecoverStaleLock(e) \/ RetainPublished(e)
       \/ ExpireReceipt(e) \/ DeleteExpiredReceipt(e)
       \/ StallJob(e) \/ EvictJob(e) \/ ReplayStep(e)
  \/ \E r \in Relays : RelayStep(r) \/ RelayCrash(r)
  \/ \E w \in Workers, e \in Events :
       TakeJob(w, e) \/ HandlerStep(w, e) \/ WorkerCrash(w, e)

Spec == Init /\ [][Next]_vars

\* The crons fire for ever, BullMQ hands out jobs and finds dead holders, a
\* running handler runs on and leases end.  Nothing is bound to push a failed
\* job out of its retention, nobody is bound to replay.
Fairness ==
  /\ \A r \in Relays : WF_vars(RelayStep(r))
  /\ \A w \in Workers, e \in Events : WF_vars(HandlerStep(w, e))
  /\ \A e \in Events : /\ SF_vars(\E w \in Workers : TakeJob(w, e))
                       /\ WF_vars(RecoverStaleLock(e))
                       /\ WF_vars(~HolderAlive(e) /\ StallJob(e))
                       /\ WF_vars(ExpireReceipt(e))

FairSpec == Spec /\ Fairness

-----------------------------------------------------------------------------
(* Properties. *)

\* A row that says PUBLISHED, or was deleted as published, had every required
\* consumer and the listener fan-out succeed: enqueueing, crashes, stale locks,
\* retries and replays never publish an event nobody handled.
PublishedImpliesHandled ==
  \A e \in Events : row[e].status \in {"PUBLISHED", "PRUNED"} => handled[e] = StageSet

\* While leases outlive handlers and nobody replays, every handler that is
\* running consumers holds the live receipt of its event, so no two run the
\* same event's consumers at once (no concurrent double-consume) and none runs them
\* after completion.
ConsumesUnderReceipt ==
  \A w \in Workers :
    run[w].pc \in {"consume", "complete"} => Owns(w, run[w].event)

\* What makes it inductive: a receipt that has an owner is a live claim.
OwnedLeaseIsLive ==
  \A e \in Events :
    receipt[e].owner # None => receipt[e].state = "PROCESSING" /\ receipt[e].lease = "live"

LeaseInvariant == ConsumesUnderReceipt /\ OwnedLeaseIsLive

\* Claims that no handler would complete or release any more: they block every retry
\* until their lease ends.
AtWork(w, e) == Owns(w, e) /\ Runs(w, e) /\ run[w].pc \in {"consume", "complete", "release"}
LeftClaims == {e \in Events : receipt[e].state = "PROCESSING" /\ ~\E w \in Workers : AtWork(w, e)}

\* outbox-event.worker's handler: a claim is left behind by one kind of fault only - the answer
\* of its own commit is lost, its release fails, or its process dies.  No failed consumer or
\* completion, no take-over of a lapsed claim, no stall and no replay leaves one.
OnlyFaultsLeaveClaims ==
  [][\A e \in Events : e \notin LeftClaims /\ e \in LeftClaims' =>
       /\ faults' = faults + 1
       /\ \E w \in Workers :
            Runs(w, e) /\ (run[w].pc \in {"claim", "release"} \/ run'[w].pc = "idle")]_vars

\* Rows that can still be relayed, and jobs that can still run, have attempts
\* left: no interleaving of relays, stalls and replays retries either of them
\* past OUTBOX_MAX_ATTEMPTS.
RetriesLeft ==
  /\ \A e \in Events : row[e].status \in {"ABSENT", "PENDING", "PROCESSING"}
                          => row[e].attempts < MaxAttempts
  /\ \A r \in Relays, e \in Events : seen[r][e] < MaxAttempts
  /\ \A e \in Events : job[e].state \in {"wait", "active"} => job[e].made < MaxAttempts
  /\ \A e \in Events : job[e].holder # None => job[e].state = "active"

\* Where a handler or a relay stands, its stages so far have taken effect.
HandlerProgress ==
  \A w \in Workers :
    /\ run[w].pc # "idle" => run[w].event \in Events
    /\ run[w].pc = "claim" => run[w].done = 0
    /\ run[w].pc = "consume" => run[w].done < Stages
    /\ run[w].pc = "complete" => run[w].done = Stages
    /\ run[w].pc \in {"consume", "complete"} => 1 .. run[w].done \subseteq handled[run[w].event]
    /\ run[w].pc = "publish" => handled[run[w].event] = StageSet

InlineProgress ==
  \A r \in Relays :
    /\ relay[r].pc \notin {"idle", "deliver"} => relay[r].event \in Events
    /\ relay[r].pc \in {"deliver", "inline"} => relay[r].done < Stages
    /\ relay[r].pc = "settle" => relay[r].done = Stages
    /\ relay[r].pc \in {"inline", "settle"} => 1 .. relay[r].done \subseteq handled[relay[r].event]
    /\ relay[r].pc = "deliver" => relay[r].done = 0

CompletedImpliesHandled ==
  \A e \in Events : receipt[e].state = "COMPLETED" => handled[e] = StageSet

\* Every step preserves this conjunction: what a handler is about to claim
\* (complete, publish) rests on what it has done, not on what it once read.
DeliveryInvariant ==
  /\ TypeOK
  /\ RetriesLeft
  /\ HandlerProgress
  /\ InlineProgress
  /\ CompletedImpliesHandled
  /\ PublishedImpliesHandled

\* Every dispatched event is eventually published or dead-lettered.
EventuallySettled ==
  \A e \in Events : row[e].status = "PENDING"
                       ~> row[e].status \in {"PUBLISHED", "DEAD_LETTER", "PRUNED"}

\* No relay, job or handler deals with an event before its row is committed.
AcceptedFirst ==
  \A e \in Events : row[e].status = "ABSENT" =>
    /\ job[e].state = "none"
    /\ \A w \in Workers : run[w].event # e
    /\ \A r \in Relays : relay[r].event # e /\ e \notin relay[r].left

\* The pipeline keeps the promise made to producers (OutboxPromise): whatever
\* the relay, the queue, the handlers and the crons do to a row is accepting,
\* publishing after all effects, parking, reopening or forgetting it, and an
\* owed event never silently disappears.
Standing(e) ==
  CASE row[e].status = "ABSENT" -> "none"
    [] row[e].status \in {"PENDING", "PROCESSING"} -> "owed"
    [] row[e].status = "PUBLISHED" -> "published"
    [] row[e].status = "DEAD_LETTER" -> "parked"
    [] row[e].status = "PRUNED" -> "forgotten"

Promise == INSTANCE OutboxPromise
  WITH standing <- [e \in Events |-> Standing(e)], effects <- handled

KeepsPromise == Promise!PromiseSpec

=============================================================================
