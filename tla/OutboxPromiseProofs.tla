------------------------- MODULE OutboxPromiseProofs -------------------------
(***************************************************************************)
(* The pipeline implements OutboxPromise: a row's status is the standing   *)
(* of its event, the stages that have succeeded are its effects, and every *)
(* step of relay, queue, handler, cron or operator is a step of the        *)
(* promise or changes nothing of it.                                       *)
(***************************************************************************)
EXTENDS OutboxProofs

-----------------------------------------------------------------------------
(* Nothing deals with an event before it is accepted.                      *)

\* Whatever leaves rows, jobs and runs in existence keeps them accepted.
LEMMA AcceptedFrame ==
  ASSUME AcceptedFirst,
         \A x \in Events : row'[x].status = "ABSENT" => row[x].status = "ABSENT",
         \A x \in Events : job'[x].state = "none" \/ job[x].state # "none"
                             \/ row[x].status # "ABSENT",
         \A w \in Workers : run'[w].event = run[w].event \/ row[run'[w].event].status # "ABSENT"
                             \/ run'[w].event \notin Events,
         \A r \in Relays : /\ \/ relay'[r].event = relay[r].event
                              \/ relay'[r].event \notin Events
                              \/ row[relay'[r].event].status # "ABSENT"
                           /\ \A x \in relay'[r].left :
                                x \in relay[r].left \/ row[x].status # "ABSENT"
  PROVE  AcceptedFirst'
BY DEF AcceptedFirst

\* Dispatching, recovering, pruning or requeueing never un-dispatches a row.
LEMMA AcceptedRow ==
  ASSUME NEW e \in Events, DeliveryInvariant, AcceptedFirst,
         \/ Dispatch(e) \/ RecoverStaleLock(e) \/ RetainPublished(e) \/ ReplayRequeue(e)
  PROVE  AcceptedFirst'
<1>1. UNCHANGED <<job, run, relay>>
  BY DEF Dispatch, RecoverStaleLock, RetainPublished, ReplayRequeue
<1>2. \A x \in Events : row'[x].status = "ABSENT" => row[x].status = "ABSENT"
  BY DEF Dispatch, RecoverStaleLock, RetainPublished, ReplayRequeue, DeliveryInvariant,
         TypeOK, RowType
<1> QED
  BY <1>1, <1>2 DEF AcceptedFirst

\* A step on receipts or effects alone.
LEMMA AcceptedReceipt ==
  ASSUME AcceptedFirst, UNCHANGED <<row, job, run, relay>>
  PROVE  AcceptedFirst'
BY DEF AcceptedFirst

\* Stalling, eviction and replay make no job.
LEMMA AcceptedJob ==
  ASSUME NEW e \in Events, DeliveryInvariant, AcceptedFirst,
         StallJob(e) \/ EvictJob(e) \/ ReplayRemoveJob(e)
  PROVE  AcceptedFirst'
<1>1. UNCHANGED <<row, run, relay>>
  BY DEF StallJob, EvictJob, ReplayRemoveJob
<1>2. \A x \in Events : job[x].state = "none" => job'[x].state = "none"
  <2>1. job \in [Events -> JobType]
    BY DEF DeliveryInvariant, TypeOK
  <2>2. CASE StallJob(e)
    BY <2>1, <2>2 DEF StallJob
  <2>3. CASE EvictJob(e)
    BY <2>1, <2>3 DEF EvictJob
  <2>4. CASE ReplayRemoveJob(e)
    BY <2>1, <2>4 DEF ReplayRemoveJob, NoJob
  <2> QED
    BY <2>2, <2>3, <2>4
<1> QED
  BY <1>1, <1>2 DEF AcceptedFirst

\* A relay locks rows that are there and keeps to its batch.
LEMMA AcceptedRelay ==
  ASSUME NEW r \in Relays, DeliveryInvariant, AcceptedFirst, RelayStep(r) \/ RelayCrash(r)
  PROVE  AcceptedFirst'
<1> USE ConstantsAssumption DEF DeliveryInvariant
<1>1. /\ row \in [Events -> RowType] /\ relay \in [Relays -> RelayType]
      /\ job \in [Events -> JobType]
  BY DEF TypeOK
<1>2. UNCHANGED run
  BY DEF RelayStep, RelayCrash, LockPending, Enqueue, TouchLock, ScheduleRetry, InlineBegin,
         InlineConsume, InlinePublish
<1>3. ASSUME NEW batch \in SUBSET Events, LockPending(r, batch)
      PROVE  AcceptedFirst'
  <2>1. \A x \in Events : row'[x].status = "ABSENT" => row[x].status = "ABSENT"
    BY <1>1, <1>3 DEF LockPending, RowType
  <2>2. /\ \A x \in Relays \ {r} : relay'[x] = relay[x]
        /\ relay'[r].event = None
        /\ relay'[r].left = batch /\ \A x \in batch : row[x].status # "ABSENT"
    BY <1>1, <1>3 DEF LockPending, RelayType
  <2>3. UNCHANGED job
    BY <1>3 DEF LockPending
  <2> QED
    BY <1>2, <2>1, <2>2, <2>3 DEF AcceptedFirst
<1>4. ASSUME RelayCrash(r)
      PROVE  AcceptedFirst'
  <2>1. /\ UNCHANGED <<row, job>>
        /\ \A x \in Relays \ {r} : relay'[x] = relay[x]
        /\ relay'[r] = IdleRelay
    BY <1>1, <1>4 DEF RelayCrash, EndTick
  <2> QED
    BY <1>2, <2>1 DEF AcceptedFirst, IdleRelay
<1>5. ASSUME NEW e \in Events,
             Enqueue(r, e) \/ InlineBegin(r, e) \/ InlineConsume(r, e)
      PROVE  AcceptedFirst'
  <2>1. e \in relay[r].left \/ e = relay[r].event
    BY <1>5 DEF Enqueue, InlineBegin, InlineConsume
  <2>2. UNCHANGED row
    BY <1>5 DEF Enqueue, InlineBegin, InlineConsume
  <2>3. \A x \in Events \ {e} : job'[x] = job[x]
    BY <1>1, <1>5 DEF Enqueue, AddJob, InlineBegin, InlineConsume
  <2>4. PICK pc, done : RelayAt(r, e, pc, done)
    BY <1>5 DEF Enqueue, InlineBegin, InlineConsume
  <2>5. /\ \A x \in Relays \ {r} : relay'[x] = relay[x]
        /\ relay'[r].event = e /\ relay'[r].left = relay[r].left
    BY <1>1, <2>4 DEF RelayAt
  <2>6. row[e].status # "ABSENT"
    BY <2>1 DEF AcceptedFirst
  <2> QED
    BY <1>2, <2>2, <2>3, <2>5, <2>6 DEF AcceptedFirst
<1>6. ASSUME NEW e \in Events,
             TouchLock(r, e) \/ ScheduleRetry(r, e) \/ InlinePublish(r, e)
      PROVE  AcceptedFirst'
  <2>1. UNCHANGED job /\ relay[r].event = e
    BY <1>6 DEF TouchLock, ScheduleRetry, InlinePublish
  <2>2. \A x \in Events : row'[x].status = "ABSENT" => row[x].status = "ABSENT"
    BY <1>1, <1>6 DEF TouchLock, ScheduleRetry, InlinePublish, Settle, SetRow, Present, RowType
  <2>3. \/ RelayNext(r, relay[r].left \ {e}) \/ EndTick(r) \/ RelayAt(r, e, "retry", 0)
    BY <1>6 DEF TouchLock, ScheduleRetry, InlinePublish
  <2>4. /\ \A x \in Relays \ {r} : relay'[x] = relay[x]
        /\ relay'[r].event \in {e, None} /\ relay'[r].left \subseteq relay[r].left
    BY <1>1, <2>3 DEF RelayNext, EndTick, IdleRelay, RelayAt
  <2> QED
    BY <1>2, <2>1, <2>2, <2>4 DEF AcceptedFirst
<1> QED
  BY <1>3, <1>4, <1>5, <1>6 DEF RelayStep

\* A slot takes jobs that are there and keeps to its event.
LEMMA AcceptedHandler ==
  ASSUME NEW w \in Workers, NEW e \in Events, DeliveryInvariant, AcceptedFirst,
         TakeJob(w, e) \/ HandlerStep(w, e) \/ WorkerCrash(w, e)
  PROVE  AcceptedFirst'
<1> USE ConstantsAssumption DEF DeliveryInvariant
<1>1. /\ row \in [Events -> RowType] /\ run \in [Workers -> RunType]
      /\ job \in [Events -> JobType]
  BY DEF TypeOK
<1>2. UNCHANGED relay
  BY DEF TakeJob, HandlerStep, WorkerCrash, Claim, ConsumeStage, Complete, Publish, Release,
         Bury, FinishJob, RejectJob
<1>3. \A x \in Events : row'[x].status = "ABSENT" => row[x].status = "ABSENT"
  <2>1. \/ UNCHANGED row
        \/ \E status \in {"PUBLISHED", "DEAD_LETTER"} : Settle(e, status)
    BY DEF TakeJob, HandlerStep, WorkerCrash, Claim, ConsumeStage, Complete, Publish, Release,
           Bury, FinishJob, RejectJob
  <2> QED
    BY <1>1, <2>1 DEF Settle, SetRow, Present
<1>4. \A x \in Events : job[x].state = "none" => job'[x].state = "none"
  <2>1. CASE UNCHANGED job
    BY <2>1
  <2>2. CASE TakeJob(w, e)
    BY <1>1, <2>2 DEF TakeJob
  <2>3. CASE FinishJob(w, e) \/ RejectJob(w, e)
    <3>1. job[e].holder = w => job[e].state = "active"
      BY DEF RetriesLeft
    <3> QED
      BY <1>1, <2>3, <3>1 DEF FinishJob, RejectJob
  <2> QED
    BY <2>1, <2>2, <2>3 DEF HandlerStep, WorkerCrash, Claim, ConsumeStage, Complete, Publish,
                            Release, Bury
<1>5. CASE TakeJob(w, e)
  <2>1. /\ row[e].status # "ABSENT"
        /\ \A x \in Workers \ {w} : run'[x] = run[x]
        /\ run'[w].event = e
    BY <1>1, <1>5 DEF TakeJob, AcceptedFirst
  <2> QED
    BY <1>2, <1>3, <1>4, <2>1 DEF AcceptedFirst
<1>6. CASE HandlerStep(w, e) \/ WorkerCrash(w, e)
  <2>1. /\ \A x \in Workers \ {w} : run'[x] = run[x]
        /\ run'[w].event \in {run[w].event, None}
    <3>1. CASE \E pc \in RunPcs : RunAt(w, pc)
      BY <1>1, <3>1, RunAtEffect
    <3>2. CASE run' = [run EXCEPT ![w] = IdleRun]
      BY <1>1, <3>2 DEF IdleRun
    <3>3. CASE ConsumeStage(w, e)
      BY <1>1, <3>3 DEF ConsumeStage, Runs, RunAt, RunType
    <3> QED
      BY <1>6, <3>1, <3>2, <3>3
         DEF HandlerStep, WorkerCrash, Claim, Complete, Publish, Release, Bury, FinishJob,
             RejectJob, RunPcs
  <2> QED
    BY <1>2, <1>3, <1>4, <2>1 DEF AcceptedFirst
<1> QED
  BY <1>5, <1>6

\* Jobs, runs and relays are always about events that were dispatched.
LEMMA AcceptedNext ==
  ASSUME DeliveryInvariant, AcceptedFirst, [Next]_vars
  PROVE  AcceptedFirst'
<1>1. ASSUME NEW e \in Events,
             ExpireReceipt(e) \/ DeleteExpiredReceipt(e) \/ ReplayReleaseReceipt(e)
      PROVE  AcceptedFirst'
  BY <1>1, AcceptedReceipt DEF ExpireReceipt, DeleteExpiredReceipt, ReplayReleaseReceipt
<1>2. CASE UNCHANGED vars
  BY <1>2, AcceptedReceipt DEF vars
<1> QED
  BY <1>1, <1>2, AcceptedRow, AcceptedJob, AcceptedRelay, AcceptedHandler
     DEF Next, ReplayStep

-----------------------------------------------------------------------------
(* Every step keeps the promise.                                           *)

\* A step that keeps every standing and every effect is a stutter.
LEMMA PromiseStutter ==
  ASSUME UNCHANGED handled,
         \A x \in Events : Standing(x)' = Standing(x)
  PROVE  UNCHANGED Promise!promiseVars
BY DEF Promise!promiseVars

\* One event changes its standing, along an edge of the promise.
LEMMA PromiseMove ==
  ASSUME NEW e \in Events, UNCHANGED handled,
         \A x \in Events \ {e} : Standing(x)' = Standing(x),
         \/ Standing(e) = "none" /\ Standing(e)' = "owed"
         \/ /\ Standing(e) \in {"owed", "parked"} /\ Standing(e)' = "published"
            /\ handled[e] = 1 .. Stages
         \/ Standing(e) \in {"owed", "published"} /\ Standing(e)' = "parked"
         \/ Standing(e) \in {"parked", "published"} /\ Standing(e)' = "owed"
         \/ Standing(e) = "published" /\ Standing(e)' = "forgotten"
  PROVE  Promise!PromiseNext
BY DEF Promise!PromiseNext, Promise!Accept, Promise!Announce, Promise!Park, Promise!Reopen,
       Promise!Forget, Promise!Moves

\* A row that keeps its status keeps its standing.
LEMMA StatusStanding ==
  ASSUME NEW x \in Events, row'[x].status = row[x].status
  PROVE  Standing(x)' = Standing(x)
BY DEF Standing

\* The same for a step that sets the status of one row.
LEMMA PromiseStatus ==
  ASSUME NEW e \in Events, UNCHANGED handled,
         row \in [Events -> RowType], row' \in [Events -> RowType],
         \A x \in Events \ {e} : row'[x].status = row[x].status,
         \/ row'[e].status = row[e].status
         \/ row[e].status = "ABSENT" /\ row'[e].status = "PENDING"
         \/ row[e].status = "PENDING" /\ row'[e].status = "PROCESSING"
         \/ row[e].status = "PUBLISHED" /\ row'[e].status = "PRUNED"
         \/ /\ row[e].status \in {"PENDING", "PROCESSING", "PUBLISHED", "DEAD_LETTER"}
            /\ \/ row'[e].status \in {"PENDING", "DEAD_LETTER"}
               \/ row'[e].status = "PUBLISHED" /\ handled[e] = StageSet
  PROVE  [Promise!PromiseNext]_(Promise!promiseVars)
<1>1. \A x \in Events \ {e} : Standing(x)' = Standing(x)
  BY StatusStanding
<1>2. CASE Standing(e)' = Standing(e)
  BY <1>1, <1>2, PromiseStutter
<1>3. CASE Standing(e)' # Standing(e)
  <2>1. /\ row[e].status = "ABSENT" <=> Standing(e) = "none"
        /\ row[e].status \in {"PENDING", "PROCESSING"} <=> Standing(e) = "owed"
        /\ row[e].status = "PUBLISHED" <=> Standing(e) = "published"
        /\ row[e].status = "DEAD_LETTER" <=> Standing(e) = "parked"
        /\ row[e].status = "PRUNED" <=> Standing(e) = "forgotten"
    BY DEF RowType, Status, Standing
  <2>2. /\ row'[e].status \in {"PENDING", "PROCESSING"} <=> Standing(e)' = "owed"
        /\ row'[e].status = "PUBLISHED" <=> Standing(e)' = "published"
        /\ row'[e].status = "DEAD_LETTER" <=> Standing(e)' = "parked"
        /\ row'[e].status = "PRUNED" <=> Standing(e)' = "forgotten"
    BY DEF RowType, Status, Standing
  <2>3. row'[e].status # row[e].status
    BY <1>3, StatusStanding
  <2> QED
    BY <1>1, <1>3, <2>1, <2>2, <2>3, PromiseMove DEF StageSet
<1> QED
  BY <1>2, <1>3

\* A consumer call of an accepted event.
LEMMA PromiseEffect ==
  ASSUME NEW e \in Events, NEW stage \in StageSet,
         UNCHANGED row, row[e].status # "ABSENT", row \in [Events -> RowType],
         StageSucceeds(e, stage) \/ StageFails(e, stage)
  PROVE  [Promise!PromiseNext]_(Promise!promiseVars)
<1>1. \A x \in Events : Standing(x)' = Standing(x)
  BY StatusStanding
<1>2. CASE UNCHANGED handled
  BY <1>1, <1>2, PromiseStutter
<1>3. CASE handled' = [handled EXCEPT ![e] = @ \union {stage}]
  <2>1. Standing(e) # "none"
    BY DEF Standing, RowType, Status
  <2>2. Promise!TakeEffect(e, stage)
    BY <1>1, <1>3, <2>1 DEF Promise!TakeEffect
  <2> QED
    BY <2>2 DEF Promise!PromiseNext, StageSet
<1> QED
  BY <1>2, <1>3 DEF StageSucceeds, StageFails

\* Every step of the pipeline is a step of the promise, or a stutter.
LEMMA NextKeepsPromise ==
  ASSUME DeliveryInvariant, DeliveryInvariant', AcceptedFirst, [Next]_vars
  PROVE  [Promise!PromiseNext]_(Promise!promiseVars)
<1>1. row \in [Events -> RowType] /\ row' \in [Events -> RowType]
  BY DEF DeliveryInvariant, TypeOK
<1>2. CASE UNCHANGED <<row, handled>>
  BY <1>2, StatusStanding, PromiseStutter
<1>3. ASSUME NEW e \in Events,
             \/ Dispatch(e) \/ RecoverStaleLock(e) \/ RetainPublished(e) \/ ReplayRequeue(e)
      PROVE  [Promise!PromiseNext]_(Promise!promiseVars)
  <2>1. UNCHANGED handled /\ \A x \in Events \ {e} : row'[x] = row[x]
    BY <1>1, <1>3 DEF Dispatch, RecoverStaleLock, RetainPublished, ReplayRequeue
  <2>2. \/ row'[e].status = row[e].status
        \/ row[e].status = "ABSENT" /\ row'[e].status = "PENDING"
        \/ row[e].status = "PUBLISHED" /\ row'[e].status = "PRUNED"
        \/ /\ row[e].status \in {"PROCESSING", "DEAD_LETTER"}
           /\ row'[e].status = "PENDING"
    BY <1>1, <1>3 DEF Dispatch, RecoverStaleLock, RetainPublished, ReplayRequeue, RowType
  <2> QED
    BY <1>1, <2>1, <2>2, PromiseStatus
<1>4. ASSUME NEW r \in Relays, NEW batch \in SUBSET Events, LockPending(r, batch)
      PROVE  [Promise!PromiseNext]_(Promise!promiseVars)
  <2>1. UNCHANGED handled
    BY <1>4 DEF LockPending
  <2>2. \A x \in Events : \/ row'[x].status = row[x].status
                          \/ row[x].status = "PENDING" /\ row'[x].status = "PROCESSING"
    BY <1>1, <1>4 DEF LockPending, RowType
  <2>3. \A x \in Events : Standing(x)' = Standing(x)
    BY <2>2, StatusStanding DEF Standing
  <2> QED
    BY <2>1, <2>3, PromiseStutter
<1>5. ASSUME NEW e \in Events, UNCHANGED handled,
             \/ UNCHANGED row
             \/ \E attempts \in Nat, lockedAt \in {"null", "set"} :
                  \/ SetRow(e, row[e].status, attempts, lockedAt)
                  \/ SetRow(e, "PENDING", attempts, lockedAt)
                  \/ SetRow(e, "DEAD_LETTER", attempts, lockedAt)
                  \/ handled[e] = StageSet /\ SetRow(e, "PUBLISHED", attempts, lockedAt)
      PROVE  [Promise!PromiseNext]_(Promise!promiseVars)
  <2>1. \A x \in Events \ {e} : row'[x] = row[x]
    BY <1>1, <1>5 DEF SetRow
  <2>2. \/ row'[e].status = row[e].status
        \/ /\ row[e].status \in {"PENDING", "PROCESSING", "PUBLISHED", "DEAD_LETTER"}
           /\ \/ row'[e].status \in {"PENDING", "DEAD_LETTER"}
              \/ row'[e].status = "PUBLISHED" /\ handled[e] = StageSet
    BY <1>1, <1>5 DEF SetRow, Present, RowType, Status
  <2> QED
    BY <1>1, <1>5, <2>1, <2>2, PromiseStatus
<1>6. ASSUME NEW r \in Relays, RelayStep(r) \/ RelayCrash(r)
      PROVE  [Promise!PromiseNext]_(Promise!promiseVars)
  <2>1. ASSUME NEW e \in Events, Enqueue(r, e) \/ InlineBegin(r, e)
        PROVE  UNCHANGED <<row, handled>>
    BY <2>1 DEF Enqueue, InlineBegin
  <2>2. ASSUME RelayCrash(r)
        PROVE  UNCHANGED <<row, handled>>
    BY <2>2 DEF RelayCrash
  <2>3. ASSUME NEW e \in Events, InlineConsume(r, e)
        PROVE  [Promise!PromiseNext]_(Promise!promiseVars)
    <3>1. relay[r].done + 1 \in StageSet
      BY <2>3, ConstantsAssumption
         DEF InlineConsume, DeliveryInvariant, TypeOK, RelayType, InlineProgress, StageSet
    <3>2. row[e].status # "ABSENT"
      BY <2>3 DEF InlineConsume, AcceptedFirst
    <3> QED
      BY <1>1, <2>3, <3>1, <3>2, PromiseEffect DEF InlineConsume
  <2>4. ASSUME NEW e \in Events, TouchLock(r, e)
        PROVE  [Promise!PromiseNext]_(Promise!promiseVars)
    <3>1. row[e].attempts \in Nat
      BY <1>1, ConstantsAssumption DEF RowType
    <3> QED
      BY <1>5, <2>4, <3>1 DEF TouchLock
  <2>5. ASSUME NEW e \in Events, InlinePublish(r, e)
        PROVE  [Promise!PromiseNext]_(Promise!promiseVars)
    <3>1. row[e].attempts \in Nat
      BY <1>1, ConstantsAssumption DEF RowType
    <3>2. handled[e] = StageSet
      BY <2>5, ConstantsAssumption
         DEF InlinePublish, DeliveryInvariant, TypeOK, RelayType, InlineProgress, StageSet
    <3> QED
      BY <1>5, <2>5, <3>1, <3>2 DEF InlinePublish, Settle
  <2>6. ASSUME NEW e \in Events, ScheduleRetry(r, e)
        PROVE  [Promise!PromiseNext]_(Promise!promiseVars)
    <3>1. seen[r][e] + 1 \in Nat
      BY ConstantsAssumption DEF DeliveryInvariant, TypeOK
    <3> QED
      BY <1>5, <2>6, <3>1 DEF ScheduleRetry
  <2> QED
    BY <1>2, <1>4, <1>6, <2>1, <2>2, <2>3, <2>4, <2>5, <2>6 DEF RelayStep
<1>7. ASSUME NEW w \in Workers, NEW e \in Events,
             TakeJob(w, e) \/ HandlerStep(w, e) \/ WorkerCrash(w, e)
      PROVE  [Promise!PromiseNext]_(Promise!promiseVars)
  <2>1. CASE \/ TakeJob(w, e) \/ WorkerCrash(w, e) \/ Claim(w, e) \/ Complete(w, e)
             \/ Release(w, e) \/ FinishJob(w, e) \/ RejectJob(w, e)
    BY <1>2, <2>1 DEF TakeJob, WorkerCrash, Claim, Complete, Release, FinishJob, RejectJob
  <2>2. CASE ConsumeStage(w, e)
    <3>1. run[w].done + 1 \in StageSet
      BY <2>2, ConstantsAssumption
         DEF ConsumeStage, DeliveryInvariant, TypeOK, RunType, HandlerProgress, StageSet
    <3>2. row[e].status # "ABSENT"
      BY <2>2 DEF ConsumeStage, Runs, AcceptedFirst
    <3> QED
      BY <1>1, <2>2, <3>1, <3>2, PromiseEffect DEF ConsumeStage
  <2>3. row[e].attempts \in Nat
    BY <1>1, ConstantsAssumption DEF RowType
  <2>4. CASE Publish(w, e)
    <3>1. handled[e] = StageSet
      BY <2>4 DEF Publish, Runs, DeliveryInvariant, HandlerProgress
    <3> QED
      BY <1>5, <2>3, <2>4, <3>1 DEF Publish, Settle
  <2>5. CASE Bury(w, e)
    BY <1>5, <2>3, <2>5 DEF Bury, Settle
  <2> QED
    BY <1>7, <2>1, <2>2, <2>4, <2>5 DEF HandlerStep
<1>8. ASSUME NEW e \in Events,
             \/ ExpireReceipt(e) \/ DeleteExpiredReceipt(e) \/ StallJob(e) \/ EvictJob(e)
             \/ ReplayReleaseReceipt(e) \/ ReplayRemoveJob(e)
      PROVE  UNCHANGED <<row, handled>>
  BY <1>8 DEF ExpireReceipt, DeleteExpiredReceipt, StallJob, EvictJob, ReplayReleaseReceipt,
              ReplayRemoveJob
<1>9. CASE UNCHANGED vars
  BY <1>2, <1>9 DEF vars
<1> QED
  BY <1>2, <1>3, <1>6, <1>7, <1>8, <1>9 DEF Next, ReplayStep

\* Before anything is dispatched nothing is promised.
LEMMA InitKeepsPromise == Init => Promise!PromiseInit
BY DEF Init, Standing, Promise!PromiseInit

\* For every number of events, workers, relays and faults: rows move only as
\* promised to producers, an event once accepted stays owed until all its
\* stages have taken effect, and it is forgotten only after publication.
THEOREM ImplementsPromise == Spec => KeepsPromise
<1>1. Init => Promise!PromiseInit /\ AcceptedFirst
  BY InitKeepsPromise, ConstantsAssumption
     DEF Init, NoJob, IdleRun, IdleRelay, AcceptedFirst
<1>2. DeliveryInvariant /\ AcceptedFirst /\ [Next]_vars => AcceptedFirst'
  BY AcceptedNext
<1>3. DeliveryInvariant /\ DeliveryInvariant' /\ AcceptedFirst /\ [Next]_vars
        => [Promise!PromiseNext]_(Promise!promiseVars)
  BY NextKeepsPromise
<1> QED
  BY <1>1, <1>2, <1>3, DeliveryInvariantHolds, PTL DEF Spec, KeepsPromise, Promise!PromiseSpec

=============================================================================
