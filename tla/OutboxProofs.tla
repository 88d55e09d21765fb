---------------------------- MODULE OutboxProofs ----------------------------
(***************************************************************************)
(* For every number of events, workers, relays, stages and attempts, and   *)
(* whatever faults happen: the outbox keeps its types, its attempt bounds  *)
(* and its delivery promise.                                               *)
(***************************************************************************)
EXTENDS Outbox, TLAPS

(* What the helpers change, element by element.                            *)

\* A handler that goes on keeps its event, and only it changes.
LEMMA RunAtEffect ==
  ASSUME NEW w \in Workers, NEW pc \in RunPcs,
         run \in [Workers -> RunType], RunAt(w, pc)
  PROVE  /\ run' \in [Workers -> RunType]
         /\ \A x \in Workers \ {w} : run'[x] = run[x]
         /\ run'[w].pc = pc
         /\ run'[w].event = run[w].event
         /\ run'[w].done = run[w].done
BY DEF RunAt, RunType

\* A relay that goes on keeps its batch, and only it changes.
LEMMA RelayAtEffect ==
  ASSUME NEW r \in Relays, NEW e \in Events, NEW pc \in RelayPcs, NEW done \in 0 .. Stages,
         relay \in [Relays -> RelayType], RelayAt(r, e, pc, done)
  PROVE  /\ relay' \in [Relays -> RelayType]
         /\ \A x \in Relays \ {r} : relay'[x] = relay[x]
         /\ relay'[r].pc = pc
         /\ relay'[r].event = e
         /\ relay'[r].done = done
         /\ UNCHANGED seen
BY DEF RelayAt, RelayType

\* A relay that is done with a row turns to the next, or to idling.
LEMMA RelayNextEffect ==
  ASSUME NEW r \in Relays, NEW left \in SUBSET Events,
         relay \in [Relays -> RelayType],
         seen \in [Relays -> [Events -> 0 .. MaxAttempts]],
         RelayNext(r, left) \/ EndTick(r)
  PROVE  /\ relay' \in [Relays -> RelayType]
         /\ seen' \in [Relays -> [Events -> 0 .. MaxAttempts]]
         /\ \A x \in Relays \ {r} : relay'[x] = relay[x]
         /\ relay'[r].pc \in {"idle", "deliver"}
         /\ relay'[r].done = 0
         /\ \A x \in Relays, y \in Events : seen'[x][y] \in {0, seen[x][y]}
<1> USE ConstantsAssumption
<1>1. CASE EndTick(r)
  <2>1. IdleRelay \in RelayType /\ NothingSeen \in [Events -> 0 .. MaxAttempts]
    BY DEF IdleRelay, NothingSeen, RelayType, RelayPcs
  <2>2. \A y \in Events : NothingSeen[y] = 0
    BY DEF NothingSeen
  <2>3. /\ relay' \in [Relays -> RelayType]
        /\ \A x \in Relays \ {r} : relay'[x] = relay[x]
        /\ relay'[r] = IdleRelay
    BY <1>1, <2>1 DEF EndTick
  <2>4. /\ seen' \in [Relays -> [Events -> 0 .. MaxAttempts]]
        /\ \A x \in Relays \ {r} : seen'[x] = seen[x]
        /\ seen'[r] = NothingSeen
    BY <1>1, <2>1 DEF EndTick
  <2> QED
    BY <2>2, <2>3, <2>4 DEF IdleRelay
<1>2. CASE RelayNext(r, left) /\ left # {}
  <2>1. [pc |-> "deliver", event |-> None, left |-> left, done |-> 0] \in RelayType
    BY DEF RelayType, RelayPcs
  <2>2. /\ relay' \in [Relays -> RelayType]
        /\ \A x \in Relays \ {r} : relay'[x] = relay[x]
        /\ relay'[r].pc = "deliver" /\ relay'[r].done = 0
        /\ UNCHANGED seen
    BY <1>2, <2>1 DEF RelayNext
  <2> QED
    BY <2>2
<1>3. CASE RelayNext(r, left) /\ left = {}
  BY <1>1, <1>3 DEF RelayNext
<1> QED
  BY <1>1, <1>2, <1>3

\* After touching, publishing or rescheduling a row, the relay goes on with its
\* batch, ends the tick or has to retry.
LEMMA RelaySettleEffect ==
  ASSUME NEW r \in Relays, NEW e \in Events,
         relay \in [Relays -> RelayType],
         seen \in [Relays -> [Events -> 0 .. MaxAttempts]],
         \/ RelayNext(r, relay[r].left \ {e}) \/ EndTick(r)
         \/ RelayAt(r, e, "retry", 0)
  PROVE  /\ relay' \in [Relays -> RelayType]
         /\ seen' \in [Relays -> [Events -> 0 .. MaxAttempts]]
         /\ \A x \in Relays \ {r} : relay'[x] = relay[x]
         /\ \/ relay'[r].pc \in {"idle", "deliver"}
            \/ relay'[r].pc = "retry" /\ relay'[r].event \in Events
         /\ relay'[r].done = 0
         /\ \A x \in Relays, y \in Events : seen'[x][y] \in {0, seen[x][y]}
<1> USE ConstantsAssumption
<1>1. CASE RelayNext(r, relay[r].left \ {e}) \/ EndTick(r)
  <2>1. relay[r].left \ {e} \in SUBSET Events
    BY DEF RelayType
  <2> QED
    BY <1>1, <2>1, RelayNextEffect
<1>2. CASE RelayAt(r, e, "retry", 0)
  <2>1. "retry" \in RelayPcs /\ 0 \in 0 .. Stages
    BY DEF RelayPcs
  <2> QED
    BY <1>2, <2>1, RelayAtEffect
<1> QED
  BY <1>1, <1>2

\* updateById changes one row, and none that is absent.
LEMMA SetRowEffect ==
  ASSUME NEW e \in Events, NEW status \in Status, NEW attempts \in 0 .. MaxAttempts,
         NEW lockedAt \in {"null", "set"},
         row \in [Events -> RowType], SetRow(e, status, attempts, lockedAt)
  PROVE  /\ row' \in [Events -> RowType]
         /\ \A x \in Events :
              \/ row'[x] = row[x]
              \/ /\ x = e /\ Present(e)
                 /\ row'[x].status = status /\ row'[x].attempts = attempts
BY DEF SetRow, RowType, Status

\* A consumer call only adds to what has taken effect.
LEMMA StageEffect ==
  ASSUME NEW e \in Events, NEW stage \in StageSet,
         handled \in [Events -> SUBSET StageSet],
         StageSucceeds(e, stage) \/ StageFails(e, stage)
  PROVE  /\ handled' \in [Events -> SUBSET StageSet]
         /\ \A x \in Events : handled[x] \subseteq handled'[x]
         /\ StageSucceeds(e, stage) => stage \in handled'[e]
BY DEF StageSucceeds, StageFails

\* When stages only take effect, what was handled stays handled.
LEMMA HandledStays ==
  ASSUME DeliveryInvariant, handled' \in [Events -> SUBSET StageSet],
         \A x \in Events : handled[x] \subseteq handled'[x],
         UNCHANGED <<row, receipt>>
  PROVE  /\ CompletedImpliesHandled' /\ PublishedImpliesHandled'
         /\ UNCHANGED run => HandlerProgress'
         /\ UNCHANGED relay => InlineProgress'
<1> USE DEF DeliveryInvariant
<1>1. CompletedImpliesHandled' /\ PublishedImpliesHandled'
  BY DEF TypeOK, CompletedImpliesHandled, PublishedImpliesHandled
<1>2. ASSUME UNCHANGED run PROVE HandlerProgress'
  <2> SUFFICES ASSUME NEW w \in Workers
               PROVE  /\ run[w].pc # "idle" => run[w].event \in Events
                      /\ run[w].pc = "consume" => run[w].done < Stages
                      /\ run[w].pc = "complete" => run[w].done = Stages
                      /\ run[w].pc \in {"consume", "complete"}
                           => 1 .. run[w].done \subseteq handled'[run[w].event]
                      /\ run[w].pc = "publish" => handled'[run[w].event] = StageSet
    BY <1>2 DEF HandlerProgress
  <2> QED
    BY ZenonT(60) DEF HandlerProgress
<1>3. ASSUME UNCHANGED relay PROVE InlineProgress'
  <2> SUFFICES ASSUME NEW r \in Relays
               PROVE  /\ relay[r].pc \notin {"idle", "deliver"} => relay[r].event \in Events
                      /\ relay[r].pc \in {"deliver", "inline"} => relay[r].done < Stages
                      /\ relay[r].pc = "settle" => relay[r].done = Stages
                      /\ relay[r].pc \in {"inline", "settle"}
                           => 1 .. relay[r].done \subseteq handled'[relay[r].event]
                      /\ relay[r].pc = "deliver" => relay[r].done = 0
    BY <1>3 DEF InlineProgress
  <2> QED
    BY DEF InlineProgress
<1> QED
  BY <1>1, <1>2, <1>3

(* One lemma per action: it preserves DeliveryInvariant.  Each has one step   *)
(* for the variables it leaves alone and one per conjunct it can disturb.     *)

\* Nothing has been dispatched.
LEMMA InitDelivery == Init => DeliveryInvariant
BY ConstantsAssumption
   DEF Init, DeliveryInvariant, TypeOK, RetriesLeft, HandlerProgress, InlineProgress,
       CompletedImpliesHandled, PublishedImpliesHandled, NoReceipt, NoJob, IdleRun,
       IdleRelay, NothingSeen, IdleReplay, StageSet, Status, RowType, ReceiptType, JobType, RunType,
       RelayType, ReplayType, RunPcs, RelayPcs

\* A new row starts with all its attempts.
LEMMA DispatchDelivery ==
  ASSUME NEW e \in Events,
         DeliveryInvariant, Dispatch(e)
  PROVE  DeliveryInvariant'
<1> USE ConstantsAssumption DEF DeliveryInvariant
<1>1. UNCHANGED <<receipt, job, run, relay, seen, replay, handled, faults, replays>>
  BY DEF Dispatch
<1>2. row' \in [Events -> RowType]
  BY DEF Dispatch, TypeOK, RowType, Status
<1>3. RetriesLeft'
  BY <1>1, <1>2 DEF Dispatch, TypeOK, RowType, RetriesLeft
<1>4. PublishedImpliesHandled'
  BY <1>1 DEF Dispatch, TypeOK, RowType, PublishedImpliesHandled
<1> QED
  BY <1>1, <1>2, <1>3, <1>4 DEF TypeOK, RetriesLeft, HandlerProgress, InlineProgress,
       CompletedImpliesHandled, PublishedImpliesHandled

\* Recovery reopens only a PROCESSING row, whose attempts are left.
LEMMA RecoverStaleLockDelivery ==
  ASSUME NEW e \in Events,
         DeliveryInvariant, RecoverStaleLock(e)
  PROVE  DeliveryInvariant'
<1> USE ConstantsAssumption DEF DeliveryInvariant
<1>1. UNCHANGED <<receipt, job, run, relay, seen, replay, handled, faults, replays>>
  BY DEF RecoverStaleLock
<1>2. row' \in [Events -> RowType]
  BY DEF RecoverStaleLock, TypeOK, RowType, Status
<1>3. RetriesLeft'
  BY <1>1, <1>2 DEF RecoverStaleLock, TypeOK, RowType, RetriesLeft
<1>4. PublishedImpliesHandled'
  BY <1>1 DEF RecoverStaleLock, TypeOK, RowType, PublishedImpliesHandled
<1> QED
  BY <1>1, <1>2, <1>3, <1>4 DEF TypeOK, RetriesLeft, HandlerProgress, InlineProgress,
       CompletedImpliesHandled, PublishedImpliesHandled

\* Only a published, hence handled, row is pruned.
LEMMA RetainPublishedDelivery ==
  ASSUME NEW e \in Events,
         DeliveryInvariant, RetainPublished(e)
  PROVE  DeliveryInvariant'
<1> USE ConstantsAssumption DEF DeliveryInvariant
<1>1. UNCHANGED <<receipt, job, run, relay, seen, replay, handled, faults, replays>>
  BY DEF RetainPublished
<1>2. row' \in [Events -> RowType]
  BY DEF RetainPublished, TypeOK, RowType, Status
<1>3. RetriesLeft'
  BY <1>1, <1>2 DEF RetainPublished, TypeOK, RowType, RetriesLeft
<1>4. PublishedImpliesHandled'
  BY <1>1 DEF RetainPublished, TypeOK, RowType, PublishedImpliesHandled
<1> QED
  BY <1>1, <1>2, <1>3, <1>4 DEF TypeOK, RetriesLeft, HandlerProgress, InlineProgress,
       CompletedImpliesHandled, PublishedImpliesHandled

\* The end of a lease changes no row.
LEMMA ExpireReceiptDelivery ==
  ASSUME NEW e \in Events,
         DeliveryInvariant, ExpireReceipt(e)
  PROVE  DeliveryInvariant'
<1> USE ConstantsAssumption DEF DeliveryInvariant
<1>1. UNCHANGED <<row, job, run, relay, seen, replay, handled, faults, replays>>
  BY DEF ExpireReceipt
<1>2. receipt' \in [Events -> ReceiptType]
  BY DEF ExpireReceipt, TypeOK, ReceiptType, NoReceipt
<1>3. CompletedImpliesHandled'
  BY <1>1 DEF ExpireReceipt, TypeOK, ReceiptType, NoReceipt, CompletedImpliesHandled
<1> QED
  BY <1>1, <1>2, <1>3 DEF TypeOK, RetriesLeft, HandlerProgress, InlineProgress,
       CompletedImpliesHandled, PublishedImpliesHandled

\* Receipt retention changes no row.
LEMMA DeleteExpiredReceiptDelivery ==
  ASSUME NEW e \in Events,
         DeliveryInvariant, DeleteExpiredReceipt(e)
  PROVE  DeliveryInvariant'
<1> USE ConstantsAssumption DEF DeliveryInvariant
<1>1. UNCHANGED <<row, job, run, relay, seen, replay, handled, faults, replays>>
  BY DEF DeleteExpiredReceipt
<1>2. receipt' \in [Events -> ReceiptType]
  BY DEF DeleteExpiredReceipt, TypeOK, ReceiptType, NoReceipt
<1>3. CompletedImpliesHandled'
  BY <1>1 DEF DeleteExpiredReceipt, TypeOK, ReceiptType, NoReceipt, CompletedImpliesHandled
<1> QED
  BY <1>1, <1>2, <1>3 DEF TypeOK, RetriesLeft, HandlerProgress, InlineProgress,
       CompletedImpliesHandled, PublishedImpliesHandled

\* A relay locks PENDING rows, whose attempts are left.
LEMMA LockPendingDelivery ==
  ASSUME NEW r \in Relays, NEW batch \in SUBSET Events,
         DeliveryInvariant, LockPending(r, batch)
  PROVE  DeliveryInvariant'
<1> USE ConstantsAssumption DEF DeliveryInvariant
<1>1. UNCHANGED <<receipt, job, run, replay, handled, faults, replays>>
  BY DEF LockPending
<1>2. row' \in [Events -> RowType]
  BY DEF LockPending, TypeOK, RowType, Status
<1>3. relay' \in [Relays -> RelayType]
  BY DEF LockPending, TypeOK, RelayType, RelayPcs, RowType
<1>4. seen' \in [Relays -> [Events -> 0 .. MaxAttempts]]
  BY DEF LockPending, TypeOK, RowType
<1>5. RetriesLeft'
  BY <1>1 DEF LockPending, TypeOK, RowType, RetriesLeft
<1>6. InlineProgress'
  BY <1>1 DEF LockPending, TypeOK, RelayType, RelayPcs, InlineProgress
<1>7. PublishedImpliesHandled'
  BY <1>1 DEF LockPending, TypeOK, RowType, PublishedImpliesHandled
<1> QED
  BY <1>1, <1>2, <1>3, <1>4, <1>5, <1>6, <1>7 DEF TypeOK, RetriesLeft, HandlerProgress, InlineProgress,
       CompletedImpliesHandled, PublishedImpliesHandled

\* The relay adds a job under the event's id.
LEMMA EnqueueDelivery ==
  ASSUME NEW r \in Relays, NEW e \in Events,
         DeliveryInvariant, Enqueue(r, e)
  PROVE  DeliveryInvariant'
<1> USE ConstantsAssumption DEF DeliveryInvariant
<1>1. UNCHANGED <<row, receipt, run, replay, handled, replays>>
  BY DEF Enqueue
<1>2. faults' \in 0 .. MaxFaults
  BY DEF Enqueue, Fault, TypeOK
<1>3. PICK pc \in {"touch", "retry"} : RelayAt(r, e, pc, 0)
  BY DEF Enqueue
<1>4. /\ relay' \in [Relays -> RelayType]
      /\ \A x \in Relays \ {r} : relay'[x] = relay[x]
      /\ relay'[r].pc = pc /\ relay'[r].event \in Events
      /\ UNCHANGED seen
  BY <1>3, RelayAtEffect DEF RelayPcs, TypeOK
<1>5. \A x \in Events : job'[x] \in {job[x], NewJob}
  BY DEF Enqueue, AddJob, TypeOK
<1>6. job' \in [Events -> JobType]
  BY SMTT(60) DEF Enqueue, AddJob, NewJob, TypeOK, JobType
<1>7. RetriesLeft'
  <2>1. \A x \in Events : job'[x].state \in {"wait", "active"} => job'[x].made < MaxAttempts
    BY <1>5 DEF NewJob, RetriesLeft
  <2>2. \A x \in Events : job'[x].holder # None => job'[x].state = "active"
    BY <1>5 DEF NewJob, RetriesLeft
  <2> QED
    BY <1>1, <1>4, <2>1, <2>2 DEF RetriesLeft
<1>8. InlineProgress'
  BY <1>1, <1>4 DEF InlineProgress
<1> QED
  BY <1>1, <1>2, <1>4, <1>6, <1>7, <1>8 DEF TypeOK, RetriesLeft, HandlerProgress, InlineProgress,
       CompletedImpliesHandled, PublishedImpliesHandled

\* The unconditional lock touch names neither status nor attempts.
LEMMA TouchLockDelivery ==
  ASSUME NEW r \in Relays, NEW e \in Events,
         DeliveryInvariant, TouchLock(r, e)
  PROVE  DeliveryInvariant'
<1> USE ConstantsAssumption DEF DeliveryInvariant
<1>1. UNCHANGED <<receipt, job, run, replay, handled, replays>>
  BY DEF TouchLock
<1>2. faults' \in 0 .. MaxFaults
  BY DEF TouchLock, Fault, TypeOK
<1>3. /\ row' \in [Events -> RowType]
      /\ \A x \in Events : /\ row'[x].status = row[x].status
                           /\ row'[x].attempts = row[x].attempts
  <2>1. CASE UNCHANGED row
    BY <2>1 DEF TypeOK
  <2>2. CASE SetRow(e, row[e].status, row[e].attempts, "set")
    BY <2>2, SetRowEffect DEF TypeOK, RowType
  <2> QED
    BY <2>1, <2>2 DEF TouchLock
<1>4. \/ RelayNext(r, relay[r].left \ {e}) \/ EndTick(r)
      \/ RelayAt(r, e, "retry", 0)
  BY DEF TouchLock
<1>6. /\ relay' \in [Relays -> RelayType]
      /\ seen' \in [Relays -> [Events -> 0 .. MaxAttempts]]
      /\ \A x \in Relays \ {r} : relay'[x] = relay[x]
      /\ \/ relay'[r].pc \in {"idle", "deliver"}
         \/ relay'[r].pc = "retry" /\ relay'[r].event \in Events
      /\ relay'[r].done = 0
      /\ \A x \in Relays, y \in Events : seen'[x][y] \in {0, seen[x][y]}
  BY <1>4, RelaySettleEffect DEF TypeOK
<1>8. RetriesLeft'
  <2>1. \A x \in Relays, y \in Events : seen'[x][y] < MaxAttempts
    BY <1>6 DEF RetriesLeft
  <2>2. \A x \in Events : row'[x].status \in {"ABSENT", "PENDING", "PROCESSING"}
                            => row'[x].attempts < MaxAttempts
    BY <1>3 DEF RetriesLeft
  <2> QED
    BY <1>1, <2>1, <2>2 DEF RetriesLeft
<1>9. InlineProgress'
  BY <1>1, <1>6 DEF InlineProgress
<1>10. PublishedImpliesHandled'
  BY <1>1, <1>3 DEF PublishedImpliesHandled
<1> QED
  BY <1>1, <1>2, <1>3, <1>6, <1>8, <1>9, <1>10 DEF TypeOK, RetriesLeft, HandlerProgress, InlineProgress,
       CompletedImpliesHandled, PublishedImpliesHandled

\* Without a queue the relay starts on the first stage.
LEMMA InlineBeginDelivery ==
  ASSUME NEW r \in Relays, NEW e \in Events,
         DeliveryInvariant, InlineBegin(r, e)
  PROVE  DeliveryInvariant'
<1> USE ConstantsAssumption DEF DeliveryInvariant
<1>1. UNCHANGED <<row, receipt, job, run, seen, replay, handled, faults, replays>>
  BY DEF InlineBegin, RelayAt
<1>2. relay' \in [Relays -> RelayType]
  BY DEF InlineBegin, RelayAt, TypeOK, RelayType, RelayPcs
<1>3. InlineProgress'
  BY <1>1 DEF InlineBegin, RelayAt, TypeOK, RelayType, RelayPcs, InlineProgress
<1> QED
  BY <1>1, <1>2, <1>3 DEF TypeOK, RetriesLeft, HandlerProgress, InlineProgress,
       CompletedImpliesHandled, PublishedImpliesHandled

\* The relay's own pass through the stages only counts those that succeeded.
LEMMA InlineConsumeDelivery ==
  ASSUME NEW r \in Relays, NEW e \in Events,
         DeliveryInvariant, InlineConsume(r, e)
  PROVE  DeliveryInvariant'
<1> USE ConstantsAssumption DEF DeliveryInvariant
<1>1. UNCHANGED <<row, receipt, job, run, replay, replays>>
  BY DEF InlineConsume
<1>2. faults' \in 0 .. MaxFaults
  BY DEF InlineConsume, StageSucceeds, StageFails, Fault, TypeOK
<1> DEFINE next == relay[r].done + 1
<1>3. next \in StageSet /\ next \in 0 .. Stages
  BY DEF InlineConsume, TypeOK, RelayType, InlineProgress, StageSet
<1>4. /\ handled' \in [Events -> SUBSET StageSet]
      /\ \A x \in Events : handled[x] \subseteq handled'[x]
      /\ StageSucceeds(e, next) => next \in handled'[e]
  BY <1>3, StageEffect DEF InlineConsume, TypeOK
<1>5. CASE StageFails(e, next) /\ RelayAt(r, e, "retry", 0)
  <2>1. /\ relay' \in [Relays -> RelayType]
        /\ \A x \in Relays \ {r} : relay'[x] = relay[x]
        /\ relay'[r].pc = "retry" /\ relay'[r].event = e /\ UNCHANGED seen
    BY <1>5, RelayAtEffect DEF RelayPcs, TypeOK
  <2>2. InlineProgress'
    BY <1>5, <2>1 DEF StageFails, InlineProgress
  <2> QED
    BY <1>1, <1>2, <1>4, <2>1, <2>2, HandledStays DEF TypeOK, RetriesLeft
<1>6. CASE /\ StageSucceeds(e, next)
           /\ RelayAt(r, e, IF next = Stages THEN "settle" ELSE "inline", next)
  <2>1. /\ relay' \in [Relays -> RelayType]
        /\ \A x \in Relays \ {r} : relay'[x] = relay[x]
        /\ relay'[r].pc = (IF next = Stages THEN "settle" ELSE "inline")
        /\ relay'[r].event = e /\ relay'[r].done = next /\ UNCHANGED seen
    <3>1. (IF next = Stages THEN "settle" ELSE "inline") \in RelayPcs
      BY DEF RelayPcs
    <3> HIDE DEF next
    <3> QED
      BY <1>3, <1>6, <3>1, RelayAtEffect DEF TypeOK
  <2>2. 1 .. next \subseteq handled'[e]
    BY <1>3, <1>4, <1>6 DEF InlineConsume, InlineProgress, StageSet, TypeOK, RelayType
  <2>3. ASSUME NEW x \in Relays \ {r}
        PROVE  /\ relay[x].pc \notin {"idle", "deliver"} => relay[x].event \in Events
               /\ relay[x].pc \in {"inline", "settle"}
                    => 1 .. relay[x].done \subseteq handled'[relay[x].event]
    BY <1>4 DEF InlineProgress
  <2>4. next # Stages => next < Stages
    BY <1>3 DEF StageSet
  <2>5. InlineProgress'
    BY <2>1, <2>2, <2>3, <2>4 DEF InlineProgress
  <2> QED
    BY <1>1, <1>2, <1>4, <2>1, <2>5, HandledStays DEF TypeOK, RetriesLeft
<1> QED
  BY <1>5, <1>6 DEF InlineConsume

\* The relay publishes after the last stage.
LEMMA InlinePublishDelivery ==
  ASSUME NEW r \in Relays, NEW e \in Events,
         DeliveryInvariant, InlinePublish(r, e)
  PROVE  DeliveryInvariant'
<1> USE ConstantsAssumption DEF DeliveryInvariant
<1>1. UNCHANGED <<receipt, job, run, replay, handled, replays>>
  BY DEF InlinePublish
<1>2. faults' \in 0 .. MaxFaults
  BY DEF InlinePublish, Fault, TypeOK
<1>a. handled[e] = StageSet
  BY DEF InlinePublish, TypeOK, RelayType, InlineProgress, StageSet
<1>3. /\ row' \in [Events -> RowType]
      /\ \A x \in Events : \/ row'[x] = row[x]
                           \/ row'[x].status = "PUBLISHED" /\ handled[x] = StageSet
  <2>1. CASE UNCHANGED row
    BY <2>1 DEF TypeOK
  <2>2. CASE SetRow(e, "PUBLISHED", row[e].attempts, "null")
    BY <1>a, <2>2, SetRowEffect DEF TypeOK, RowType, Status
  <2> QED
    BY <2>1, <2>2 DEF InlinePublish, Settle
<1>4. \/ RelayNext(r, relay[r].left \ {e}) \/ EndTick(r)
      \/ RelayAt(r, e, "retry", 0)
  BY DEF InlinePublish
<1>6. /\ relay' \in [Relays -> RelayType]
      /\ seen' \in [Relays -> [Events -> 0 .. MaxAttempts]]
      /\ \A x \in Relays \ {r} : relay'[x] = relay[x]
      /\ \/ relay'[r].pc \in {"idle", "deliver"}
         \/ relay'[r].pc = "retry" /\ relay'[r].event \in Events
      /\ relay'[r].done = 0
      /\ \A x \in Relays, y \in Events : seen'[x][y] \in {0, seen[x][y]}
  BY <1>4, RelaySettleEffect DEF TypeOK
<1>8. RetriesLeft'
  <2>1. \A x \in Relays, y \in Events : seen'[x][y] < MaxAttempts
    BY <1>6 DEF RetriesLeft
  <2>2. \A x \in Events : row'[x].status \in {"ABSENT", "PENDING", "PROCESSING"}
                            => row'[x].attempts < MaxAttempts
    BY <1>3 DEF RetriesLeft
  <2> QED
    BY <1>1, <2>1, <2>2 DEF RetriesLeft
<1>9. InlineProgress'
  BY <1>1, <1>6 DEF InlineProgress
<1>10. PublishedImpliesHandled'
  BY <1>1, <1>3 DEF PublishedImpliesHandled
<1> QED
  BY <1>1, <1>2, <1>3, <1>6, <1>8, <1>9, <1>10 DEF TypeOK, RetriesLeft, HandlerProgress, InlineProgress,
       CompletedImpliesHandled, PublishedImpliesHandled

\* A retry counts; the last one buries the row instead.
LEMMA ScheduleRetryDelivery ==
  ASSUME NEW r \in Relays, NEW e \in Events,
         DeliveryInvariant, ScheduleRetry(r, e)
  PROVE  DeliveryInvariant'
<1> USE ConstantsAssumption DEF DeliveryInvariant
<1>1. UNCHANGED <<receipt, job, run, replay, handled, replays>>
  BY DEF ScheduleRetry
<1>2. faults' \in 0 .. MaxFaults
  BY DEF ScheduleRetry, Fault, TypeOK
<1>3. /\ row' \in [Events -> RowType]
      /\ \A x \in Events : \/ row'[x] = row[x]
                           \/ row'[x].status = "DEAD_LETTER"
                           \/ row'[x].status = "PENDING" /\ row'[x].attempts < MaxAttempts
  <2>1. CASE UNCHANGED row
    BY <2>1 DEF TypeOK
  <2>2. CASE SetRow(e, IF seen[r][e] + 1 >= MaxAttempts THEN "DEAD_LETTER" ELSE "PENDING",
                    seen[r][e] + 1, "null")
    <3>1. seen[r][e] \in 0 .. MaxAttempts /\ seen[r][e] < MaxAttempts
      BY DEF TypeOK, RetriesLeft
    <3>2. CASE seen[r][e] + 1 >= MaxAttempts
      BY <2>2, <3>1, <3>2, SetRowEffect DEF TypeOK, Status
    <3>3. CASE ~(seen[r][e] + 1 >= MaxAttempts)
      BY <2>2, <3>1, <3>3, SetRowEffect DEF TypeOK, Status
    <3> QED
      BY <3>2, <3>3
  <2> QED
    BY <2>1, <2>2 DEF ScheduleRetry
<1>4. \/ RelayNext(r, relay[r].left \ {e}) \/ EndTick(r)
      \/ RelayAt(r, e, "retry", 0)
  BY DEF ScheduleRetry
<1>6. /\ relay' \in [Relays -> RelayType]
      /\ seen' \in [Relays -> [Events -> 0 .. MaxAttempts]]
      /\ \A x \in Relays \ {r} : relay'[x] = relay[x]
      /\ \/ relay'[r].pc \in {"idle", "deliver"}
         \/ relay'[r].pc = "retry" /\ relay'[r].event \in Events
      /\ relay'[r].done = 0
      /\ \A x \in Relays, y \in Events : seen'[x][y] \in {0, seen[x][y]}
  BY <1>4, RelaySettleEffect DEF TypeOK
<1>8. RetriesLeft'
  <2>1. \A x \in Relays, y \in Events : seen'[x][y] < MaxAttempts
    BY <1>6 DEF RetriesLeft
  <2>2. \A x \in Events : row'[x].status \in {"ABSENT", "PENDING", "PROCESSING"}
                            => row'[x].attempts < MaxAttempts
    BY <1>3 DEF RetriesLeft
  <2> QED
    BY <1>1, <2>1, <2>2 DEF RetriesLeft
<1>9. InlineProgress'
  BY <1>1, <1>6 DEF InlineProgress
<1>10. PublishedImpliesHandled'
  BY <1>1, <1>3 DEF PublishedImpliesHandled
<1> QED
  BY <1>1, <1>2, <1>3, <1>6, <1>8, <1>9, <1>10 DEF TypeOK, RetriesLeft, HandlerProgress, InlineProgress,
       CompletedImpliesHandled, PublishedImpliesHandled

\* A dead relay leaves rows as they were.
LEMMA RelayCrashDelivery ==
  ASSUME NEW r \in Relays,
         DeliveryInvariant, RelayCrash(r)
  PROVE  DeliveryInvariant'
<1> USE ConstantsAssumption DEF DeliveryInvariant
<1>1. UNCHANGED <<row, receipt, job, run, replay, handled, replays>>
  BY DEF RelayCrash
<1>2. faults' \in 0 .. MaxFaults
  BY DEF RelayCrash, Fault, TypeOK
<1>3. relay' \in [Relays -> RelayType]
  BY DEF RelayCrash, EndTick, IdleRelay, TypeOK, RelayType, RelayPcs
<1>4. seen' \in [Relays -> [Events -> 0 .. MaxAttempts]]
  BY DEF RelayCrash, EndTick, NothingSeen, TypeOK
<1>5. RetriesLeft'
  BY <1>1 DEF RelayCrash, EndTick, NothingSeen, TypeOK, RetriesLeft
<1>6. InlineProgress'
  BY <1>1 DEF RelayCrash, EndTick, IdleRelay, TypeOK, RelayType, RelayPcs, InlineProgress
<1> QED
  BY <1>1, <1>2, <1>3, <1>4, <1>5, <1>6 DEF TypeOK, RetriesLeft, HandlerProgress, InlineProgress,
       CompletedImpliesHandled, PublishedImpliesHandled

\* A stalled job waits again, or fails for good.
LEMMA StallJobDelivery ==
  ASSUME NEW e \in Events,
         DeliveryInvariant, StallJob(e)
  PROVE  DeliveryInvariant'
<1> USE ConstantsAssumption DEF DeliveryInvariant
<1>1. UNCHANGED <<row, receipt, run, relay, seen, replay, handled, replays>>
  BY DEF StallJob
<1>2. faults' \in 0 .. MaxFaults
  BY DEF StallJob, Fault, TypeOK
<1>3. job' \in [Events -> JobType]
  BY DEF StallJob, NoJob, TypeOK, JobType
<1>4. RetriesLeft'
  BY <1>1 DEF StallJob, NoJob, TypeOK, JobType, RetriesLeft
<1> QED
  BY <1>1, <1>2, <1>3, <1>4 DEF TypeOK, RetriesLeft, HandlerProgress, InlineProgress,
       CompletedImpliesHandled, PublishedImpliesHandled

\* A job that ended is forgotten.
LEMMA EvictJobDelivery ==
  ASSUME NEW e \in Events,
         DeliveryInvariant, EvictJob(e)
  PROVE  DeliveryInvariant'
<1> USE ConstantsAssumption DEF DeliveryInvariant
<1>1. UNCHANGED <<row, receipt, run, relay, seen, replay, handled, replays>>
  BY DEF EvictJob
<1>2. faults' \in 0 .. MaxFaults
  BY DEF EvictJob, Fault, TypeOK
<1>3. job' \in [Events -> JobType]
  BY DEF EvictJob, NoJob, TypeOK, JobType
<1>4. RetriesLeft'
  BY <1>1 DEF EvictJob, NoJob, TypeOK, JobType, RetriesLeft
<1> QED
  BY <1>1, <1>2, <1>3, <1>4 DEF TypeOK, RetriesLeft, HandlerProgress, InlineProgress,
       CompletedImpliesHandled, PublishedImpliesHandled

\* A worker takes a waiting job, whose attempts are left.
LEMMA TakeJobDelivery ==
  ASSUME NEW w \in Workers, NEW e \in Events,
         DeliveryInvariant, TakeJob(w, e)
  PROVE  DeliveryInvariant'
<1> USE ConstantsAssumption DEF DeliveryInvariant
<1>1. UNCHANGED <<row, receipt, relay, seen, replay, handled, faults, replays>>
  BY DEF TakeJob
<1>2. job' \in [Events -> JobType]
  <2>1. job[e] \in JobType
    BY DEF TypeOK
  <2>2. [state |-> "active", made |-> job[e].made, stalls |-> job[e].stalls, holder |-> w] \in JobType
    BY <2>1, ConstantsAssumption DEF JobType, RetriesLeft, TakeJob, Runs
  <2> QED
    BY <2>2 DEF TakeJob, TypeOK
<1>3. \A x \in Events : job'[x] = job[x] \/ (/\ job'[x].state = "active"
                                     /\ job'[x].made < MaxAttempts)
  BY DEF TakeJob, TypeOK, RetriesLeft
<1>4. /\ run' \in [Workers -> RunType]
      /\ \A x \in Workers \ {w} : run'[x] = run[x]
      /\ run'[w].pc = "claim" /\ run'[w].event = e /\ run'[w].done = 0
  BY DEF TakeJob, TypeOK, JobType, RunType, RunPcs
<1>5. HandlerProgress'
  BY <1>1, <1>4 DEF IdleRun, HandlerProgress
<1>6. RetriesLeft'
  <2>1. /\ \A x \in Events : job'[x].state \in {"wait", "active"} => job'[x].made < MaxAttempts
        /\ \A x \in Events : job'[x].holder # None => job'[x].state = "active"
    BY <1>3 DEF RetriesLeft
  <2> QED
    BY <1>1, <2>1 DEF RetriesLeft
<1> QED
  BY <1>1, <1>2, <1>4, <1>5, <1>6 DEF TypeOK, RetriesLeft, HandlerProgress, InlineProgress,
       CompletedImpliesHandled, PublishedImpliesHandled

\* A completed receipt stands for effects that took place.
LEMMA ClaimDelivery ==
  ASSUME NEW w \in Workers, NEW e \in Events,
         DeliveryInvariant, Claim(w, e)
  PROVE  DeliveryInvariant'
<1> USE ConstantsAssumption DEF DeliveryInvariant
<1>1. UNCHANGED <<row, job, relay, seen, replay, handled, replays>>
  BY DEF Claim
<1>2. faults' \in 0 .. MaxFaults
  BY DEF Claim, Fault, TypeOK
<1>3. run[w].event = e
  BY DEF Claim, Runs
<1>4. PICK pc \in {"consume", "publish", "bury"} : RunAt(w, pc)
  BY DEF Claim
<1>5. /\ run' \in [Workers -> RunType]
      /\ \A x \in Workers \ {w} : run'[x] = run[x]
      /\ run'[w].pc = pc /\ run'[w].event = e /\ run'[w].done = run[w].done
  BY <1>3, <1>4, RunAtEffect DEF RunPcs, TypeOK
<1>6. /\ pc = "consume" => run[w].done < Stages /\ 1 .. run[w].done = {}
      /\ pc = "publish" => handled[e] = StageSet
  <2>1. run[w].done = 0
    BY DEF Claim, HandlerProgress
  <2>2. pc = "publish" => receipt[e].state = "COMPLETED"
    BY <1>4 DEF Claim, RunAt, TypeOK, RunType
  <2> QED
    BY <2>1, <2>2 DEF CompletedImpliesHandled
<1>7. HandlerProgress'
  BY <1>1, <1>5, <1>6 DEF HandlerProgress
<1>8. receipt' \in [Events -> ReceiptType]
  BY DEF Claim, TakeReceipt, TypeOK, ReceiptType
<1>9. CompletedImpliesHandled'
  BY SMTT(60), <1>1 DEF Claim, TakeReceipt, TypeOK, ReceiptType, CompletedImpliesHandled
<1> QED
  BY <1>1, <1>2, <1>5, <1>7, <1>8, <1>9 DEF TypeOK, RetriesLeft, HandlerProgress, InlineProgress,
       CompletedImpliesHandled, PublishedImpliesHandled

\* The handler counts only stages that succeeded.
LEMMA ConsumeStageDelivery ==
  ASSUME NEW w \in Workers, NEW e \in Events,
         DeliveryInvariant, ConsumeStage(w, e)
  PROVE  DeliveryInvariant'
<1> USE ConstantsAssumption DEF DeliveryInvariant
<1>1. UNCHANGED <<row, receipt, job, relay, seen, replay, replays>>
  BY DEF ConsumeStage
<1>2. faults' \in 0 .. MaxFaults
  BY DEF ConsumeStage, StageSucceeds, StageFails, Fault, TypeOK
<1> DEFINE next == run[w].done + 1
<1>3. next \in StageSet /\ next \in 0 .. Stages /\ run[w].event = e
  BY DEF ConsumeStage, Runs, TypeOK, RunType, HandlerProgress, StageSet
<1>4. /\ handled' \in [Events -> SUBSET StageSet]
      /\ \A x \in Events : handled[x] \subseteq handled'[x]
      /\ StageSucceeds(e, next) => next \in handled'[e]
  BY <1>3, StageEffect DEF ConsumeStage, TypeOK
<1>5. CASE StageFails(e, next) /\ RunAt(w, "release")
  <2>1. /\ run' \in [Workers -> RunType]
        /\ \A x \in Workers \ {w} : run'[x] = run[x]
        /\ run'[w].pc = "release" /\ run'[w].event = e
    BY <1>3, <1>5, RunAtEffect DEF RunPcs, TypeOK
  <2>2. HandlerProgress'
    BY <1>5, <2>1 DEF StageFails, HandlerProgress
  <2> QED
    BY <1>1, <1>2, <1>4, <2>1, <2>2, HandledStays DEF TypeOK, RetriesLeft
<1>6. CASE /\ StageSucceeds(e, next)
           /\ run' = [run EXCEPT ![w] =
                       [pc |-> IF next = Stages THEN "complete" ELSE "consume",
                        event |-> e, made |-> @.made, done |-> next]]
  <2>1. /\ run' \in [Workers -> RunType]
        /\ \A x \in Workers \ {w} : run'[x] = run[x]
        /\ run'[w].pc = (IF next = Stages THEN "complete" ELSE "consume")
        /\ run'[w].event = e /\ run'[w].done = next
    <3> HIDE DEF next
    <3> QED
      BY <1>3, <1>6 DEF TypeOK, RunType, RunPcs
  <2>2. 1 .. next \subseteq handled'[e]
    BY <1>3, <1>4, <1>6 DEF ConsumeStage, HandlerProgress, StageSet, TypeOK, RunType
  <2>3. ASSUME NEW x \in Workers \ {w}
        PROVE  /\ run[x].pc # "idle" => run[x].event \in Events
               /\ run[x].pc \in {"consume", "complete"}
                    => 1 .. run[x].done \subseteq handled'[run[x].event]
    BY <1>4 DEF HandlerProgress
  <2>6. ASSUME NEW x \in Workers \ {w}, run[x].pc = "publish"
        PROVE  handled'[run[x].event] = StageSet
    <3>1. run[x].event \in Events /\ handled[run[x].event] = StageSet
      BY <2>6 DEF HandlerProgress
    <3> QED
      BY <1>4, <3>1
  <2>4. next # Stages => next < Stages
    BY <1>3 DEF StageSet
  <2>5. HandlerProgress'
    BY <2>1, <2>2, <2>3, <2>4, <2>6 DEF HandlerProgress
  <2> QED
    BY <1>1, <1>2, <1>4, <2>1, <2>5, HandledStays DEF TypeOK, RetriesLeft
<1> QED
  BY <1>5, <1>6 DEF ConsumeStage

\* A receipt completes after the last stage.
LEMMA CompleteDelivery ==
  ASSUME NEW w \in Workers, NEW e \in Events,
         DeliveryInvariant, Complete(w, e)
  PROVE  DeliveryInvariant'
<1> USE ConstantsAssumption DEF DeliveryInvariant
<1>1. UNCHANGED <<row, job, relay, seen, replay, handled, replays>>
  BY DEF Complete
<1>2. faults' \in 0 .. MaxFaults
  BY DEF Complete, Fault, TypeOK
<1>3. run[w].event = e
  BY DEF Complete, Runs
<1>4. PICK pc \in {"publish", "release"} : RunAt(w, pc)
  BY DEF Complete
<1>5. /\ run' \in [Workers -> RunType]
      /\ \A x \in Workers \ {w} : run'[x] = run[x]
      /\ run'[w].pc = pc /\ run'[w].event = e /\ run'[w].done = run[w].done
  BY <1>3, <1>4, RunAtEffect DEF RunPcs, TypeOK
<1>6. handled[e] = StageSet
  BY <1>3 DEF Complete, TypeOK, RunType, HandlerProgress, StageSet
<1>7. HandlerProgress'
  BY <1>1, <1>5, <1>6 DEF HandlerProgress
<1>8. receipt' \in [Events -> ReceiptType]
  BY DEF Complete, CompleteReceipt, TypeOK, ReceiptType
<1>9. CompletedImpliesHandled'
  BY <1>1, <1>6 DEF Complete, CompleteReceipt, TypeOK, ReceiptType, CompletedImpliesHandled
<1> QED
  BY <1>1, <1>2, <1>5, <1>7, <1>8, <1>9 DEF TypeOK, RetriesLeft, HandlerProgress, InlineProgress,
       CompletedImpliesHandled, PublishedImpliesHandled

\* The handler publishes what its receipt says was handled.
LEMMA PublishDelivery ==
  ASSUME NEW w \in Workers, NEW e \in Events,
         DeliveryInvariant, Publish(w, e)
  PROVE  DeliveryInvariant'
<1> USE ConstantsAssumption DEF DeliveryInvariant
<1>1. UNCHANGED <<receipt, job, relay, seen, replay, handled, replays>>
  BY DEF Publish
<1>2. faults' \in 0 .. MaxFaults
  BY DEF Publish, Fault, TypeOK
<1>3. run[w].event = e
  BY DEF Publish, Runs
<1>4. PICK pc \in {"finish", "bury"} : RunAt(w, pc)
  BY DEF Publish
<1>5. /\ run' \in [Workers -> RunType]
      /\ \A x \in Workers \ {w} : run'[x] = run[x]
      /\ run'[w].pc = pc /\ run'[w].event = e /\ run'[w].done = run[w].done
  BY <1>3, <1>4, RunAtEffect DEF RunPcs, TypeOK
<1>6. handled[e] = StageSet
  BY <1>3 DEF Publish, HandlerProgress
<1>7. HandlerProgress'
  BY <1>1, <1>5 DEF HandlerProgress
<1>8. /\ row' \in [Events -> RowType]
      /\ \A x \in Events : \/ row'[x] = row[x]
                           \/ row'[x].status = "PUBLISHED" /\ handled[x] = StageSet
  <2>1. CASE UNCHANGED row
    BY <2>1 DEF TypeOK
  <2>2. CASE SetRow(e, "PUBLISHED", row[e].attempts, "null")
    BY <1>6, <2>2, SetRowEffect DEF TypeOK, RowType, Status
  <2> QED
    BY <2>1, <2>2 DEF Publish, Settle
<1>9. RetriesLeft' /\ PublishedImpliesHandled'
  BY <1>1, <1>8 DEF RetriesLeft, PublishedImpliesHandled
<1> QED
  BY <1>1, <1>2, <1>5, <1>7, <1>8, <1>9 DEF TypeOK, RetriesLeft, HandlerProgress, InlineProgress,
       CompletedImpliesHandled, PublishedImpliesHandled

\* Releasing a claim changes no row.
LEMMA ReleaseDelivery ==
  ASSUME NEW w \in Workers, NEW e \in Events,
         DeliveryInvariant, Release(w, e)
  PROVE  DeliveryInvariant'
<1> USE ConstantsAssumption DEF DeliveryInvariant
<1>1. UNCHANGED <<row, job, relay, seen, replay, handled, replays>>
  BY DEF Release
<1>2. faults' \in 0 .. MaxFaults
  BY DEF Release, Fault, TypeOK
<1>3. run[w].event = e
  BY DEF Release, Runs
<1>4. PICK pc \in {"bury"} : RunAt(w, pc)
  BY DEF Release
<1>5. /\ run' \in [Workers -> RunType]
      /\ \A x \in Workers \ {w} : run'[x] = run[x]
      /\ run'[w].pc = pc /\ run'[w].event = e /\ run'[w].done = run[w].done
  BY <1>3, <1>4, RunAtEffect DEF RunPcs, TypeOK
<1>7. HandlerProgress'
  BY <1>1, <1>5 DEF HandlerProgress
<1>8. receipt' \in [Events -> ReceiptType]
  <2>1. CASE receipt' = [receipt EXCEPT ![e] = IF Owns(w, e) THEN NoReceipt ELSE @]
    BY <2>1 DEF NoReceipt, TypeOK, ReceiptType
  <2>2. CASE receipt' = [receipt EXCEPT ![e].owner = IF Owns(w, e) THEN None ELSE @]
    BY SMTT(60), <2>2 DEF TypeOK, ReceiptType
  <2> QED
    BY <2>1, <2>2 DEF Release
<1>9. CompletedImpliesHandled'
  <2>1. \A x \in Events : receipt'[x].state \in {receipt[x].state, "NONE"}
    <3>1. CASE receipt' = [receipt EXCEPT ![e] = IF Owns(w, e) THEN NoReceipt ELSE @]
      BY <3>1 DEF NoReceipt, TypeOK, ReceiptType
    <3>2. CASE receipt' = [receipt EXCEPT ![e].owner = IF Owns(w, e) THEN None ELSE @]
      BY <3>2 DEF TypeOK, ReceiptType
    <3> QED
      BY <3>1, <3>2 DEF Release
  <2> QED
    BY <1>1, <2>1 DEF CompletedImpliesHandled
<1> QED
  BY <1>1, <1>2, <1>5, <1>7, <1>8, <1>9 DEF TypeOK, RetriesLeft, HandlerProgress, InlineProgress,
       CompletedImpliesHandled, PublishedImpliesHandled

\* The handler buries on the job's last attempt.
LEMMA BuryDelivery ==
  ASSUME NEW w \in Workers, NEW e \in Events,
         DeliveryInvariant, Bury(w, e)
  PROVE  DeliveryInvariant'
<1> USE ConstantsAssumption DEF DeliveryInvariant
<1>1. UNCHANGED <<receipt, job, relay, seen, replay, handled, replays>>
  BY DEF Bury
<1>2. faults' \in 0 .. MaxFaults
  BY DEF Bury, Fault, TypeOK
<1>3. run[w].event = e
  BY DEF Bury, Runs
<1>4. PICK pc \in {"reject"} : RunAt(w, pc)
  BY DEF Bury
<1>5. /\ run' \in [Workers -> RunType]
      /\ \A x \in Workers \ {w} : run'[x] = run[x]
      /\ run'[w].pc = pc /\ run'[w].event = e /\ run'[w].done = run[w].done
  BY <1>3, <1>4, RunAtEffect DEF RunPcs, TypeOK
<1>7. HandlerProgress'
  BY <1>1, <1>5 DEF HandlerProgress
<1>8. /\ row' \in [Events -> RowType]
      /\ \A x \in Events : row'[x] = row[x] \/ row'[x].status = "DEAD_LETTER"
  <2>1. CASE UNCHANGED row
    BY <2>1 DEF TypeOK
  <2>2. CASE SetRow(e, "DEAD_LETTER", row[e].attempts, "null")
    BY <2>2, SetRowEffect DEF TypeOK, RowType, Status
  <2> QED
    BY <2>1, <2>2 DEF Bury, Settle
<1>9. RetriesLeft' /\ PublishedImpliesHandled'
  BY <1>1, <1>8 DEF RetriesLeft, PublishedImpliesHandled
<1> QED
  BY <1>1, <1>2, <1>5, <1>7, <1>8, <1>9 DEF TypeOK, RetriesLeft, HandlerProgress, InlineProgress,
       CompletedImpliesHandled, PublishedImpliesHandled

\* A handler that returns completes its job.
LEMMA FinishJobDelivery ==
  ASSUME NEW w \in Workers, NEW e \in Events,
         DeliveryInvariant, FinishJob(w, e)
  PROVE  DeliveryInvariant'
<1> USE ConstantsAssumption DEF DeliveryInvariant
<1>1. UNCHANGED <<row, receipt, relay, seen, replay, handled, faults, replays>>
  BY DEF FinishJob
<1>2. job' \in [Events -> JobType]
  <2>1. job[e] \in JobType
    BY DEF TypeOK
  <2>2. [state |-> "completed", made |-> job[e].made, stalls |-> job[e].stalls, holder |-> None] \in JobType
    BY <2>1, ConstantsAssumption DEF JobType, RetriesLeft, FinishJob, Runs
  <2> QED
    BY <2>2 DEF FinishJob, TypeOK
<1>3. \A x \in Events : job'[x] = job[x] \/ (/\ job'[x].state = "completed"
                                     /\ job'[x].holder = None)
  BY DEF FinishJob, TypeOK, RetriesLeft
<1>4. /\ run' \in [Workers -> RunType]
      /\ \A x \in Workers \ {w} : run'[x] = run[x]
      /\ run'[w] = IdleRun
  BY DEF FinishJob, IdleRun, TypeOK, RunType, RunPcs
<1>5. HandlerProgress'
  BY <1>1, <1>4 DEF IdleRun, HandlerProgress
<1>6. RetriesLeft'
  <2>1. /\ \A x \in Events : job'[x].state \in {"wait", "active"} => job'[x].made < MaxAttempts
        /\ \A x \in Events : job'[x].holder # None => job'[x].state = "active"
    BY <1>3 DEF RetriesLeft
  <2> QED
    BY <1>1, <2>1 DEF RetriesLeft
<1> QED
  BY <1>1, <1>2, <1>4, <1>5, <1>6 DEF TypeOK, RetriesLeft, HandlerProgress, InlineProgress,
       CompletedImpliesHandled, PublishedImpliesHandled

\* A handler that throws uses up one attempt of its job.
LEMMA RejectJobDelivery ==
  ASSUME NEW w \in Workers, NEW e \in Events,
         DeliveryInvariant, RejectJob(w, e)
  PROVE  DeliveryInvariant'
<1> USE ConstantsAssumption DEF DeliveryInvariant
<1>1. UNCHANGED <<row, receipt, relay, seen, replay, handled, faults, replays>>
  BY DEF RejectJob
<1>2. job' \in [Events -> JobType]
  <2>1. job[e] \in JobType
    BY DEF TypeOK
  <2>2. CASE job[e].holder = w
    <3>1. job[e].state = "active" /\ job[e].made < MaxAttempts
      BY <2>2 DEF RetriesLeft
    <3>2. [state |-> IF job[e].made + 1 >= MaxAttempts THEN "failed" ELSE "wait",
           made |-> job[e].made + 1, stalls |-> job[e].stalls, holder |-> None] \in JobType
      BY <2>1, <3>1 DEF JobType
    <3> QED
      BY <2>2, <3>2 DEF RejectJob, TypeOK
  <2>3. CASE job[e].holder # w
    BY <2>3 DEF RejectJob, TypeOK
  <2> QED
    BY <2>2, <2>3
<1>3. \A x \in Events :
         \/ job'[x] = job[x]
         \/ /\ job'[x].state \in {"wait", "active"} => job'[x].made < MaxAttempts
            /\ job'[x].holder = None
  <2>1. job[e].made \in 0 .. MaxAttempts
    BY DEF TypeOK, JobType
  <2> QED
    BY <2>1 DEF RejectJob, TypeOK
<1>4. /\ run' \in [Workers -> RunType]
      /\ \A x \in Workers \ {w} : run'[x] = run[x]
      /\ run'[w] = IdleRun
  BY DEF RejectJob, IdleRun, TypeOK, RunType, RunPcs
<1>5. HandlerProgress'
  BY <1>1, <1>4 DEF IdleRun, HandlerProgress
<1>6. RetriesLeft'
  <2>1. /\ \A x \in Events : job'[x].state \in {"wait", "active"} => job'[x].made < MaxAttempts
        /\ \A x \in Events : job'[x].holder # None => job'[x].state = "active"
    BY <1>3 DEF RetriesLeft
  <2> QED
    BY <1>1, <2>1 DEF RetriesLeft
<1> QED
  BY <1>1, <1>2, <1>4, <1>5, <1>6 DEF TypeOK, RetriesLeft, HandlerProgress, InlineProgress,
       CompletedImpliesHandled, PublishedImpliesHandled

\* A dead worker leaves its job locked and its row as it was.
LEMMA WorkerCrashDelivery ==
  ASSUME NEW w \in Workers, NEW e \in Events,
         DeliveryInvariant, WorkerCrash(w, e)
  PROVE  DeliveryInvariant'
<1> USE ConstantsAssumption DEF DeliveryInvariant
<1>1. UNCHANGED <<row, job, relay, seen, replay, handled, replays>>
  BY DEF WorkerCrash
<1>2. faults' \in 0 .. MaxFaults
  BY DEF WorkerCrash, Fault, TypeOK
<1>3. /\ run' \in [Workers -> RunType]
      /\ \A x \in Workers : run'[x] \in {run[x], IdleRun}
  BY DEF WorkerCrash, IdleRun, TypeOK, RunType, RunPcs
<1>4. HandlerProgress'
  BY <1>1, <1>3 DEF IdleRun, HandlerProgress
<1>5. receipt' = [receipt EXCEPT ![e].owner = IF @ = w THEN None ELSE @]
  BY DEF WorkerCrash
<1>6. receipt' \in [Events -> ReceiptType]
  <2>1. receipt[e] \in ReceiptType
    BY DEF TypeOK
  <2>2. [receipt[e] EXCEPT !.owner = IF @ = w THEN None ELSE @] \in ReceiptType
    BY <2>1 DEF ReceiptType
  <2> QED
    BY <1>5, <2>2 DEF TypeOK
<1>7. \A x \in Events : receipt'[x].state = receipt[x].state
  BY <1>5 DEF TypeOK, ReceiptType
<1>8. CompletedImpliesHandled'
  BY <1>1, <1>7 DEF CompletedImpliesHandled
<1> QED
  BY <1>1, <1>2, <1>3, <1>4, <1>6, <1>8 DEF TypeOK, RetriesLeft, HandlerProgress, InlineProgress,
       CompletedImpliesHandled, PublishedImpliesHandled

\* A replay frees the claim and keeps every effect.
LEMMA ReplayReleaseReceiptDelivery ==
  ASSUME NEW e \in Events,
         DeliveryInvariant, ReplayReleaseReceipt(e)
  PROVE  DeliveryInvariant'
<1> USE ConstantsAssumption DEF DeliveryInvariant
<1>1. UNCHANGED <<row, job, run, relay, seen, handled, faults>>
  BY DEF ReplayReleaseReceipt
<1>2. replays' \in 0 .. MaxReplays /\ replay' \in ReplayType
  BY DEF ReplayReleaseReceipt, TypeOK, ReplayType
<1>3. receipt' \in [Events -> ReceiptType]
  BY DEF ReplayReleaseReceipt, NoReceipt, TypeOK, ReceiptType
<1>4. CompletedImpliesHandled'
  BY <1>1 DEF ReplayReleaseReceipt, NoReceipt, TypeOK, ReceiptType, CompletedImpliesHandled
<1> QED
  BY <1>1, <1>2, <1>3, <1>4 DEF TypeOK, RetriesLeft, HandlerProgress, InlineProgress,
       CompletedImpliesHandled, PublishedImpliesHandled

\* A replay removes a job that is not running.
LEMMA ReplayRemoveJobDelivery ==
  ASSUME NEW e \in Events,
         DeliveryInvariant, ReplayRemoveJob(e)
  PROVE  DeliveryInvariant'
<1> USE ConstantsAssumption DEF DeliveryInvariant
<1>1. UNCHANGED <<row, receipt, run, relay, seen, handled, replays>>
  BY DEF ReplayRemoveJob
<1>2. faults' \in 0 .. MaxFaults
  BY DEF ReplayRemoveJob, Fault, TypeOK
<1>3. replay' \in ReplayType
  BY DEF ReplayRemoveJob, TypeOK, ReplayType
<1>4. job' \in [Events -> JobType]
  BY SMTT(60) DEF ReplayRemoveJob, NoJob, TypeOK, JobType
<1>5. \A x \in Events : job'[x] \in {job[x], NoJob}
  BY DEF ReplayRemoveJob, TypeOK
<1>6. RetriesLeft'
  BY <1>1, <1>5 DEF NoJob, RetriesLeft
<1> QED
  BY <1>1, <1>2, <1>3, <1>4, <1>6 DEF TypeOK, RetriesLeft, HandlerProgress, InlineProgress,
       CompletedImpliesHandled, PublishedImpliesHandled

\* A replayed row starts over with all its attempts.
LEMMA ReplayRequeueDelivery ==
  ASSUME NEW e \in Events,
         DeliveryInvariant, ReplayRequeue(e)
  PROVE  DeliveryInvariant'
<1> USE ConstantsAssumption DEF DeliveryInvariant
<1>1. UNCHANGED <<receipt, job, run, relay, seen, handled, faults, replays>>
  BY DEF ReplayRequeue
<1>2. replay' \in ReplayType
  BY DEF ReplayRequeue, IdleReplay, TypeOK, ReplayType
<1>3. row' \in [Events -> RowType]
  BY DEF ReplayRequeue, TypeOK, RowType, Status
<1>4. RetriesLeft'
  BY <1>1 DEF ReplayRequeue, TypeOK, RowType, RetriesLeft
<1>5. PublishedImpliesHandled'
  BY <1>1 DEF ReplayRequeue, TypeOK, RowType, PublishedImpliesHandled
<1> QED
  BY <1>1, <1>2, <1>3, <1>4, <1>5 DEF TypeOK, RetriesLeft, HandlerProgress, InlineProgress,
       CompletedImpliesHandled, PublishedImpliesHandled

\* Every step keeps the inductive invariant.
LEMMA NextDelivery == DeliveryInvariant /\ [Next]_vars => DeliveryInvariant'
<1> SUFFICES ASSUME DeliveryInvariant, [Next]_vars
             PROVE  DeliveryInvariant'
  OBVIOUS
<1>1. ASSUME NEW e \in Events,
             \/ Dispatch(e) \/ RecoverStaleLock(e) \/ RetainPublished(e)
             \/ ExpireReceipt(e) \/ DeleteExpiredReceipt(e)
             \/ StallJob(e) \/ EvictJob(e) \/ ReplayStep(e)
      PROVE  DeliveryInvariant'
  BY <1>1, DispatchDelivery, RecoverStaleLockDelivery, RetainPublishedDelivery,
     ExpireReceiptDelivery, DeleteExpiredReceiptDelivery, StallJobDelivery, EvictJobDelivery,
     ReplayReleaseReceiptDelivery, ReplayRemoveJobDelivery, ReplayRequeueDelivery
     DEF ReplayStep
<1>2. ASSUME NEW r \in Relays, RelayStep(r) \/ RelayCrash(r)
      PROVE  DeliveryInvariant'
  BY <1>2, LockPendingDelivery, EnqueueDelivery, TouchLockDelivery, ScheduleRetryDelivery,
     InlineBeginDelivery, InlineConsumeDelivery, InlinePublishDelivery, RelayCrashDelivery
     DEF RelayStep
<1>3. ASSUME NEW w \in Workers, NEW e \in Events,
             TakeJob(w, e) \/ HandlerStep(w, e) \/ WorkerCrash(w, e)
      PROVE  DeliveryInvariant'
  BY <1>3, TakeJobDelivery, ClaimDelivery, ConsumeStageDelivery, CompleteDelivery,
     PublishDelivery, ReleaseDelivery, BuryDelivery, FinishJobDelivery, RejectJobDelivery,
     WorkerCrashDelivery
     DEF HandlerStep
<1>4. CASE UNCHANGED vars
  BY <1>4 DEF vars, DeliveryInvariant, TypeOK, RetriesLeft, HandlerProgress, InlineProgress,
              CompletedImpliesHandled, PublishedImpliesHandled
<1> QED
  BY <1>1, <1>2, <1>3, <1>4 DEF Next

\* Whatever crashes, stalls, lost replies, late relays and replays happen, the
\* invariant the delivery promise rests on holds.
THEOREM DeliveryInvariantHolds == Spec => []DeliveryInvariant
<1>1. Init => DeliveryInvariant
  BY InitDelivery
<1>2. DeliveryInvariant /\ [Next]_vars => DeliveryInvariant'
  BY NextDelivery
<1> QED
  BY <1>1, <1>2, PTL DEF Spec

\* A row is marked PUBLISHED (and later deleted) only when every required
\* consumer and the listener fan-out have succeeded for its event.
THEOREM PublishedOnlyWhenHandled == Spec => []PublishedImpliesHandled
<1>1. DeliveryInvariant => PublishedImpliesHandled
  BY DEF DeliveryInvariant
<1> QED
  BY <1>1, DeliveryInvariantHolds, PTL

=============================================================================
