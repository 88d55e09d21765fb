-------------------------- MODULE OutboxLeaseProofs --------------------------
(***************************************************************************)
(* Outbox, proved: consumers run only under the live receipt of their      *)
(* event, if no lease lapses under a running handler                       *)
(* (LeaseOutlivesHandler) and no dead letter is replayed, by               *)
(* LeaseInvariant, inductive relative to DeliveryInvariant; and a claim is *)
(* left behind by a fault of its own only, step by step.                   *)
(***************************************************************************)
EXTENDS OutboxProofs

\* A step that touches no receipt, and lets no handler start consuming.
LEMMA LeaseFrame ==
  ASSUME LeaseInvariant, UNCHANGED receipt,
         \A x \in Workers :
           run'[x].pc \in {"consume", "complete"}
             => /\ run[x].pc \in {"consume", "complete"}
                /\ run'[x].event = run[x].event
  PROVE  LeaseInvariant'
BY DEF LeaseInvariant, ConsumesUnderReceipt, OwnedLeaseIsLive, Owns

\* The handler's steps after its claim keep the receipt as it is.
LEMMA LeaseRun ==
  ASSUME NEW w \in Workers, NEW e \in Events,
         DeliveryInvariant, LeaseInvariant,
         \/ TakeJob(w, e) \/ ConsumeStage(w, e) \/ Publish(w, e) \/ Bury(w, e)
         \/ FinishJob(w, e) \/ RejectJob(w, e)
  PROVE  LeaseInvariant'
<1>1. UNCHANGED receipt
  BY DEF TakeJob, ConsumeStage, Publish, Bury, FinishJob, RejectJob
<1>2. run \in [Workers -> RunType]
  BY DEF DeliveryInvariant, TypeOK
<1>3. CASE TakeJob(w, e) \/ FinishJob(w, e) \/ RejectJob(w, e)
  BY <1>1, <1>2, <1>3, LeaseFrame DEF TakeJob, FinishJob, RejectJob, IdleRun
<1>4. CASE Publish(w, e) \/ Bury(w, e)
  <2>1. PICK pc \in {"finish", "bury", "reject"} : RunAt(w, pc)
    BY <1>4 DEF Publish, Bury
  <2> QED
    BY <1>1, <1>2, <2>1, RunAtEffect, LeaseFrame DEF RunPcs
<1>5. CASE ConsumeStage(w, e)
  <2>1. /\ run[w].pc = "consume" /\ run[w].event = e
        /\ \A x \in Workers \ {w} : run'[x] = run[x]
        /\ run'[w].event = e
    BY <1>2, <1>5 DEF ConsumeStage, Runs, RunAt, RunType
  <2> QED
    BY <1>1, <2>1, LeaseFrame
<1> QED
  BY <1>3, <1>4, <1>5

\* The steps that write a receipt: it is taken, completed, released, or its
\* lease ends only when no handler runs under it.
LEMMA LeaseReceipt ==
  ASSUME NEW w \in Workers, NEW e \in Events, LeaseInvariant,
         DeliveryInvariant, DeliveryInvariant',
         \/ Claim(w, e) \/ Complete(w, e) \/ Release(w, e) \/ WorkerCrash(w, e)
  PROVE  LeaseInvariant'
<1> USE DEF DeliveryInvariant
<1>1. /\ run \in [Workers -> RunType] /\ receipt \in [Events -> ReceiptType]
      /\ run[w].event = e
  BY DEF TypeOK, Claim, Complete, Release, WorkerCrash, Runs
<1>2. \A x \in Workers : run[x].pc # "idle" => run[x].event \in Events
  BY DEF HandlerProgress
<1>3. \A x \in Workers \ {w} : run'[x] = run[x]
  BY <1>1 DEF Claim, Complete, Release, WorkerCrash, RunAt
<1>4. \A y \in Events \ {e} : receipt'[y] = receipt[y]
  BY <1>1 DEF Claim, Complete, Release, WorkerCrash, TakeReceipt, CompleteReceipt
\* The receipt of e, when it belongs to another handler, stays that handler's.
<1>5. ASSUME receipt[e].owner \notin {None, w}, receipt[e].state = "PROCESSING"
      PROVE  receipt'[e] = receipt[e]
  <2>1. ~Claimable(e) /\ ~Owns(w, e)
    BY <1>5 DEF LeaseInvariant, OwnedLeaseIsLive, Claimable, Owns
  <2>2. CASE Claim(w, e) \/ Complete(w, e)
    BY <2>1, <2>2 DEF Claim, Complete, TakeReceipt, CompleteReceipt
  <2>3. CASE Release(w, e)
    BY <1>1, <2>1, <2>3 DEF Release, ReceiptType
  <2>4. CASE WorkerCrash(w, e)
    BY <1>1, <1>5, <2>4 DEF WorkerCrash, ReceiptType
  <2> QED
    BY <2>2, <2>3, <2>4
<1>6. ASSUME run'[w].pc \in {"consume", "complete"}
      PROVE  receipt'[e].state = "PROCESSING" /\ receipt'[e].owner = w /\ run'[w].event = e
  <2>1. Claim(w, e) /\ TakeReceipt(e, w) /\ RunAt(w, "consume")
    BY <1>1, <1>6 DEF Claim, Complete, Release, WorkerCrash, RunAt, IdleRun, RunType
  <2> QED
    BY <1>1, <2>1 DEF TakeReceipt, RunAt, RunType, ReceiptType
<1>7. ConsumesUnderReceipt'
  <2> SUFFICES ASSUME NEW x \in Workers, run'[x].pc \in {"consume", "complete"}
               PROVE  /\ receipt'[run'[x].event].state = "PROCESSING"
                      /\ receipt'[run'[x].event].owner = x
    BY DEF ConsumesUnderReceipt, Owns
  <2>1. CASE x = w
    BY <1>6, <2>1
  <2>2. CASE x # w
    <3>1. run'[x] = run[x] /\ run[x].event \in Events /\ Owns(x, run[x].event)
      BY <1>2, <1>3, <2>2 DEF LeaseInvariant, ConsumesUnderReceipt
    <3> QED
      BY <1>4, <1>5, <2>2, <3>1, ConstantsAssumption DEF Owns
  <2> QED
    BY <2>1, <2>2
<1>8. receipt'[e].owner # None
        => receipt'[e].state = "PROCESSING" /\ receipt'[e].lease = "live"
  <2>1. CASE Claim(w, e) \/ Complete(w, e)
    BY <1>1, <2>1 DEF Claim, Complete, TakeReceipt, CompleteReceipt, ReceiptType,
                      LeaseInvariant, OwnedLeaseIsLive
  <2>2. CASE Release(w, e)
    BY <1>1, <2>2 DEF Release, NoReceipt, ReceiptType, LeaseInvariant, OwnedLeaseIsLive
  <2>3. CASE WorkerCrash(w, e)
    BY <1>1, <2>3 DEF WorkerCrash, ReceiptType, LeaseInvariant, OwnedLeaseIsLive
  <2> QED
    BY <2>1, <2>2, <2>3
<1> QED
  BY <1>4, <1>7, <1>8 DEF LeaseInvariant, OwnedLeaseIsLive

\* Every step keeps consumers under their receipt.
LEMMA LeaseNext ==
  ASSUME LeaseOutlivesHandler, MaxReplays = 0,
         DeliveryInvariant, DeliveryInvariant', LeaseInvariant, [Next]_vars
  PROVE  LeaseInvariant'
<1>1. CASE UNCHANGED vars
  BY <1>1, LeaseFrame DEF vars
<1>2. ASSUME NEW e \in Events,
             \/ Dispatch(e) \/ RecoverStaleLock(e) \/ RetainPublished(e)
             \/ StallJob(e) \/ EvictJob(e) \/ ReplayRemoveJob(e) \/ ReplayRequeue(e)
      PROVE  LeaseInvariant'
  BY <1>2, LeaseFrame
     DEF Dispatch, RecoverStaleLock, RetainPublished, StallJob, EvictJob, ReplayRemoveJob,
         ReplayRequeue
<1>3. ASSUME NEW e \in Events, ReplayReleaseReceipt(e)
      PROVE  FALSE
  BY <1>3 DEF ReplayReleaseReceipt, DeliveryInvariant, TypeOK
<1>4. ASSUME NEW e \in Events, ExpireReceipt(e)
      PROVE  LeaseInvariant'
  <2>1. /\ receipt \in [Events -> ReceiptType] /\ UNCHANGED run
        /\ receipt[e].owner = None \/ receipt[e].state # "PROCESSING"
    BY <1>4 DEF ExpireReceipt, DeliveryInvariant, TypeOK
  <2>2. \A y \in Events : /\ receipt'[y].state = receipt[y].state
                          /\ receipt'[y].owner = receipt[y].owner
                          /\ y # e => receipt'[y] = receipt[y]
    BY <1>4, <2>1 DEF ExpireReceipt, ReceiptType
  <2>3. \A x \in Workers : run[x].pc # "idle" => run[x].event \in Events
    BY DEF DeliveryInvariant, HandlerProgress
  <2>4. receipt[e].owner = None
    BY <2>1 DEF LeaseInvariant, OwnedLeaseIsLive
  <2> QED
    BY <2>1, <2>2, <2>3, <2>4 DEF LeaseInvariant, ConsumesUnderReceipt, OwnedLeaseIsLive, Owns
<1>5. ASSUME NEW e \in Events, DeleteExpiredReceipt(e)
      PROVE  LeaseInvariant'
  <2>1. /\ receipt \in [Events -> ReceiptType] /\ UNCHANGED run
        /\ receipt[e].owner = None
    BY <1>5 DEF DeleteExpiredReceipt, DeliveryInvariant, TypeOK, LeaseInvariant,
                OwnedLeaseIsLive
  <2>2. /\ \A y \in Events \ {e} : receipt'[y] = receipt[y]
        /\ receipt'[e].owner = None
    BY <1>5, <2>1 DEF DeleteExpiredReceipt, NoReceipt
  <2>3. \A x \in Workers : run[x].pc # "idle" => run[x].event \in Events
    BY DEF DeliveryInvariant, HandlerProgress
  <2> QED
    BY <2>1, <2>2, <2>3, ConstantsAssumption
       DEF LeaseInvariant, ConsumesUnderReceipt, OwnedLeaseIsLive, Owns
<1>6. ASSUME NEW r \in Relays, RelayStep(r) \/ RelayCrash(r)
      PROVE  LeaseInvariant'
  <2>1. UNCHANGED <<receipt, run>>
    BY <1>6 DEF RelayStep, RelayCrash, LockPending, Enqueue, TouchLock, ScheduleRetry,
                InlineBegin, InlineConsume, InlinePublish
  <2> QED
    BY <2>1, LeaseFrame
<1>7. ASSUME NEW w \in Workers, NEW e \in Events,
             TakeJob(w, e) \/ HandlerStep(w, e) \/ WorkerCrash(w, e)
      PROVE  LeaseInvariant'
  BY <1>7, LeaseRun, LeaseReceipt DEF HandlerStep
<1> QED
  BY <1>1, <1>2, <1>3, <1>4, <1>5, <1>6, <1>7 DEF Next, ReplayStep

\* When no handler outlives its receipt lease and no operator replays, a handler
\* that runs consumers owns its event's live receipt, for any number of
\* workers, stalls and crashes: no two of them run one event's consumers.
THEOREM ConsumesUnderReceiptHolds ==
  ASSUME LeaseOutlivesHandler, MaxReplays = 0
  PROVE  Spec => []ConsumesUnderReceipt
<1>1. Init => LeaseInvariant
  BY DEF Init, IdleRun, NoReceipt, LeaseInvariant, ConsumesUnderReceipt, OwnedLeaseIsLive
<1>2. DeliveryInvariant /\ DeliveryInvariant' /\ LeaseInvariant /\ [Next]_vars
        => LeaseInvariant'
  BY LeaseNext
<1>3. LeaseInvariant => ConsumesUnderReceipt
  BY DEF LeaseInvariant
<1> QED
  BY <1>1, <1>2, <1>3, DeliveryInvariantHolds, PTL DEF Spec

-----------------------------------------------------------------------------
(* What leaves a claim behind *)

\* A step in which a claim keeps a handler at work, or a fault ends that handler or its claim.
LeavesByFault(e) ==
  e \notin LeftClaims /\ e \in LeftClaims' =>
    /\ faults' = faults + 1
    /\ \E w \in Workers : Runs(w, e) /\ (run[w].pc \in {"claim", "release"} \/ run'[w].pc = "idle")

\* A step that keeps state and owner of a receipt, or drops it, and keeps its handler at work.
LEMMA LeaveFrame ==
  ASSUME NEW e \in Events,
         \/ receipt'[e].state # "PROCESSING"
         \/ /\ receipt'[e].state = receipt[e].state /\ receipt'[e].owner = receipt[e].owner
            /\ \A x \in Workers : AtWork(x, e) =>
                 /\ run'[x].event = run[x].event
                 /\ run'[x].pc \in {"consume", "complete", "release"}
  PROVE  LeavesByFault(e)
BY DEF LeavesByFault, LeftClaims, AtWork, Owns, Runs

\* The steps of one handler.
LEMMA LeaveRun ==
  ASSUME NEW w \in Workers, NEW e \in Events, NEW y \in Events, DeliveryInvariant,
         TakeJob(w, e) \/ HandlerStep(w, e) \/ WorkerCrash(w, e)
  PROVE  LeavesByFault(y)
<1>1. run \in [Workers -> RunType] /\ receipt \in [Events -> ReceiptType] /\ faults \in Nat
  BY DEF DeliveryInvariant, TypeOK
<1>2. \A x \in Workers \ {w} : run'[x] = run[x]
  BY <1>1 DEF HandlerStep, TakeJob, Claim, ConsumeStage, Complete, Publish, Release, Bury,
              FinishJob, RejectJob, WorkerCrash, RunAt
<1>3. CASE y # e
  <2>1. receipt'[y] = receipt[y]
    BY <1>1, <1>3 DEF HandlerStep, TakeJob, Claim, ConsumeStage, Complete, Publish, Release, Bury,
       FinishJob, RejectJob, WorkerCrash, TakeReceipt, CompleteReceipt
  <2>2. ~AtWork(w, y)
    BY <1>3 DEF AtWork, HandlerStep, TakeJob, Claim, ConsumeStage, Complete, Publish, Release,
                Bury, FinishJob, RejectJob, WorkerCrash, Runs
  <2> QED BY <1>2, <2>1, <2>2, LeaveFrame DEF AtWork
<1>4. CASE y = e /\ \/ TakeJob(w, e) \/ Publish(w, e) \/ Bury(w, e)
                    \/ FinishJob(w, e) \/ RejectJob(w, e)
  <2>1. UNCHANGED receipt /\ ~AtWork(w, e)
    BY <1>4 DEF TakeJob, Publish, Bury, FinishJob, RejectJob, AtWork
  <2> QED BY <1>2, <1>4, <2>1, LeaveFrame DEF AtWork
<1>5. CASE y = e /\ ConsumeStage(w, e)
  <2>1. /\ UNCHANGED receipt /\ run'[w].event = run[w].event
        /\ run'[w].pc \in {"consume", "complete", "release"}
    BY <1>1, <1>5 DEF ConsumeStage, Runs, RunAt, RunType
  <2> QED BY <1>2, <1>5, <2>1, LeaveFrame DEF AtWork
<1>6. CASE y = e /\ Claim(w, e)
  <2>1. run[w].pc = "claim" /\ Runs(w, e) /\ ~AtWork(w, e)
    BY <1>6 DEF Claim, AtWork
  <2>2. CASE TakeReceipt(e, w) /\ RunAt(w, "consume")
    <3>1. /\ receipt'[e].state = "PROCESSING" /\ receipt'[e].owner = w
          /\ run'[w].event = e /\ run'[w].pc = "consume"
      BY <1>1, <2>1, <2>2 DEF TakeReceipt, RunAt, RunType, Runs
    <3> QED BY <1>6, <3>1 DEF LeavesByFault, LeftClaims, AtWork, Owns, Runs
  <2>3. CASE UNCHANGED receipt
    BY <1>2, <1>6, <2>1, <2>3, LeaveFrame DEF AtWork
  <2>4. CASE Fault("database")
    BY <1>6, <2>1, <2>4 DEF Fault, LeavesByFault
  <2> QED BY <1>6, <2>2, <2>3, <2>4 DEF Claim
<1>7. CASE y = e /\ Complete(w, e)
  <2>1. CASE CompleteReceipt(w, e)
    BY <1>1, <1>7, <2>1, LeaveFrame DEF CompleteReceipt
  <2>2. CASE UNCHANGED receipt /\ RunAt(w, "release")
    <3>1. run'[w].event = run[w].event /\ run'[w].pc = "release"
      BY <1>1, <2>2 DEF RunAt, RunType
    <3> QED BY <1>2, <1>7, <2>2, <3>1, LeaveFrame DEF AtWork
  <2> QED BY <1>7, <2>1, <2>2 DEF Complete
<1>8. CASE y = e /\ Release(w, e)
  <2>1. run[w].pc = "release" /\ Runs(w, e)
    BY <1>8 DEF Release
  <2>2. CASE receipt' = [receipt EXCEPT ![e] = IF Owns(w, e) THEN NoReceipt ELSE @]
    <3>1. CASE Owns(w, e)
      BY <1>1, <1>8, <2>2, <3>1, LeaveFrame DEF NoReceipt
    <3>2. CASE ~Owns(w, e)
      <4>1. receipt'[e] = receipt[e] /\ ~AtWork(w, e)
        BY <1>1, <2>2, <3>2 DEF AtWork
      <4> QED BY <1>2, <1>8, <4>1, LeaveFrame DEF AtWork
    <3> QED BY <3>1, <3>2
  <2>3. CASE Fault("database")
    BY <1>8, <2>1, <2>3 DEF Fault, LeavesByFault
  <2> QED BY <1>8, <2>2, <2>3 DEF Release
<1>9. CASE y = e /\ WorkerCrash(w, e)
  <2>1. Runs(w, e) /\ run'[w].pc = "idle" /\ faults' = faults + 1
    BY <1>1, <1>9 DEF WorkerCrash, Fault, IdleRun
  <2> QED BY <1>9, <2>1 DEF LeavesByFault
<1> QED
  BY <1>3, <1>4, <1>5, <1>6, <1>7, <1>8, <1>9 DEF HandlerStep

\* Every step.
LEMMA LeaveNext ==
  ASSUME DeliveryInvariant, [Next]_vars, NEW y \in Events
  PROVE  LeavesByFault(y)
<1>1. CASE UNCHANGED <<receipt, run>>
  BY <1>1, LeaveFrame DEF AtWork
<1>2. ASSUME NEW e \in Events,
             \/ Dispatch(e) \/ RecoverStaleLock(e) \/ RetainPublished(e)
             \/ StallJob(e) \/ EvictJob(e) \/ ReplayRemoveJob(e) \/ ReplayRequeue(e)
      PROVE  LeavesByFault(y)
  BY <1>1, <1>2 DEF Dispatch, RecoverStaleLock, RetainPublished, StallJob, EvictJob,
                    ReplayRemoveJob, ReplayRequeue
<1>3. ASSUME NEW e \in Events,
             ExpireReceipt(e) \/ DeleteExpiredReceipt(e) \/ ReplayReleaseReceipt(e)
      PROVE  LeavesByFault(y)
  <2>1. receipt \in [Events -> ReceiptType] /\ UNCHANGED run
    BY <1>3 DEF ExpireReceipt, DeleteExpiredReceipt, ReplayReleaseReceipt, DeliveryInvariant, TypeOK
  <2>2. \/ receipt'[y].state # "PROCESSING"
        \/ receipt'[y].owner = receipt[y].owner /\ receipt'[y].state = receipt[y].state
    BY <1>3, <2>1 DEF ExpireReceipt, DeleteExpiredReceipt, ReplayReleaseReceipt, NoReceipt, ReceiptType
  <2> QED BY <2>1, <2>2, LeaveFrame DEF AtWork
<1>4. ASSUME NEW r \in Relays, RelayStep(r) \/ RelayCrash(r)
      PROVE  LeavesByFault(y)
  BY <1>1, <1>4 DEF RelayStep, RelayCrash, LockPending, Enqueue, TouchLock, ScheduleRetry,
                    InlineBegin, InlineConsume, InlinePublish
<1>5. ASSUME NEW w \in Workers, NEW e \in Events,
             TakeJob(w, e) \/ HandlerStep(w, e) \/ WorkerCrash(w, e)
      PROVE  LeavesByFault(y)
  BY <1>5, LeaveRun
<1> QED
  BY <1>1, <1>2, <1>3, <1>4, <1>5 DEF Next, ReplayStep, vars

\* Whatever stages fail, leases end and operators replay: a claim is left without a handler that
\* will complete or release it only by a lost answer to its own commit, by a failed release, or
\* by the death of its process.
THEOREM OnlyFaultsLeaveClaimsHolds == Spec => OnlyFaultsLeaveClaims
<1>1. DeliveryInvariant /\ [Next]_vars => [\A e \in Events : LeavesByFault(e)]_vars
  BY LeaveNext
<1>2. [\A e \in Events : LeavesByFault(e)]_vars
        => [\A e \in Events : e \notin LeftClaims /\ e \in LeftClaims' =>
              /\ faults' = faults + 1
              /\ \E w \in Workers :
                   Runs(w, e) /\ (run[w].pc \in {"claim", "release"} \/ run'[w].pc = "idle")]_vars
  BY DEF LeavesByFault
<1> QED
  BY <1>1, <1>2, DeliveryInvariantHolds, PTL DEF Spec, OnlyFaultsLeaveClaims

=============================================================================
