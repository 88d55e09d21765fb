--------------------------- MODULE Notifications ---------------------------
(***************************************************************************)
(* One user's notifications of one grouping key in apps/api: the senders   *)
(* (SendNotificationCommand, run by the event worker for a domain event),  *)
(* the batch windows they append to, the digest worker that closes a due   *)
(* window, and the delivery worker that works off the intents of the       *)
(* external channel.                                                       *)
(*                                                                         *)
(* PostgreSQL runs at READ COMMITTED: a statement sees what is committed,  *)
(* writes show at COMMIT, and a row lock, or the lock of a unique key      *)
(* being inserted, is held to the end of its transaction.  What only the   *)
(* transaction itself can see is folded into its commit.  Preferences may  *)
(* have changed whenever they are read.                                    *)
(***************************************************************************)
EXTENDS Naturals, Sequences, FiniteSets

CONSTANTS
  Sources,      \* domain events to notify of: one notification row each
  Batched,      \* those whose type and cadence go through a window
  Windows,      \* ids of notification_batches rows: one digest row each
  Senders,      \* event worker slots running SendNotificationCommand
  Digesters,    \* processes in closeDueWindows; the Redis lease excludes nobody
  Deliverers,   \* processes in deliverPending
  None,         \* no source, window or process
  MaxItems,     \* NOTIFICATION_DIGEST_MAX_ITEMS
  MaxAttempts,  \* DELIVERY_MAX_ATTEMPTS
  Unreachable,  \* notifications whose external channel never accepts
  FaultKinds,   \* which of AllFaultKinds may happen
  MaxFaults     \* how many of them (bound)

AllFaultKinds == {"database", "provider", "crash", "slow"}

ASSUME ConstantsAssumption ==
  /\ Batched \subseteq Sources
  /\ MaxItems \in Nat \ {0}
  /\ MaxAttempts \in Nat \ {0}
  /\ FaultKinds \subseteq AllFaultKinds
  /\ MaxFaults \in Nat
  /\ None \notin Sources \union Windows \union Senders \union Digesters \union Deliverers
  /\ Sources \intersect Windows = {}
  /\ Senders \intersect Digesters = {}

Notices == Sources \union Windows
Channels == {"inApp", "external"}

VARIABLES
  receipt,   \* committed operation_receipts of the notification consumer
  copies,    \* committed notification rows of a source
  window,    \* notification_batches, per window id
  digest,    \* the digest row of a window, with the items it shows
  intent,    \* notification_delivery_intents of the external channel
  recorded,  \* notifications.delivered_channels
  send,      \* what each sender is executing
  close,     \* what each digest worker is executing
  deliver,   \* what each delivery worker is executing
  shed,      \* history: items dropped by MaxItems
  faults     \* history: faults so far

vars == <<receipt, copies, window, digest, intent, recorded,
          send, close, deliver, shed, faults>>

-----------------------------------------------------------------------------
(* Types. *)

\* due: has window_ends_at passed?  lock: the transaction holding the row.
WindowType == [status : {"absent", "open", "delivered"}, items : Seq(Batched),
               due : {"no", "yes"}, lock : Senders \union Digesters \union {None}]

DigestType == [made : {"no", "yes"}, items : Seq(Batched)]

\* lease: is locked_at older than two minutes?
IntentType == [status : {"absent", "pending", "processing", "delivered", "dead", "pruned"},
               attempts : Nat, lease : {"live", "expired"}]

\* A sender is inside its transaction from "find" to "commit" (before "claim"
\* it holds nothing); write: what its transaction does to the window.
SendPcs == {"idle", "claim", "find", "append", "create", "refind", "commit", "record"}
SendType == [pc : SendPcs, source : Sources \union {None},
             window : Windows \union {None}, write : {"none", "create", "append"}]

ClosePcs == {"idle", "prepare", "record"}
CloseType == [pc : ClosePcs, window : Windows \union {None}]

\* attempts: those of the claim, the fencing token of every later write.
DeliverPcs == {"idle", "provider", "markDelivered", "markFailed"}
DeliverType == [pc : DeliverPcs, notice : Notices \union {None}, attempts : Nat]

TypeOK ==
  /\ receipt \in [Sources -> {"none", "completed"}]
  /\ copies \in [Sources -> Nat]
  /\ window \in [Windows -> WindowType]
  /\ digest \in [Windows -> DigestType]
  /\ intent \in [Notices -> IntentType]
  /\ recorded \in [Notices -> SUBSET Channels]
  /\ send \in [Senders -> SendType]
  /\ close \in [Digesters -> CloseType]
  /\ deliver \in [Deliverers -> DeliverType]
  /\ shed \subseteq Batched
  /\ faults \in 0 .. MaxFaults

IdleSend == [pc |-> "idle", source |-> None, window |-> None, write |-> "none"]
IdleClose == [pc |-> "idle", window |-> None]
IdleDeliver == [pc |-> "idle", notice |-> None, attempts |-> 0]
NoWindow == [status |-> "absent", items |-> <<>>, due |-> "no", lock |-> None]
NoDigest == [made |-> "no", items |-> <<>>]
NoIntent == [status |-> "absent", attempts |-> 0, lease |-> "live"]
NewIntent == [status |-> "pending", attempts |-> 0, lease |-> "live"]

Init ==
  /\ receipt = [s \in Sources |-> "none"]
  /\ copies = [s \in Sources |-> 0]
  /\ window = [w \in Windows |-> NoWindow]
  /\ digest = [w \in Windows |-> NoDigest]
  /\ intent = [n \in Notices |-> NoIntent]
  /\ recorded = [n \in Notices |-> {}]
  /\ send = [p \in Senders |-> IdleSend]
  /\ close = [d \in Digesters |-> IdleClose]
  /\ deliver = [v \in Deliverers |-> IdleDeliver]
  /\ shed = {}
  /\ faults = 0

tables == <<receipt, copies, window, digest, intent, recorded>>

Fault(kind) ==
  /\ kind \in FaultKinds
  /\ faults < MaxFaults
  /\ faults' = faults + 1

-----------------------------------------------------------------------------
(* The sender: SendNotificationCommand.execute for one source event.        *)

SendOn(p, pc, w, write) ==
  send' = [send EXCEPT ![p] = [pc |-> pc, source |-> @.source, window |-> w, write |-> write]]
SendAt(p, pc) == SendOn(p, pc, send[p].window, send[p].write)
EndSend(p) == send' = [send EXCEPT ![p] = IdleSend]

\* What a statement makes of the row of w; with l, the transaction holding it.
Rewritten(w, status, items, l) ==
  [window EXCEPT ![w] = [status |-> status, items |-> items, due |-> @.due, lock |-> l]]

InSendTx(p) == send[p].pc \in {"find", "append", "create", "refind", "commit"}

\* ROLLBACK, or the death of the connection, releases the row lock.
Unlocked(p) == [w \in Windows |->
  [status |-> window[w].status, items |-> window[w].items, due |-> window[w].due,
   lock |-> IF window[w].lock = p THEN None ELSE window[w].lock]]

\* At least once: the event worker may run it again, and two at a time.
StartSend(p, s) ==
  /\ send[p].pc = "idle"
  /\ send' = [send EXCEPT ![p] = [pc |-> "claim", source |-> s,
                                  window |-> None, write |-> "none"]]
  /\ UNCHANGED <<tables, close, deliver, shed, faults>>

\* Mutation: the receipt is only read before the row is written.
ClaimReceiptByReading(p) ==
  LET s == send[p].source IN
  /\ send[p].pc = "claim"
  /\ \/ EndSend(p)
     \/ receipt[s] # "completed" /\ SendAt(p, IF s \in Batched THEN "find" ELSE "commit")
  /\ UNCHANGED <<tables, close, deliver, shed, faults>>

\* persistWithReceipt: the INSERT waits for another transaction that holds the
\* key.  A completed receipt means the row exists, and persist refuses a
\* missing recipient or one who wants no channel: nothing is written then.
ClaimReceipt(p) ==
  LET s == send[p].source IN
  /\ send[p].pc = "claim"
  /\ \A q \in Senders : ~(InSendTx(q) /\ send[q].source = s)
  /\ \/ EndSend(p)
     \/ receipt[s] # "completed" /\ SendAt(p, IF s \in Batched THEN "find" ELSE "commit")
  /\ UNCHANGED <<tables, close, deliver, shed, faults>>

OpenWindows == {w \in Windows : window[w].status = "open"}

\* appendToBatch's first findOpenWindow: the committed open window, if any.
FindOpenWindow(p) ==
  /\ send[p].pc = "find"
  /\ \/ \E w \in OpenWindows : SendOn(p, "append", w, "none")
     \/ OpenWindows = {} /\ SendAt(p, "create")
  /\ UNCHANGED <<tables, close, deliver, shed, faults>>

\* Mutation: the window is not locked, and not asked for its status again.
AppendToWindowBlind(p) ==
  /\ send[p].pc = "append"
  /\ SendOn(p, "commit", send[p].window, "append")
  /\ UNCHANGED <<tables, close, deliver, shed, faults>>

\* appendToWindow: SELECT ... FOR UPDATE waits for the row.  A window that was
\* delivered meanwhile gives null, which the caller does not look at.
AppendToWindow(p) ==
  LET w == send[p].window IN
  /\ send[p].pc = "append"
  /\ window[w].lock = None
  /\ IF window[w].status = "open"
     THEN /\ SendOn(p, "commit", w, "append")
          /\ window' = Rewritten(w, "open", window[w].items, p)
     ELSE /\ SendOn(p, "commit", None, "none")
          /\ UNCHANGED window
  /\ UNCHANGED <<receipt, copies, digest, intent, recorded,
                 close, deliver, shed, faults>>

Creating(w) == \E q \in Senders : send[q].write = "create" /\ send[q].window = w

\* The INSERT under the unique index of open windows: it waits for another
\* transaction inserting the key, and fails when an open window is there.
CreateWindow(p) ==
  /\ send[p].pc = "create"
  /\ \A w \in Windows : ~Creating(w)
  /\ \/ /\ OpenWindows = {}
        /\ \E w \in Windows :
             /\ window[w].status = "absent"
             /\ SendOn(p, "commit", w, "create")
     \/ OpenWindows # {} /\ SendAt(p, "refind")
  /\ UNCHANGED <<tables, close, deliver, shed, faults>>

\* After the unique violation: the winner's window, or TRANSACTION_FAILED when
\* it has been delivered in the meantime.
RefindWindow(p) ==
  /\ send[p].pc = "refind"
  /\ \/ \E w \in OpenWindows : SendOn(p, "append", w, "none")
     \/ OpenWindows = {} /\ EndSend(p)
  /\ UNCHANGED <<tables, close, deliver, shed, faults>>

\* slice(-max): the newest items stay.
Newest(items) == SubSeq(items, (IF Len(items) > MaxItems THEN Len(items) - MaxItems ELSE 0) + 1,
                        Len(items))
Oldest(items) == {items[i] : i \in 1 .. Len(items)} \ {Newest(items)[i] : i \in 1 .. Len(Newest(items))}

\* The window as p's transaction leaves it.
Written(p) ==
  LET s == send[p].source
      w == send[p].window
  IN IF send[p].write = "create"
     THEN Rewritten(w, "open", <<s>>, None)
     ELSE IF send[p].write = "append"
     THEN Rewritten(w, window[w].status, Newest(Append(window[w].items, s)), None)
     ELSE window

\* The channels the recipient wants: persist and prepareWindow refuse none.
Wanted == SUBSET Channels \ {{}}

\* COMMIT of the receipt, the row, the window, and of an immediate row's intent.
\* Its answer may be lost.
CommitSend(p) ==
  LET s == send[p].source IN
  /\ send[p].pc = "commit"
  /\ receipt' = [receipt EXCEPT ![s] = "completed"]
  /\ copies' = [copies EXCEPT ![s] = @ + 1]
  /\ window' = Written(p)
  /\ shed' = IF send[p].write = "append"
             THEN shed \union Oldest(Append(window[send[p].window].items, s)) ELSE shed
  /\ \E wanted \in Wanted :
       /\ intent' = IF s \notin Batched /\ "external" \in wanted
                    THEN [intent EXCEPT ![s] = NewIntent] ELSE intent
       /\ \/ /\ IF s \notin Batched /\ "inApp" \in wanted THEN SendAt(p, "record") ELSE EndSend(p)
             /\ UNCHANGED faults
          \/ EndSend(p) /\ Fault("database")
  /\ UNCHANGED <<digest, recorded, close, deliver>>

\* deliver: the realtime message, then updateById with the channels it knows.
RecordSend(p) ==
  /\ send[p].pc = "record"
  /\ recorded' = [recorded EXCEPT ![send[p].source] = {"inApp"}]
  /\ EndSend(p)
  /\ UNCHANGED <<receipt, copies, window, digest, intent,
                 close, deliver, shed, faults>>

\* A statement fails, or the process dies: the transaction rolls back, what
\* had to follow its commit is not done.
AbortSend(p) ==
  /\ send[p].pc # "idle"
  /\ Fault("database") \/ Fault("crash")
  /\ EndSend(p)
  /\ window' = Unlocked(p)
  /\ UNCHANGED <<receipt, copies, digest, intent, recorded,
                 close, deliver, shed>>

-----------------------------------------------------------------------------
(* The digest worker: deliverWindow for one window. *)

EndClose(d) == close' = [close EXCEPT ![d] = IdleClose]

\* windowEndsAt passes.
WindowFallsDue(w) ==
  /\ window[w].status = "open"
  /\ window[w].due = "no"
  /\ window' = [window EXCEPT ![w].due = "yes"]
  /\ UNCHANGED <<receipt, copies, digest, intent, recorded,
                 send, close, deliver, shed, faults>>

\* lockDueWindow: FOR UPDATE SKIP LOCKED on an open window that is due.
LockDueWindow(d, w) ==
  /\ close[d].pc = "idle"
  /\ window[w].status = "open"
  /\ window[w].due = "yes"
  /\ window[w].lock = None
  /\ window' = Rewritten(w, "open", window[w].items, d)
  /\ close' = [close EXCEPT ![d] = [pc |-> "prepare", window |-> w]]
  /\ UNCHANGED <<receipt, copies, digest, intent, recorded,
                 send, deliver, shed, faults>>

\* prepareWindow and COMMIT: the digest row with the items read under the lock,
\* its intent, and the window delivered.
PrepareDigest(d) ==
  LET w == close[d].window IN
  /\ close[d].pc = "prepare"
  /\ digest[w].made = "no"
  /\ digest' = [digest EXCEPT ![w] = [made |-> "yes", items |-> window[w].items]]
  /\ window' = Rewritten(w, "delivered", window[w].items, None)
  /\ \E wanted \in Wanted :
       /\ intent' = IF "external" \in wanted THEN [intent EXCEPT ![w] = NewIntent] ELSE intent
       /\ \/ /\ IF "inApp" \in wanted THEN close' = [close EXCEPT ![d].pc = "record"] ELSE EndClose(d)
             /\ UNCHANGED faults
          \/ EndClose(d) /\ Fault("database")
  /\ UNCHANGED <<receipt, copies, recorded, send, deliver, shed>>

\* closeWithoutDelivery: a digest exists already, or every channel is off.
CloseWithoutDelivery(d) ==
  LET w == close[d].window IN
  /\ close[d].pc = "prepare"
  /\ window' = Rewritten(w, "delivered", window[w].items, None)
  /\ EndClose(d)
  /\ UNCHANGED <<receipt, copies, digest, intent, recorded,
                 send, deliver, shed, faults>>

\* The realtime message, then updateById with the channels it knows.
RecordDigest(d) ==
  /\ close[d].pc = "record"
  /\ recorded' = [recorded EXCEPT ![close[d].window] = {"inApp"}]
  /\ EndClose(d)
  /\ UNCHANGED <<receipt, copies, window, digest, intent,
                 send, deliver, shed, faults>>

AbortClose(d) ==
  /\ close[d].pc # "idle"
  /\ Fault("database") \/ Fault("crash")
  /\ EndClose(d)
  /\ window' = Unlocked(d)
  /\ UNCHANGED <<receipt, copies, digest, intent, recorded,
                 send, deliver, shed>>

-----------------------------------------------------------------------------
(* The delivery worker: one intent of the external channel at a time. *)

DeliverAt(v, pc) == deliver' = [deliver EXCEPT ![v].pc = pc]
EndDeliver(v) == deliver' = [deliver EXCEPT ![v] = IdleDeliver]

\* Mutation: attempts counts failures, not claims.
ClaimIntentUncounted(v, n) ==
  /\ deliver[v].pc = "idle"
  /\ \/ intent[n].status = "pending"
     \/ intent[n].status = "processing" /\ intent[n].lease = "expired"
  /\ intent' = [intent EXCEPT ![n].status = "processing", ![n].lease = "live"]
  /\ deliver' = [deliver EXCEPT ![v] = [pc |-> "provider", notice |-> n,
                                        attempts |-> intent[n].attempts]]
  /\ UNCHANGED <<receipt, copies, window, digest, recorded,
                 send, close, shed, faults>>

\* Mutation: an abandoned claim is not taken over.
ClaimPendingOnly(v, n) ==
  /\ deliver[v].pc = "idle"
  /\ intent[n].status = "pending"
  /\ intent' = [intent EXCEPT ![n] = [status |-> "processing", lease |-> "live",
                                      attempts |-> @.attempts + 1]]
  /\ deliver' = [deliver EXCEPT ![v] = [pc |-> "provider", notice |-> n,
                                        attempts |-> intent[n].attempts + 1]]
  /\ UNCHANGED <<receipt, copies, window, digest, recorded,
                 send, close, shed, faults>>

\* claimBatch(1): FOR UPDATE SKIP LOCKED, and attempts counts the claim.
ClaimIntent(v, n) ==
  /\ deliver[v].pc = "idle"
  /\ \/ intent[n].status = "pending"
     \/ intent[n].status = "processing" /\ intent[n].lease = "expired"
  /\ intent' = [intent EXCEPT ![n] = [status |-> "processing", lease |-> "live",
                                      attempts |-> @.attempts + 1]]
  /\ deliver' = [deliver EXCEPT ![v] = [pc |-> "provider", notice |-> n,
                                        attempts |-> intent[n].attempts + 1]]
  /\ UNCHANGED <<receipt, copies, window, digest, recorded,
                 send, close, shed, faults>>

\* deliverEmail or deliverPush: sent, or not, or sent with the answer lost.
CallProvider(v) ==
  /\ deliver[v].pc = "provider"
  /\ \/ /\ deliver[v].notice \notin Unreachable
        /\ DeliverAt(v, "markDelivered")
        /\ UNCHANGED faults
     \/ /\ DeliverAt(v, "markFailed")
        /\ IF deliver[v].notice \in Unreachable THEN UNCHANGED faults ELSE Fault("provider")
  /\ UNCHANGED <<tables, send, close, shed>>

\* The claim of v is still the row's: the WHERE of markDelivered and markFailed.
HoldsClaim(v) ==
  LET n == deliver[v].notice IN
  intent[n].status = "processing" /\ intent[n].attempts = deliver[v].attempts

\* markDelivered, and the append to delivered_channels in its transaction.
MarkDelivered(v) ==
  LET n == deliver[v].notice IN
  /\ deliver[v].pc = "markDelivered"
  /\ IF HoldsClaim(v)
     THEN /\ intent' = [intent EXCEPT ![n] = [status |-> "delivered", lease |-> "live",
                                               attempts |-> @.attempts]]
          /\ recorded' = [recorded EXCEPT ![n] = @ \union {"external"}]
     ELSE UNCHANGED <<intent, recorded>>
  /\ \/ EndDeliver(v) /\ UNCHANGED faults
     \/ DeliverAt(v, "markFailed") /\ Fault("database")
  /\ UNCHANGED <<receipt, copies, window, digest, send, close, shed>>

Failed(n, v) ==
  [status |-> IF deliver[v].attempts >= MaxAttempts THEN "dead" ELSE "pending",
   lease |-> "live", attempts |-> intent[n].attempts]

\* Mutation: no fencing token in the WHERE.
MarkFailedUnfenced(v) ==
  LET n == deliver[v].notice IN
  /\ deliver[v].pc = "markFailed"
  /\ intent' = [intent EXCEPT ![n] = Failed(n, v)]
  /\ EndDeliver(v)
  /\ UNCHANGED <<receipt, copies, window, digest, recorded,
                 send, close, shed, faults>>

\* recordFailure.
MarkFailed(v) ==
  LET n == deliver[v].notice IN
  /\ deliver[v].pc = "markFailed"
  /\ intent' = IF HoldsClaim(v) THEN [intent EXCEPT ![n] = Failed(n, v)] ELSE intent
  /\ EndDeliver(v)
  /\ UNCHANGED <<receipt, copies, window, digest, recorded,
                 send, close, shed, faults>>

\* A statement before the provider call fails: recordFailure is next.
\* recordFailure itself fails, or the process dies: the intent stays claimed.
AbortDeliver(v) ==
  /\ \/ deliver[v].pc \in {"provider", "markDelivered"}
        /\ DeliverAt(v, "markFailed") /\ Fault("database")
     \/ deliver[v].pc = "markFailed" /\ EndDeliver(v) /\ Fault("database")
     \/ deliver[v].pc # "idle" /\ EndDeliver(v) /\ Fault("crash")
  /\ UNCHANGED <<tables, send, close, shed>>

\* Two minutes pass: of nobody's claim, or of a delivery that is slow.
LeaseExpires(n) ==
  /\ intent[n].status = "processing"
  /\ intent[n].lease = "live"
  /\ intent' = [intent EXCEPT ![n].lease = "expired"]
  /\ IF \E v \in Deliverers : deliver[v].notice = n /\ HoldsClaim(v)
     THEN Fault("slow") ELSE UNCHANGED faults
  /\ UNCHANGED <<receipt, copies, window, digest, recorded,
                 send, close, deliver, shed>>

\* NotificationRetentionWorker.
PruneIntent(n) ==
  /\ intent[n].status \in {"delivered", "dead"}
  /\ intent' = [intent EXCEPT ![n].status = "pruned"]
  /\ UNCHANGED <<receipt, copies, window, digest, recorded,
                 send, close, deliver, shed, faults>>

-----------------------------------------------------------------------------
SenderStep(p) ==
  \/ ClaimReceipt(p)
  \/ FindOpenWindow(p)
  \/ AppendToWindow(p)
  \/ CreateWindow(p)
  \/ RefindWindow(p)
  \/ CommitSend(p)
  \/ RecordSend(p)

DigestStep(d) ==
  \/ \E w \in Windows : LockDueWindow(d, w)
  \/ PrepareDigest(d)
  \/ CloseWithoutDelivery(d)
  \/ RecordDigest(d)

DeliveryStep(v) ==
  \/ \E n \in Notices : ClaimIntent(v, n)
  \/ CallProvider(v)
  \/ MarkDelivered(v)
  \/ MarkFailed(v)

Next ==
  \/ \E p \in Senders :
       \/ \E s \in Sources : StartSend(p, s)
       \/ SenderStep(p)
       \/ AbortSend(p)
  \/ \E w \in Windows : WindowFallsDue(w)
  \/ \E d \in Digesters : DigestStep(d) \/ AbortClose(d)
  \/ \E v \in Deliverers : DeliveryStep(v) \/ AbortDeliver(v)
  \/ \E n \in Notices : LeaseExpires(n) \/ PruneIntent(n)

Spec == Init /\ [][Next]_vars

\* The transactions and the crons go on; nobody is bound to dispatch an event
\* or to run retention.
Fairness ==
  /\ \A p \in Senders : WF_vars(SenderStep(p))
  /\ \A w \in Windows : WF_vars(WindowFallsDue(w))
  /\ \A d \in Digesters : WF_vars(DigestStep(d))
  /\ \A v \in Deliverers : WF_vars(DeliveryStep(v))
  /\ \A n \in Notices : WF_vars(LeaseExpires(n))

FairSpec == Spec /\ Fairness

-----------------------------------------------------------------------------
(* Properties. *)

\* However often and however concurrently an event is delivered, whatever
\* fails, the user gets one notification row of it: the receipt claimed in the
\* row's own transaction (persistWithReceipt).
OneRowPerSource == \A s \in Sources : copies[s] <= 1

\* A digest shows what its window holds: nothing is appended to a window once
\* the digest worker has read it, although senders and the worker choose their
\* window without a lock (findOpenWindow, findDueWindows).
DigestShowsItsWindow ==
  \A w \in Windows : digest[w].made = "yes" =>
    window[w].status = "delivered" /\ digest[w].items = window[w].items

\* An event is in one window, and there once, so that one digest shows it and shows it once:
\* a sender that is run again, or twice at a time, that falls back from creating a window to
\* finding one, or that is rolled back, appends what no other run has appended.
EachItemOnce ==
  \A v, w \in Windows : \A i \in DOMAIN window[v].items, j \in DOMAIN window[w].items :
    window[v].items[i] = window[w].items[j] => v = w /\ i = j

\* Of the workers busy with an intent, at most one can still settle it: every
\* claim has its own attempts, the fencing token of markDelivered and markFailed.
OneClaimHolder ==
  \A u, v \in Deliverers :
    /\ deliver[u].pc # "idle" /\ HoldsClaim(u)
    /\ deliver[v].pc # "idle" /\ HoldsClaim(v)
    /\ deliver[u].notice = deliver[v].notice
    => u = v

\* No late worker reopens a settled intent: the fencing by attempts of
\* markDelivered and markFailed.
Settled(n) == intent[n].status \in {"delivered", "dead"}
SettledStaysSettled ==
  [][\A n \in Notices : Settled(n) =>
       intent'[n].status \in {intent[n].status, "pruned"}]_vars

\* Every intent is settled in the end, and every due window closed.
EverythingSettles ==
  /\ \A n \in Notices : intent[n].status = "pending" ~>
                          intent[n].status \in {"delivered", "dead", "pruned"}
  /\ \A w \in Windows : window[w].status = "open" ~> window[w].status = "delivered"

\* "Digest-covered: the digest worker pings every channel later"
\* (send-notification.command.ts:168): the item of a committed batched row is
\* in a window, unless newer ones pushed it out.
BatchedItemIsInAWindow ==
  \A s \in Batched : copies[s] > 0 =>
    s \in shed \/ \E w \in Windows : \E i \in 1 .. Len(window[w].items) : window[w].items[i] = s
=============================================================================
