---------------------------- MODULE OutboxPromise ----------------------------
(***************************************************************************)
(* What the outbox promises its producers, without relay, queue, receipts  *)
(* or crashes: an event once accepted is never lost.  It is owed until all *)
(* its stages have taken effect at least once, it may be parked for an     *)
(* operator, and it is forgotten only after it was published.              *)
(***************************************************************************)
EXTENDS Naturals

CONSTANTS Events, Stages

VARIABLES
  standing,  \* where the event stands
  effects    \* the stages that have taken effect

promiseVars == <<standing, effects>>

Standings == {"none", "owed", "published", "parked", "forgotten"}

PromiseInit ==
  /\ standing = [e \in Events |-> "none"]
  /\ effects = [e \in Events |-> {}]

Moves(e, from, to) ==
  /\ standing[e] \in from
  /\ standing' = [standing EXCEPT ![e] = to]
  /\ UNCHANGED effects

Accept(e) == Moves(e, {"none"}, "owed")

\* At least once: a stage may take effect again, even late.
TakeEffect(e, stage) ==
  /\ standing[e] # "none"
  /\ effects' = [effects EXCEPT ![e] = @ \union {stage}]
  /\ UNCHANGED standing

Announce(e) ==
  /\ effects[e] = 1 .. Stages
  /\ Moves(e, {"owed", "parked"}, "published")

Park(e) == Moves(e, {"owed", "published"}, "parked")

\* A replay, or a relay that retries what the worker has settled meanwhile.
Reopen(e) == Moves(e, {"parked", "published"}, "owed")

Forget(e) == Moves(e, {"published"}, "forgotten")

PromiseNext ==
  \E e \in Events :
    \/ Accept(e) \/ Announce(e) \/ Park(e) \/ Reopen(e) \/ Forget(e)
    \/ \E stage \in 1 .. Stages : TakeEffect(e, stage)

PromiseSpec == PromiseInit /\ [][PromiseNext]_promiseVars

=============================================================================
