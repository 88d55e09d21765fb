------------------------- MODULE NotificationsProofs -------------------------
(***************************************************************************)
(* Notifications, proved for any number of sources, windows, senders,      *)
(* digest workers, delivery workers and faults.  The argument is layered:  *)
(* types and shapes first (Shapes), then the receipt that makes a source's *)
(* row unique (Receipts), the row locks that keep a window still while its *)
(* digest is made (Locks), and the fencing of delivery claims (Claims).    *)
(* Each layer uses the ones before it.  What stands in the windows         *)
(* (Placed, EachItemOnce) comes last and rests on them all.                *)
(***************************************************************************)
EXTENDS Notifications, SequenceTheorems, TLAPS

\* Inside the transaction, before anything is written.
TxPcs == {"find", "append", "create", "refind"}

\* The fields of a sender that its pc makes meaningful.
SenderShape(r) ==
  /\ r \in SendType
  /\ r.pc # "idle" => r.source \in Sources
  /\ r.pc \in TxPcs \/ r.write # "none" => r.source \in Batched
  /\ r.write # "none" => r.pc = "commit"
  /\ r.pc = "append" \/ r.write # "none" => r.window \in Windows

\* Types, and what the process counters say of the fields beside them.
Shapes ==
  /\ TypeOK
  /\ \A p \in Senders : SenderShape(send[p])
  /\ \A d \in Digesters : close[d].pc # "idle" => close[d].window \in Windows
  /\ \A v \in Deliverers : deliver[v].pc # "idle" => deliver[v].notice \in Notices

\* A source with no receipt has no row, and at most one transaction at it.
Receipts ==
  /\ \A p \in Senders : InSendTx(p) => receipt[send[p].source] = "none"
  /\ \A p, q \in Senders :
       InSendTx(p) /\ InSendTx(q) /\ send[p].source = send[q].source => p = q
  /\ \A s \in Sources : copies[s] <= 1
  /\ \A s \in Sources : receipt[s] = "none" => copies[s] = 0

\* Who writes a window holds its row lock, or the key of one that is not there
\* yet; a window that is not open is nobody's.
Locks ==
  /\ \A p \in Senders : send[p].write = "append" => window[send[p].window].lock = p
  /\ \A p \in Senders : send[p].write = "create" => window[send[p].window].status = "absent"
  /\ \A p, q \in Senders : send[p].write = "create" /\ send[q].write = "create" => p = q
  /\ \A d \in Digesters : close[d].pc = "prepare" => window[close[d].window].lock = d
  /\ \A w \in Windows : window[w].status # "open" => window[w].lock = None
  /\ DigestShowsItsWindow

\* Nothing is claimed before there is an intent; the claims of an intent differ
\* in attempts, and none is above the intent's own.
Claims ==
  /\ \A s \in Sources : receipt[s] = "none" => intent[s].status = "absent"
  /\ \A w \in Windows : digest[w].made = "no" => intent[w].status = "absent"
  /\ \A v \in Deliverers : deliver[v].pc # "idle" =>
       /\ deliver[v].attempts <= intent[deliver[v].notice].attempts
       /\ intent[deliver[v].notice].status # "absent"
  /\ \A u, v \in Deliverers :
       /\ deliver[u].pc # "idle"
       /\ deliver[v].pc # "idle"
       /\ deliver[u].notice = deliver[v].notice
       /\ deliver[u].attempts = deliver[v].attempts
       => u = v

-----------------------------------------------------------------------------
(* Shapes. *)

\* Keeping the newest items keeps a window's items well-typed.
LEMMA NewestType ==
  ASSUME NEW items \in Seq(Batched)
  PROVE  Newest(items) \in Seq(Batched)
<1> DEFINE m == (IF Len(items) > MaxItems THEN Len(items) - MaxItems ELSE 0) + 1
<1>1. Len(items) \in Nat
  OBVIOUS
<1>2. m \in 1 .. Len(items) + 1
  BY <1>1, ConstantsAssumption
<1>3. \A i \in m .. Len(items) : items[i] \in Batched
  BY <1>1, <1>2
<1>4. m \in Int /\ Len(items) \in Int
  BY <1>1, <1>2
<1> QED
  BY <1>3, <1>4, SubSeqProperties, Zenon DEF Newest

\* A statement on one row of the windows leaves the others alone.
LEMMA RewrittenRow ==
  ASSUME TypeOK, NEW w \in Windows, NEW status \in {"absent", "open", "delivered"},
         NEW items \in Seq(Batched), NEW l \in Senders \union Digesters \union {None}
  PROVE  /\ Rewritten(w, status, items, l) \in [Windows -> WindowType]
         /\ Rewritten(w, status, items, l)[w].status = status
         /\ Rewritten(w, status, items, l)[w].items = items
         /\ Rewritten(w, status, items, l)[w].lock = l
         /\ \A x \in Windows : x # w => Rewritten(w, status, items, l)[x] = window[x]
<1> DEFINE r == [status |-> status, items |-> items, due |-> window[w].due, lock |-> l]
<1>1. window \in [Windows -> WindowType]
  BY DEF TypeOK
<1>2. r \in WindowType
  BY <1>1 DEF WindowType
<1>3. Rewritten(w, status, items, l) = [window EXCEPT ![w] = r]
  BY <1>1 DEF Rewritten
<1> QED
  BY <1>1, <1>2, <1>3

\* A window that falls due changes nothing else; the sets of its fields are arbitrary.
LEMMA DueRecord ==
  ASSUME NEW A, NEW S, NEW L, NEW r \in [status : A, items : S, due : {"no", "yes"}, lock : L]
  PROVE  [r EXCEPT !.due = "yes"] \in [status : A, items : S, due : {"no", "yes"}, lock : L]
OBVIOUS

\* A statement that keeps the items: a row lock is taken, or a window closed.
LEMMA ItemsKept ==
  ASSUME TypeOK, NEW w \in Windows, NEW status \in {"open", "delivered"},
         NEW l \in Senders \union Digesters \union {None},
         window' = Rewritten(w, status, window[w].items, l)
  PROVE  /\ window' \in [Windows -> WindowType]
         /\ window'[w].status = status
         /\ window'[w].items = window[w].items
         /\ window'[w].lock = l
         /\ \A x \in Windows : x # w => window'[x] = window[x]
<1>1. window[w].items \in Seq(Batched)
  BY DEF TypeOK, WindowType
<1> QED
  BY <1>1, RewrittenRow

\* What a committing sender makes of its window is a window.
LEMMA WrittenType ==
  ASSUME Shapes, NEW p \in Senders, send[p].pc = "commit"
  PROVE  Written(p) \in [Windows -> WindowType]
<1> DEFINE w == send[p].window
           s == send[p].source
<1>1. window \in [Windows -> WindowType]
  BY DEF Shapes, TypeOK
<1>2. CASE send[p].write = "create"
  <2>1. s \in Batched /\ w \in Windows
    BY <1>2 DEF Shapes, SenderShape
  <2>2. <<s>> \in Seq(Batched)
    BY <2>1
  <2> QED
    BY <1>2, <2>1, <2>2, RewrittenRow DEF Written, Shapes
<1>3. CASE send[p].write = "append"
  <2>1. s \in Batched /\ w \in Windows
    BY <1>3 DEF Shapes, SenderShape
  <2>2. window[w].items \in Seq(Batched) /\ window[w].status \in {"absent", "open", "delivered"}
        /\ window[w].due \in {"no", "yes"}
    BY <1>1, <2>1 DEF WindowType
  <2>3. Newest(Append(window[w].items, s)) \in Seq(Batched)
    BY <2>1, <2>2, NewestType, AppendProperties
  <2> QED
    BY <1>3, <2>1, <2>2, <2>3, RewrittenRow DEF Written, Shapes
<1>4. CASE send[p].write = "none"
  BY <1>1, <1>4 DEF Written
<1> QED
  BY <1>2, <1>3, <1>4 DEF Shapes, SenderShape, SendType

\* What MaxItems pushes out of a window were its items.
LEMMA ShedType ==
  ASSUME Shapes, NEW p \in Senders, send[p].write = "append"
  PROVE  Oldest(Append(window[send[p].window].items, send[p].source)) \subseteq Batched
<1>1. send[p].source \in Batched /\ window[send[p].window].items \in Seq(Batched)
  BY DEF Shapes, SenderShape, TypeOK, WindowType
<1>2. Append(window[send[p].window].items, send[p].source) \in Seq(Batched)
  BY <1>1, AppendProperties
<1> QED
  BY <1>2 DEF Oldest

\* A rollback changes nothing of a window but the lock.
LEMMA UnlockedType ==
  ASSUME TypeOK, NEW p
  PROVE  /\ Unlocked(p) \in [Windows -> WindowType]
         /\ \A w \in Windows :
              /\ Unlocked(p)[w].status = window[w].status
              /\ Unlocked(p)[w].items = window[w].items
              /\ Unlocked(p)[w].lock = IF window[w].lock = p THEN None ELSE window[w].lock
BY DEF Unlocked, TypeOK, WindowType

\* A sender that moves to a well-shaped state leaves all senders well-shaped.
LEMMA SenderMoves ==
  ASSUME Shapes, NEW p \in Senders, NEW r, SenderShape(r), send' = [send EXCEPT ![p] = r]
  PROVE  /\ send' \in [Senders -> SendType]
         /\ \A q \in Senders : SenderShape(send'[q])
         /\ send'[p] = r
         /\ \A q \in Senders : q # p => send'[q] = send[q]
BY DEF Shapes, SenderShape, TypeOK

\* A sender that ends is idle, and only it changes.
LEMMA SenderEnds ==
  ASSUME Shapes, NEW p \in Senders, EndSend(p)
  PROVE  /\ send' \in [Senders -> SendType]
         /\ \A q \in Senders : SenderShape(send'[q])
         /\ send'[p] = IdleSend
         /\ \A q \in Senders : q # p => send'[q] = send[q]
<1>1. SenderShape(IdleSend)
  BY DEF SenderShape, IdleSend, SendType, SendPcs, TxPcs
<1> QED
  BY <1>1, SenderMoves DEF EndSend

\* A sender that goes on with its source stays well-shaped.
LEMMA SenderGoesOn ==
  ASSUME Shapes, NEW p \in Senders, send[p].pc # "idle",
         NEW pc \in SendPcs, NEW w \in Windows \union {None}, NEW write \in {"none", "create", "append"},
         SendOn(p, pc, w, write),
         pc \in TxPcs \/ write # "none" => send[p].source \in Batched,
         write # "none" => pc = "commit",
         pc = "append" \/ write # "none" => w \in Windows
  PROVE  /\ send' \in [Senders -> SendType]
         /\ \A q \in Senders : SenderShape(send'[q])
         /\ send'[p] = [pc |-> pc, source |-> send[p].source, window |-> w, write |-> write]
         /\ \A q \in Senders : q # p => send'[q] = send[q]
<1> DEFINE r == [pc |-> pc, source |-> send[p].source, window |-> w, write |-> write]
<1>1. send[p].source \in Sources
  BY DEF Shapes, SenderShape
<1>2. SenderShape(r)
  BY <1>1 DEF SenderShape, SendType
<1>3. send' = [send EXCEPT ![p] = r]
  BY DEF SendOn
<1> QED
  BY <1>2, <1>3, SenderMoves

\* The same for a sender whose transaction has written nothing yet.
LEMMA SenderReaches ==
  ASSUME Shapes, NEW p \in Senders, send[p].pc # "idle", send[p].write = "none",
         NEW pc \in SendPcs, pc # "append",
         pc \in TxPcs => send[p].source \in Batched, SendAt(p, pc)
  PROVE  /\ send' \in [Senders -> SendType]
         /\ \A q \in Senders : SenderShape(send'[q])
         /\ send'[p].pc = pc
         /\ send'[p].source = send[p].source
         /\ send'[p].write = "none"
         /\ \A q \in Senders : q # p => send'[q] = send[q]
<1> DEFINE r == [pc |-> pc, source |-> send[p].source, window |-> send[p].window, write |-> "none"]
<1>1. send[p].source \in Sources /\ send[p].window \in Windows \union {None}
  BY DEF Shapes, SenderShape, SendType
<1>2. SenderShape(r)
  BY <1>1 DEF SenderShape, SendType
<1>3. send' = [send EXCEPT ![p] = r]
  BY DEF SendAt, SendOn
<1> QED
  BY <1>2, <1>3, SenderMoves

\* Nothing has happened yet, and everything has its type.
LEMMA InitShapes == Init => Shapes
BY ConstantsAssumption
   DEF Init, Shapes, TypeOK, NoWindow, NoDigest, NoIntent, IdleSend, IdleClose, IdleDeliver,
       WindowType, DigestType, IntentType, SendType, SendPcs, CloseType, ClosePcs, DeliverType, DeliverPcs,
       TxPcs, SenderShape

\* A state that differs only where its parts are again well-shaped.
LEMMA ShapesStep ==
  ASSUME Shapes, [Next]_vars
  PROVE  Shapes'
<1> USE ConstantsAssumption
<1> USE DEF Shapes, TypeOK, TxPcs, tables, Notices, Fault
<1>1. ASSUME NEW p \in Senders, NEW s \in Sources, StartSend(p, s)
      PROVE  Shapes'
  <2>1. SenderShape([pc |-> "claim", source |-> s, window |-> None, write |-> "none"])
    BY DEF SenderShape, SendType, SendPcs
  <2> QED
    BY <1>1, <2>1, SenderMoves DEF StartSend
<1>2. ASSUME NEW p \in Senders, ClaimReceipt(p)
      PROVE  Shapes'
  <2>1. CASE EndSend(p)
    BY <1>2, <2>1, SenderEnds DEF ClaimReceipt
  <2>2. CASE SendAt(p, IF send[p].source \in Batched THEN "find" ELSE "commit")
    <3> DEFINE pc == IF send[p].source \in Batched THEN "find" ELSE "commit"
    <3>1. /\ send[p].pc = "claim" /\ pc \in SendPcs /\ (pc \in TxPcs => send[p].source \in Batched)
          /\ send[p].window \in Windows \union {None} /\ send[p].write = "none"
      BY <1>2 DEF ClaimReceipt, SendPcs, SenderShape, SendType
    <3>2. pc # "append" /\ SendAt(p, pc)
      BY <2>2
    <3>3. /\ send' \in [Senders -> SendType]
          /\ \A q \in Senders : SenderShape(send'[q])
      BY <3>1, <3>2, SenderReaches
    <3> QED
      BY <1>2, <3>3 DEF ClaimReceipt
  <2> QED
    BY <1>2, <2>1, <2>2 DEF ClaimReceipt
<1>3. ASSUME NEW p \in Senders, FindOpenWindow(p)
      PROVE  Shapes'
  <2>1. /\ send[p].pc = "find" /\ send[p].source \in Batched /\ send[p].write = "none"
        /\ send[p].window \in Windows \union {None}
    BY <1>3 DEF FindOpenWindow, SenderShape, SendType
  <2>2. /\ send' \in [Senders -> SendType]
        /\ \A q \in Senders : SenderShape(send'[q])
    <3>1. ASSUME NEW w \in OpenWindows, SendOn(p, "append", w, "none")
          PROVE  /\ send' \in [Senders -> SendType]
                 /\ \A q \in Senders : SenderShape(send'[q])
      <4>1. w \in Windows /\ "append" \in SendPcs
        BY DEF OpenWindows, SendPcs
      <4> QED
        BY <2>1, <3>1, <4>1, SenderGoesOn
    <3>2. ASSUME SendAt(p, "create")
          PROVE  /\ send' \in [Senders -> SendType]
                 /\ \A q \in Senders : SenderShape(send'[q])
      <4>1. "create" \in SendPcs
        BY DEF SendPcs
      <4> QED
        BY <2>1, <3>2, <4>1, SenderReaches
    <3> QED
      BY <1>3, <3>1, <3>2 DEF FindOpenWindow
  <2> QED
    BY <1>3, <2>2 DEF FindOpenWindow
<1>4. ASSUME NEW p \in Senders, AppendToWindow(p)
      PROVE  Shapes'
  <2>1. /\ send[p].pc = "append" /\ send[p].source \in Batched /\ send[p].window \in Windows
        /\ "commit" \in SendPcs
    BY <1>4 DEF AppendToWindow, SenderShape, SendPcs
  <2>2. /\ send' \in [Senders -> SendType]
        /\ \A q \in Senders : SenderShape(send'[q])
    BY <1>4, <2>1, SenderGoesOn DEF AppendToWindow
  <2>3. window' \in [Windows -> WindowType]
    BY <1>4, <2>1, ItemsKept DEF AppendToWindow
  <2> QED
    BY <1>4, <2>2, <2>3 DEF AppendToWindow
<1>5. ASSUME NEW p \in Senders, CreateWindow(p)
      PROVE  Shapes'
  <2>1. /\ send[p].pc = "create" /\ send[p].source \in Batched /\ send[p].write = "none"
        /\ send[p].window \in Windows \union {None}
    BY <1>5 DEF CreateWindow, SenderShape, SendType
  <2>2. /\ send' \in [Senders -> SendType]
        /\ \A q \in Senders : SenderShape(send'[q])
    <3>1. ASSUME NEW w \in Windows, SendOn(p, "commit", w, "create")
          PROVE  /\ send' \in [Senders -> SendType]
                 /\ \A q \in Senders : SenderShape(send'[q])
      <4>1. "commit" \in SendPcs
        BY DEF SendPcs
      <4> QED
        BY <2>1, <3>1, <4>1, SenderGoesOn
    <3>2. ASSUME SendAt(p, "refind")
          PROVE  /\ send' \in [Senders -> SendType]
                 /\ \A q \in Senders : SenderShape(send'[q])
      <4>1. "refind" \in SendPcs
        BY DEF SendPcs
      <4> QED
        BY <2>1, <3>2, <4>1, SenderReaches
    <3> QED
      BY <1>5, <3>1, <3>2 DEF CreateWindow
  <2> QED
    BY <1>5, <2>2 DEF CreateWindow
<1>6. ASSUME NEW p \in Senders, RefindWindow(p)
      PROVE  Shapes'
  <2>1. send[p].pc = "refind" /\ send[p].source \in Batched
    BY <1>6 DEF RefindWindow, SenderShape
  <2>2. /\ send' \in [Senders -> SendType]
        /\ \A q \in Senders : SenderShape(send'[q])
    <3>1. ASSUME NEW w \in OpenWindows, SendOn(p, "append", w, "none")
          PROVE  /\ send' \in [Senders -> SendType]
                 /\ \A q \in Senders : SenderShape(send'[q])
      <4>1. w \in Windows /\ "append" \in SendPcs
        BY DEF OpenWindows, SendPcs
      <4> QED
        BY <2>1, <3>1, <4>1, SenderGoesOn
    <3> QED
      BY <1>6, <3>1, SenderEnds DEF RefindWindow
  <2> QED
    BY <1>6, <2>2 DEF RefindWindow
<1>7. ASSUME NEW p \in Senders, CommitSend(p)
      PROVE  Shapes'
  <2> DEFINE s == send[p].source
  <2>1. /\ send[p].pc = "commit" /\ s \in Sources /\ "record" \in SendPcs
        /\ send[p].window \in Windows \union {None} /\ (s \notin Batched => send[p].write = "none")
    BY <1>7 DEF CommitSend, SenderShape, SendType, SendPcs
  <2>2. window' \in [Windows -> WindowType]
    BY <1>7, <2>1, WrittenType DEF CommitSend
  <2>3. shed' \subseteq Batched
    BY <1>7, ShedType DEF CommitSend
  <2>4. intent' \in [Notices -> IntentType]
    <3>1. NewIntent \in IntentType
      BY DEF NewIntent, IntentType
    <3> QED
      BY <1>7, <2>1, <3>1 DEF CommitSend
  <2>5. receipt' \in [Sources -> {"none", "completed"}] /\ copies' \in [Sources -> Nat]
    BY <1>7, <2>1 DEF CommitSend
  <2>6. faults' \in 0 .. MaxFaults
    BY <1>7 DEF CommitSend
  <2>7. /\ send' \in [Senders -> SendType]
        /\ \A q \in Senders : SenderShape(send'[q])
    <3>1. ASSUME s \notin Batched, SendAt(p, "record")
          PROVE  /\ send' \in [Senders -> SendType]
                 /\ \A q \in Senders : SenderShape(send'[q])
      BY <2>1, <3>1, SenderReaches DEF TxPcs
    <3> QED
      BY <1>7, <3>1, SenderEnds DEF CommitSend
  <2>8. UNCHANGED <<digest, recorded, close, deliver>>
    BY <1>7 DEF CommitSend
  <2> QED
    BY <2>2, <2>3, <2>4, <2>5, <2>6, <2>7, <2>8
<1>8. ASSUME NEW p \in Senders, RecordSend(p)
      PROVE  Shapes'
  <2>1. recorded' \in [Notices -> SUBSET Channels]
    BY <1>8 DEF RecordSend, Channels
  <2> QED
    BY <1>8, <2>1, SenderEnds DEF RecordSend
<1>9. ASSUME NEW p \in Senders, AbortSend(p)
      PROVE  Shapes'
  <2>1. window' \in [Windows -> WindowType]
    BY <1>9, UnlockedType DEF AbortSend
  <2> QED
    BY <1>9, <2>1, SenderEnds DEF AbortSend
<1>10. ASSUME NEW w \in Windows, WindowFallsDue(w)
       PROVE  Shapes'
  <2>1. window' \in [Windows -> WindowType]
    <3>1. window' = [window EXCEPT ![w].due = "yes"]
      BY <1>10 DEF WindowFallsDue
    <3>2. window[w] \in WindowType
      OBVIOUS
    <3>3. [window[w] EXCEPT !.due = "yes"] \in WindowType
      BY <3>2, DueRecord DEF WindowType
    <3> QED
      BY <3>1, <3>3
  <2> QED
    BY <1>10, <2>1 DEF WindowFallsDue
<1>11. ASSUME NEW d \in Digesters, NEW w \in Windows, LockDueWindow(d, w)
       PROVE  Shapes'
  <2>1. window' \in [Windows -> WindowType]
    BY <1>11, ItemsKept DEF LockDueWindow
  <2> QED
    BY <1>11, <2>1 DEF LockDueWindow, CloseType, ClosePcs
<1>12. ASSUME NEW d \in Digesters, PrepareDigest(d)
       PROVE  Shapes'
  <2> DEFINE w == close[d].window
  <2>1. w \in Windows /\ window[w] \in WindowType /\ w \in Notices
    BY <1>12 DEF PrepareDigest
  <2>2. digest' \in [Windows -> DigestType] /\ window' \in [Windows -> WindowType]
    BY <1>12, <2>1, ItemsKept DEF PrepareDigest, DigestType, WindowType
  <2>3. intent' \in [Notices -> IntentType]
    BY <1>12, <2>1 DEF PrepareDigest, NewIntent, IntentType
  <2>4. /\ close' \in [Digesters -> CloseType]
        /\ \A e \in Digesters : close'[e].pc # "idle" => close'[e].window \in Windows
    <3>1. CASE close' = [close EXCEPT ![d].pc = "record"]
      BY <2>1, <3>1 DEF CloseType, ClosePcs
    <3>2. CASE EndClose(d)
      BY <3>2 DEF EndClose, IdleClose, CloseType, ClosePcs
    <3> QED
      BY <1>12, <3>1, <3>2 DEF PrepareDigest
  <2>5. faults' \in 0 .. MaxFaults
    BY <1>12 DEF PrepareDigest
  <2> QED
    BY <1>12, <2>2, <2>3, <2>4, <2>5 DEF PrepareDigest
<1>13. ASSUME NEW d \in Digesters, CloseWithoutDelivery(d)
       PROVE  Shapes'
  <2>1. window' \in [Windows -> WindowType]
    BY <1>13, ItemsKept DEF CloseWithoutDelivery
  <2> QED
    BY <1>13, <2>1 DEF CloseWithoutDelivery, EndClose, IdleClose, CloseType, ClosePcs
<1>14. ASSUME NEW d \in Digesters, RecordDigest(d)
       PROVE  Shapes'
  BY <1>14 DEF RecordDigest, EndClose, IdleClose, CloseType, ClosePcs, Channels
<1>15. ASSUME NEW d \in Digesters, AbortClose(d)
       PROVE  Shapes'
  <2>1. window' \in [Windows -> WindowType]
    BY <1>15, UnlockedType DEF AbortClose
  <2> QED
    BY <1>15, <2>1 DEF AbortClose, EndClose, IdleClose, CloseType, ClosePcs
<1>16. ASSUME NEW v \in Deliverers, NEW n \in Notices, ClaimIntent(v, n)
       PROVE  Shapes'
  BY <1>16 DEF ClaimIntent, IntentType, DeliverType, DeliverPcs
<1>17. ASSUME NEW v \in Deliverers, CallProvider(v)
       PROVE  Shapes'
  BY <1>17 DEF CallProvider, DeliverAt, DeliverType, DeliverPcs
<1>18. ASSUME NEW v \in Deliverers, MarkDelivered(v)
       PROVE  Shapes'
  <2>1. deliver[v].notice \in Notices
    BY <1>18 DEF MarkDelivered
  <2>2. intent' \in [Notices -> IntentType] /\ recorded' \in [Notices -> SUBSET Channels]
    <3> DEFINE n == deliver[v].notice
               i == [status |-> "delivered", lease |-> "live", attempts |-> intent[n].attempts]
    <3>1. i \in IntentType
      BY <2>1 DEF IntentType
    <3>2. \/ intent' = [intent EXCEPT ![n] = i] /\ recorded' = [recorded EXCEPT ![n] = @ \union {"external"}]
          \/ intent' = intent /\ recorded' = recorded
      BY <1>18 DEF MarkDelivered
    <3> QED
      BY <2>1, <3>1, <3>2 DEF Channels
  <2> QED
    <3>1. \/ EndDeliver(v) /\ UNCHANGED faults
          \/ DeliverAt(v, "markFailed") /\ Fault("database")
      BY <1>18 DEF MarkDelivered
    <3>2. /\ deliver' \in [Deliverers -> DeliverType]
          /\ \A x \in Deliverers :
                deliver'[x].pc # "idle" => deliver'[x].notice \in Notices
      BY <2>1, <3>1 DEF DeliverAt, EndDeliver, IdleDeliver, DeliverType, DeliverPcs
    <3>3. faults' \in 0 .. MaxFaults
      BY <3>1
    <3>4. UNCHANGED <<receipt, copies, window, digest, send, close, shed>>
      BY <1>18 DEF MarkDelivered
    <3> QED
      BY <2>2, <3>2, <3>3, <3>4
<1>19. ASSUME NEW v \in Deliverers, MarkFailed(v)
       PROVE  Shapes'
  <2>1. deliver[v].notice \in Notices
    BY <1>19 DEF MarkFailed
  <2>2. intent' \in [Notices -> IntentType]
    BY <1>19, <2>1 DEF MarkFailed, Failed, IntentType
  <2> QED
    BY <1>19, <2>2 DEF MarkFailed, EndDeliver, IdleDeliver, DeliverType, DeliverPcs
<1>20. ASSUME NEW v \in Deliverers, AbortDeliver(v)
       PROVE  Shapes'
  BY SMTT(60), <1>20 DEF AbortDeliver, DeliverAt, EndDeliver, IdleDeliver, DeliverType, DeliverPcs
<1>21. ASSUME NEW n \in Notices, LeaseExpires(n)
       PROVE  Shapes'
  <2>1. intent' \in [Notices -> IntentType]
    BY <1>21 DEF LeaseExpires, IntentType
  <2>2. faults' \in 0 .. MaxFaults
    BY <1>21 DEF LeaseExpires
  <2> QED
    BY <1>21, <2>1, <2>2 DEF LeaseExpires
<1>22. ASSUME NEW n \in Notices, PruneIntent(n)
       PROVE  Shapes'
  BY <1>22 DEF PruneIntent, IntentType
<1>23. CASE UNCHANGED vars
  BY <1>23 DEF vars
<1> QED
  BY <1>1, <1>2, <1>3, <1>4, <1>5, <1>6, <1>7, <1>8, <1>9, <1>10, <1>11, <1>12, <1>13, <1>14,
     <1>15, <1>16, <1>17, <1>18, <1>19, <1>20, <1>21, <1>22, <1>23
     DEF Next, SenderStep, DigestStep, DeliveryStep

-----------------------------------------------------------------------------
(* Receipts. *)

\* No receipt, no row, no transaction.
LEMMA InitReceipts == Init => Receipts
BY DEF Init, Receipts, InSendTx, IdleSend

\* A sender that stays in its transaction, or leaves it, endangers nobody's.
LEMMA TxKept ==
  ASSUME Receipts, NEW p \in Senders, UNCHANGED <<receipt, copies>>,
         \A q \in Senders : q # p => send'[q] = send[q],
         InSendTx(p)' => InSendTx(p) /\ send'[p].source = send[p].source
  PROVE  Receipts'
BY DEF Receipts, InSendTx

\* The statements inside a sender's transaction touch no receipt.
LEMMA TxStep ==
  ASSUME Shapes, NEW p \in Senders,
         \/ FindOpenWindow(p) \/ AppendToWindow(p) \/ CreateWindow(p) \/ RefindWindow(p)
  PROVE  /\ UNCHANGED <<receipt, copies>>
         /\ InSendTx(p)
         /\ \A q \in Senders : q # p => send'[q] = send[q]
         /\ InSendTx(p)' => send'[p].source = send[p].source
<1>1. send \in [Senders -> SendType]
  BY DEF Shapes, TypeOK
<1>2. ASSUME NEW pc, NEW w, NEW write, SendOn(p, pc, w, write)
      PROVE  /\ \A q \in Senders : q # p => send'[q] = send[q]
             /\ send'[p].source = send[p].source
  BY <1>1, <1>2 DEF SendOn
<1>3. ASSUME EndSend(p)
      PROVE  /\ \A q \in Senders : q # p => send'[q] = send[q]
             /\ ~InSendTx(p)'
  BY <1>1, <1>3 DEF EndSend, IdleSend, InSendTx
<1>4. CASE FindOpenWindow(p)
  BY <1>4, <1>2 DEF FindOpenWindow, SendAt, InSendTx, tables
<1>5. CASE AppendToWindow(p)
  BY <1>5, <1>2 DEF AppendToWindow, InSendTx
<1>6. CASE CreateWindow(p)
  BY <1>6, <1>2 DEF CreateWindow, SendAt, InSendTx, tables
<1>7. CASE RefindWindow(p)
  BY <1>7, <1>2, <1>3 DEF RefindWindow, InSendTx, tables
<1> QED
  BY <1>4, <1>5, <1>6, <1>7

\* A receipt is claimed by one transaction at a time, and its commit is the
\* only step that writes the row.
LEMMA ReceiptsStep ==
  ASSUME Shapes, Receipts, [Next]_vars
  PROVE  Receipts'
<1>1. ASSUME NEW p \in Senders, NEW s \in Sources, StartSend(p, s)
      PROVE  Receipts'
  <2>1. ~InSendTx(p)' /\ \A q \in Senders : q # p => send'[q] = send[q]
    BY <1>1 DEF StartSend, InSendTx, Shapes, TypeOK
  <2> QED
    BY <1>1, <2>1, TxKept DEF StartSend, tables
<1>2. ASSUME NEW p \in Senders, ClaimReceipt(p)
      PROVE  Receipts'
  <2> DEFINE s == send[p].source
  <2>1. CASE EndSend(p)
    <3>1. ~InSendTx(p)' /\ \A q \in Senders : q # p => send'[q] = send[q]
      BY <2>1, SenderEnds DEF InSendTx, IdleSend
    <3> QED
      BY <1>2, <3>1, TxKept DEF ClaimReceipt, tables
  <2>2. CASE /\ receipt[s] # "completed"
             /\ SendAt(p, IF s \in Batched THEN "find" ELSE "commit")
    <3>1. send[p].pc = "claim" /\ s \in Sources /\ send \in [Senders -> SendType]
          /\ receipt \in [Sources -> {"none", "completed"}]
      BY <1>2 DEF ClaimReceipt, Shapes, SenderShape, TypeOK
    <3>2. receipt[s] = "none"
      BY <2>2, <3>1
    <3>3. /\ \A q \in Senders : q # p => send'[q] = send[q]
          /\ send'[p].source = s
      BY <2>2, <3>1 DEF SendAt, SendOn
    <3>4. \A q \in Senders : ~(InSendTx(q) /\ send[q].source = s)
      BY <1>2 DEF ClaimReceipt
    <3>5. UNCHANGED <<receipt, copies>>
      BY <1>2 DEF ClaimReceipt, tables
    <3>6. \A q \in Senders : InSendTx(q)' =>
            receipt'[send'[q].source] = "none"
      BY <3>2, <3>3, <3>5 DEF Receipts, InSendTx
    <3>7. \A q, r \in Senders :
            InSendTx(q)' /\ InSendTx(r)' /\ send'[q].source = send'[r].source => q = r
      BY <3>3, <3>4 DEF Receipts, InSendTx
    <3> QED
      BY <3>5, <3>6, <3>7 DEF Receipts, InSendTx
  <2> QED
    BY <1>2, <2>1, <2>2 DEF ClaimReceipt
<1>3. ASSUME NEW p \in Senders,
             FindOpenWindow(p) \/ AppendToWindow(p) \/ CreateWindow(p) \/ RefindWindow(p)
      PROVE  Receipts'
  BY <1>3, TxStep, TxKept
<1>4. ASSUME NEW p \in Senders, CommitSend(p)
      PROVE  Receipts'
  <2> DEFINE s == send[p].source
  <2>1. /\ send[p].pc = "commit" /\ InSendTx(p) /\ s \in Sources
        /\ receipt \in [Sources -> {"none", "completed"}] /\ copies \in [Sources -> Nat]
        /\ send \in [Senders -> SendType]
    BY <1>4 DEF CommitSend, InSendTx, Shapes, SenderShape, TypeOK
  <2>2. /\ \A q \in Senders : q # p => send'[q] = send[q]
        /\ ~InSendTx(p)'
    <3>1. ASSUME SendAt(p, "record")
          PROVE  ~InSendTx(p)' /\ \A q \in Senders : q # p => send'[q] = send[q]
      BY <2>1, <3>1 DEF SendAt, SendOn, InSendTx
    <3>2. ASSUME EndSend(p)
          PROVE  ~InSendTx(p)' /\ \A q \in Senders : q # p => send'[q] = send[q]
      BY <3>2, SenderEnds DEF InSendTx, IdleSend
    <3> QED
      BY <1>4, <3>1, <3>2 DEF CommitSend
  <2>3. /\ receipt' = [receipt EXCEPT ![s] = "completed"]
        /\ copies' = [copies EXCEPT ![s] = @ + 1]
    BY <1>4 DEF CommitSend
  <2>4. copies[s] = 0
    BY <2>1 DEF Receipts
  <2>5. \A r \in Sources : copies'[r] <= 1 /\ (receipt'[r] = "none" => copies'[r] = 0)
    BY <2>1, <2>3, <2>4 DEF Receipts
  <2>6. \A q \in Senders : InSendTx(q)' => receipt'[send'[q].source] = "none"
    <3> SUFFICES ASSUME NEW q \in Senders, InSendTx(q)' PROVE receipt'[send'[q].source] = "none"
      OBVIOUS
    <3>1. q # p /\ send'[q] = send[q] /\ InSendTx(q)
      BY <2>2 DEF InSendTx
    <3>2. send[q].source # s /\ send[q].source \in Sources
      BY <2>1, <3>1 DEF Receipts, Shapes, SenderShape, InSendTx
    <3> QED
      BY <2>1, <2>3, <3>1, <3>2 DEF Receipts
  <2>7. \A q, r \in Senders :
          InSendTx(q)' /\ InSendTx(r)' /\ send'[q].source = send'[r].source => q = r
    BY <2>2 DEF Receipts, InSendTx
  <2> QED
    BY <2>5, <2>6, <2>7 DEF Receipts, InSendTx
<1>5. ASSUME NEW p \in Senders, RecordSend(p) \/ AbortSend(p)
      PROVE  Receipts'
  <2>1. EndSend(p) /\ UNCHANGED <<receipt, copies>>
    BY <1>5 DEF RecordSend, AbortSend
  <2>2. ~InSendTx(p)' /\ \A q \in Senders : q # p => send'[q] = send[q]
    BY <2>1, SenderEnds DEF InSendTx, IdleSend
  <2> QED
    BY <2>1, <2>2, TxKept
<1>6. ASSUME UNCHANGED <<receipt, copies, send>>
      PROVE  Receipts'
  BY <1>6 DEF Receipts, InSendTx
<1>7. ASSUME NEW d \in Digesters, DigestStep(d) \/ AbortClose(d)
      PROVE  UNCHANGED <<receipt, copies, send>>
  BY <1>7 DEF DigestStep, AbortClose, LockDueWindow, PrepareDigest, CloseWithoutDelivery, RecordDigest
<1>8. ASSUME NEW v \in Deliverers, DeliveryStep(v) \/ AbortDeliver(v)
      PROVE  UNCHANGED <<receipt, copies, send>>
  BY <1>8 DEF DeliveryStep, AbortDeliver, ClaimIntent, CallProvider, MarkDelivered, MarkFailed, tables
<1>9. ASSUME NEW n \in Notices, LeaseExpires(n) \/ PruneIntent(n)
      PROVE  UNCHANGED <<receipt, copies, send>>
  BY <1>9 DEF LeaseExpires, PruneIntent
<1>10. ASSUME NEW w \in Windows, WindowFallsDue(w)
       PROVE  UNCHANGED <<receipt, copies, send>>
  BY <1>10 DEF WindowFallsDue
<1>11. CASE UNCHANGED vars
  BY <1>11, <1>6 DEF vars
<1> QED
  BY <1>1, <1>2, <1>3, <1>4, <1>5, <1>6, <1>7, <1>8, <1>9, <1>10, <1>11 DEF Next, SenderStep

-----------------------------------------------------------------------------
(* Locks. *)

\* No window, no lock, no digest.
LEMMA InitLocks == Init => Locks
BY DEF Init, Locks, IdleSend, IdleClose, NoWindow, NoDigest, DigestShowsItsWindow

\* What Shapes says of the names in Locks: no process is None, or both a sender
\* and a digest worker.
LEMMA Names ==
  ASSUME Shapes
  PROVE  /\ \A p \in Senders : p # None /\ p \notin Digesters
         /\ \A d \in Digesters : d # None
         /\ \A p \in Senders : send[p].write \in {"none", "create", "append"}
         /\ \A p \in Senders : send[p].write # "none" => send[p].window \in Windows
         /\ \A d \in Digesters : close[d].pc = "prepare" => close[d].window \in Windows
BY ConstantsAssumption DEF Shapes, SenderShape, SendType

\* A sender that has written nothing to a window, and writes nothing now.
LEMMA SenderQuiet ==
  ASSUME Locks, NEW p \in Senders, UNCHANGED <<window, digest, close>>,
         \A q \in Senders : q # p => send'[q] = send[q], send'[p].write = "none"
  PROVE  Locks'
BY DEF Locks, DigestShowsItsWindow

\* The steps of a sender outside the window: no write before, none after.
LEMMA QuietStep ==
  ASSUME Shapes, NEW p \in Senders,
         \/ \E s \in Sources : StartSend(p, s)
         \/ ClaimReceipt(p) \/ FindOpenWindow(p) \/ RefindWindow(p) \/ RecordSend(p)
  PROVE  /\ UNCHANGED <<window, digest, close>>
         /\ \A q \in Senders : q # p => send'[q] = send[q]
         /\ send'[p].write = "none"
<1>1. send \in [Senders -> SendType] /\ (send[p].pc # "commit" => send[p].write = "none")
  BY DEF Shapes, SenderShape, TypeOK
<1>2. ASSUME EndSend(p)
      PROVE  send'[p].write = "none" /\ \A q \in Senders : q # p => send'[q] = send[q]
  BY <1>1, <1>2 DEF EndSend, IdleSend
<1>3. ASSUME NEW pc, NEW w, SendOn(p, pc, w, "none")
      PROVE  send'[p].write = "none" /\ \A q \in Senders : q # p => send'[q] = send[q]
  BY <1>1, <1>3 DEF SendOn
<1>4. CASE \E s \in Sources : StartSend(p, s)
  BY <1>1, <1>4 DEF StartSend, tables
<1>5. CASE ClaimReceipt(p)
  BY <1>1, <1>2, <1>3, <1>5 DEF ClaimReceipt, SendAt, tables
<1>6. CASE FindOpenWindow(p)
  BY <1>1, <1>3, <1>6 DEF FindOpenWindow, SendAt, tables
<1>7. CASE RefindWindow(p)
  BY <1>2, <1>3, <1>7 DEF RefindWindow, tables
<1>8. CASE RecordSend(p)
  BY <1>2, <1>8 DEF RecordSend
<1> QED
  BY <1>4, <1>5, <1>6, <1>7, <1>8

\* The window of w changes hands or content, and nobody else's row does: what
\* is left to show is about w.
LEMMA RowStep ==
  ASSUME Shapes, Locks, NEW w \in Windows, UNCHANGED digest, digest[w].made = "no",
         \A x \in Windows : x # w => window'[x] = window[x],
         window'[w].status # "open" => window'[w].lock = None
  PROVE  /\ \A x \in Windows : window'[x].status # "open" => window'[x].lock = None
         /\ DigestShowsItsWindow'
BY DEF Locks, DigestShowsItsWindow

\* An open window has no digest.
LEMMA OpenHasNoDigest ==
  ASSUME Shapes, Locks, NEW w \in Windows, window[w].status # "delivered"
  PROVE  digest[w].made = "no"
BY DEF Shapes, TypeOK, DigestType, Locks, DigestShowsItsWindow

\* A transaction that ends without a commit gives its row locks back.
LEMMA UnlockStep ==
  ASSUME Shapes, Locks, NEW p \in Senders \union Digesters, window' = Unlocked(p), UNCHANGED digest,
         \A q \in Senders : q # p => send'[q] = send[q],
         p \in Senders => send'[p].write = "none",
         \A d \in Digesters : d # p => close'[d] = close[d],
         p \in Digesters => close'[p].pc # "prepare"
  PROVE  Locks'
<1>1. \A w \in Windows :
        /\ window'[w].status = window[w].status
        /\ window'[w].items = window[w].items
        /\ window'[w].lock = IF window[w].lock = p THEN None ELSE window[w].lock
  BY UnlockedType DEF Shapes
<1>2. \A q \in Senders : send'[q].write # "none" =>
        q # p /\ send'[q] = send[q] /\ send[q].window \in Windows
  BY Names
<1>3. \A d \in Digesters : close'[d].pc = "prepare" =>
        d # p /\ close'[d] = close[d] /\ close[d].window \in Windows
  BY Names
<1>4. \A q \in Senders : send'[q].write = "append" => window'[send'[q].window].lock = q
  BY <1>1, <1>2, Names DEF Locks
<1>5. \A q \in Senders : send'[q].write = "create" => window'[send'[q].window].status = "absent"
  BY <1>1, <1>2 DEF Locks
<1>6. \A q, r \in Senders : send'[q].write = "create" /\ send'[r].write = "create" => q = r
  BY <1>2 DEF Locks
<1>7. \A d \in Digesters : close'[d].pc = "prepare" => window'[close'[d].window].lock = d
  BY <1>1, <1>3, Names DEF Locks
<1>8. \A w \in Windows : window'[w].status # "open" => window'[w].lock = None
  BY <1>1 DEF Locks
<1>9. DigestShowsItsWindow'
  BY <1>1 DEF Locks, DigestShowsItsWindow
<1> QED
  BY <1>4, <1>5, <1>6, <1>7, <1>8, <1>9 DEF Locks

\* Appending takes the row lock of an open window nobody holds.
LEMMA AppendLocks ==
  ASSUME Shapes, Locks, NEW p \in Senders, AppendToWindow(p)
  PROVE  Locks'
<1> DEFINE w == send[p].window
<1>1. /\ w \in Windows /\ window[w].lock = None /\ send \in [Senders -> SendType]
      /\ send[p].write = "none" /\ UNCHANGED <<digest, close>>
  BY DEF AppendToWindow, Shapes, SenderShape, TypeOK
<1>2. CASE window[w].status = "open"
  <2>1. SendOn(p, "commit", w, "append") /\ window' = Rewritten(w, "open", window[w].items, p)
    BY <1>2 DEF AppendToWindow
  <2>2. /\ send'[p].write = "append" /\ send'[p].window = w
        /\ \A q \in Senders : q # p => send'[q] = send[q]
    BY <1>1, <2>1 DEF SendOn
  <2>3. /\ window'[w].status = "open" /\ window'[w].lock = p
        /\ \A x \in Windows : x # w => window'[x] = window[x]
    BY <1>1, <2>1, ItemsKept DEF Shapes
  <2>4. \A q \in Senders : send'[q].write = "append" => window'[send'[q].window].lock = q
    BY <1>1, <2>2, <2>3, Names DEF Locks
  <2>5. \A q \in Senders : send'[q].write = "create" => window'[send'[q].window].status = "absent"
    BY <1>2, <2>2, <2>3, Names DEF Locks
  <2>6. \A q, r \in Senders : send'[q].write = "create" /\ send'[r].write = "create" => q = r
    BY <2>2 DEF Locks
  <2>7. \A d \in Digesters : close'[d].pc = "prepare" => window'[close'[d].window].lock = d
    BY <1>1, <2>3, Names DEF Locks
  <2>8. DigestShowsItsWindow' /\ \A x \in Windows : window'[x].status # "open" => window'[x].lock = None
    BY <1>1, <1>2, <2>3, OpenHasNoDigest, RowStep
  <2> QED
    BY <2>4, <2>5, <2>6, <2>7, <2>8 DEF Locks
<1>3. CASE window[w].status # "open"
  <2>1. SendOn(p, "commit", None, "none") /\ UNCHANGED window
    BY <1>3 DEF AppendToWindow
  <2>2. send'[p].write = "none" /\ \A q \in Senders : q # p => send'[q] = send[q]
    BY <1>1, <2>1 DEF SendOn
  <2> QED
    BY <1>1, <2>1, <2>2, SenderQuiet
<1> QED
  BY <1>2, <1>3

\* Under the unique index there is one creator at a time.
LEMMA CreateLocks ==
  ASSUME Shapes, Locks, NEW p \in Senders, CreateWindow(p)
  PROVE  Locks'
<1>1. /\ send \in [Senders -> SendType] /\ send[p].write = "none"
      /\ UNCHANGED <<window, digest, close>>
  BY DEF CreateWindow, Shapes, SenderShape, TypeOK, tables
<1>2. ASSUME NEW w \in Windows, window[w].status = "absent", SendOn(p, "commit", w, "create")
      PROVE  Locks'
  <2>1. /\ send'[p].write = "create" /\ send'[p].window = w
        /\ \A q \in Senders : q # p => send'[q] = send[q]
    BY <1>1, <1>2 DEF SendOn
  <2>2. \A q \in Senders : send[q].write # "create"
    BY Names DEF CreateWindow, Creating
  <2> QED
    BY <1>1, <1>2, <2>1, <2>2 DEF Locks, DigestShowsItsWindow
<1>3. ASSUME SendAt(p, "refind")
      PROVE  Locks'
  <2>1. send'[p].write = "none" /\ \A q \in Senders : q # p => send'[q] = send[q]
    BY <1>1, <1>3 DEF SendAt, SendOn
  <2> QED
    BY <1>1, <2>1, SenderQuiet
<1> QED
  BY <1>2, <1>3 DEF CreateWindow

\* A commit changes only the window its sender created or had locked, which
\* has no digest yet.
LEMMA CommitLocks ==
  ASSUME Shapes, Locks, NEW p \in Senders, CommitSend(p)
  PROVE  Locks'
<1> DEFINE w == send[p].window
           s == send[p].source
<1>1. /\ send \in [Senders -> SendType] /\ send[p].pc = "commit"
      /\ window' = Written(p) /\ UNCHANGED <<digest, close>>
  BY DEF CommitSend, Shapes, TypeOK
<1>2. send'[p].write # "append" /\ send'[p].write # "create"
      /\ \A q \in Senders : q # p => send'[q] = send[q]
  <2>1. ASSUME SendAt(p, "record"), s \notin Batched
        PROVE  send'[p].write = "none" /\ \A q \in Senders : q # p => send'[q] = send[q]
    <3>1. send[p].write = "none"
      BY <2>1, Names DEF Shapes, SenderShape
    <3> QED
      BY <1>1, <2>1, <3>1 DEF SendAt, SendOn
  <2>2. ASSUME EndSend(p)
        PROVE  send'[p].write = "none" /\ \A q \in Senders : q # p => send'[q] = send[q]
    BY <1>1, <2>2 DEF EndSend, IdleSend
  <2> QED
    BY <2>1, <2>2 DEF CommitSend
<1>3. CASE send[p].write = "none"
  <2>1. UNCHANGED window
    BY <1>1, <1>3 DEF Written
  <2> QED
    BY <1>1, <1>2, <2>1 DEF Locks, DigestShowsItsWindow
<1>4. ASSUME w \in Windows, window'[w].status = "open",
             \A x \in Windows : x # w => window'[x] = window[x],
             window[w].status # "delivered", window[w].lock = None \/ window[w].lock = p,
             \A q \in Senders : q # p /\ send[q].write = "create" => send[q].window # w
      PROVE  Locks'
  <2>1. \A q \in Senders : send'[q].write # "none" /\ (send'[q].write = "append" \/ send'[q].write = "create") =>
          q # p /\ send'[q] = send[q] /\ send[q].window \in Windows
    BY <1>2, Names
  <2>2. \A q \in Senders : send'[q].write = "append" => window'[send'[q].window].lock = q
    BY <1>4, <2>1, Names DEF Locks
  <2>3. \A q \in Senders : send'[q].write = "create" => window'[send'[q].window].status = "absent"
    BY <1>4, <2>1 DEF Locks
  <2>4. \A q, r \in Senders : send'[q].write = "create" /\ send'[r].write = "create" => q = r
    BY <2>1 DEF Locks
  <2>5. \A d \in Digesters : close'[d].pc = "prepare" => window'[close'[d].window].lock = d
    BY <1>1, <1>4, Names DEF Locks
  <2>6. DigestShowsItsWindow' /\ \A x \in Windows : window'[x].status # "open" => window'[x].lock = None
    BY <1>1, <1>4, OpenHasNoDigest, RowStep
  <2> QED
    BY <2>2, <2>3, <2>4, <2>5, <2>6 DEF Locks
<1>5. CASE send[p].write = "create"
  <2>1. w \in Windows /\ s \in Batched /\ window[w].status = "absent" /\ window[w].lock = None
    BY <1>5 DEF Shapes, SenderShape, Locks
  <2>2. window' = Rewritten(w, "open", <<s>>, None) /\ <<s>> \in Seq(Batched)
    BY <1>1, <1>5, <2>1 DEF Written
  <2>3. window'[w].status = "open" /\ \A x \in Windows : x # w => window'[x] = window[x]
    <3>1. PICK items \in Seq(Batched) : window' = Rewritten(w, "open", items, None)
      BY <2>2
    <3> QED
      BY <2>1, <3>1, RewrittenRow DEF Shapes
  <2>4. \A q \in Senders : q # p => send[q].write # "create"
    BY <1>5 DEF Locks
  <2> QED
    BY <1>4, <2>1, <2>3, <2>4
<1>6. CASE send[p].write = "append"
  <2>1. w \in Windows /\ s \in Batched /\ window[w].lock = p /\ window[w] \in WindowType
    BY <1>6 DEF Shapes, SenderShape, TypeOK, Locks
  <2>2. window[w].status = "open"
    BY <2>1, Names DEF Locks
  <2>3. Newest(Append(window[w].items, s)) \in Seq(Batched)
    BY <2>1, NewestType, AppendProperties DEF WindowType
  <2>4. window' = Rewritten(w, "open", Newest(Append(window[w].items, s)), None)
    BY <1>1, <1>6, <2>2 DEF Written
  <2>5. window'[w].status = "open" /\ \A x \in Windows : x # w => window'[x] = window[x]
    BY <2>1, <2>3, <2>4, RewrittenRow DEF Shapes
  <2>6. \A q \in Senders : q # p /\ send[q].write = "create" => send[q].window # w
    BY <2>2 DEF Locks
  <2> QED
    BY <1>4, <2>1, <2>2, <2>5, <2>6
<1> QED
  BY <1>3, <1>5, <1>6, Names

\* The digest worker skips a window that is locked.
LEMMA LockDueLocks ==
  ASSUME Shapes, Locks, NEW d \in Digesters, NEW w \in Windows, LockDueWindow(d, w)
  PROVE  Locks'
<1>1. /\ close[d].pc = "idle" /\ window[w].status = "open" /\ window[w].lock = None
      /\ window' = Rewritten(w, "open", window[w].items, d)
      /\ UNCHANGED <<send, digest>>
  BY DEF LockDueWindow
<1>2. /\ close'[d].pc = "prepare" /\ close'[d].window = w
      /\ \A e \in Digesters : e # d => close'[e] = close[e]
  BY DEF LockDueWindow, Shapes, TypeOK
<1>3. /\ window'[w].status = "open" /\ window'[w].lock = d
      /\ \A x \in Windows : x # w => window'[x] = window[x]
  BY <1>1, ItemsKept DEF Shapes
<1>4. \A q \in Senders : send[q].write = "append" => window'[send[q].window].lock = q
  BY <1>1, <1>3, Names DEF Locks
<1>5. \A q \in Senders : send[q].write = "create" => window'[send[q].window].status = "absent"
  BY <1>1, <1>3, Names DEF Locks
<1>6. \A e \in Digesters : close'[e].pc = "prepare" => window'[close'[e].window].lock = e
  BY <1>1, <1>2, <1>3, Names DEF Locks
<1>7. DigestShowsItsWindow' /\ \A x \in Windows : window'[x].status # "open" => window'[x].lock = None
  BY <1>1, <1>3, OpenHasNoDigest, RowStep
<1> QED
  BY <1>1, <1>4, <1>5, <1>6, <1>7 DEF Locks

\* The digest worker delivers the window it has locked, with a digest of the
\* items it still holds, or with none.
LEMMA CloseLocks ==
  ASSUME Shapes, Locks, NEW d \in Digesters, PrepareDigest(d) \/ CloseWithoutDelivery(d)
  PROVE  Locks'
<1> DEFINE w == close[d].window
<1>1. /\ close[d].pc = "prepare" /\ UNCHANGED send
      /\ window' = Rewritten(w, "delivered", window[w].items, None)
  BY DEF PrepareDigest, CloseWithoutDelivery
<1>2. w \in Windows /\ window[w].lock = d /\ window[w].status = "open" /\ digest[w].made = "no"
  BY <1>1, Names, OpenHasNoDigest DEF Locks
<1>3. /\ window'[w].status = "delivered" /\ window'[w].lock = None
      /\ window'[w].items = window[w].items
      /\ \A x \in Windows : x # w => window'[x] = window[x]
  BY <1>1, <1>2, ItemsKept DEF Shapes
<1>4. close'[d].pc # "prepare" /\ \A e \in Digesters : e # d => close'[e] = close[e]
  <2>1. close \in [Digesters -> CloseType]
    BY DEF Shapes, TypeOK
  <2>2. close' = [close EXCEPT ![d].pc = "record"] \/ EndClose(d)
    BY DEF PrepareDigest, CloseWithoutDelivery
  <2> QED
    BY <2>1, <2>2 DEF EndClose, IdleClose, CloseType
<1>5. \A q \in Senders : send[q].write = "append" => window'[send[q].window].lock = q
  BY <1>2, <1>3, Names DEF Locks
<1>6. \A q \in Senders : send[q].write = "create" => window'[send[q].window].status = "absent"
  BY <1>2, <1>3, Names DEF Locks
<1>7. \A e \in Digesters : close'[e].pc = "prepare" => window'[close'[e].window].lock = e
  BY <1>2, <1>3, <1>4, Names DEF Locks
<1>8. \A x \in Windows : window'[x].status # "open" => window'[x].lock = None
  BY <1>3 DEF Locks
<1>9. DigestShowsItsWindow'
  <2>1. CASE CloseWithoutDelivery(d)
    BY ZenonT(60), <1>2, <1>3, <2>1 DEF CloseWithoutDelivery, Locks, DigestShowsItsWindow
  <2>2. CASE PrepareDigest(d)
    <3>1. digest' = [digest EXCEPT ![w] = [made |-> "yes", items |-> window[w].items]]
          /\ digest \in [Windows -> DigestType]
      BY <2>2 DEF PrepareDigest, Shapes, TypeOK
    <3> QED
      BY <1>2, <1>3, <3>1 DEF Locks, DigestShowsItsWindow
  <2> QED
    BY <2>1, <2>2
<1> QED
  BY <1>1, <1>5, <1>6, <1>7, <1>8, <1>9 DEF Locks

\* Every step keeps the discipline of the row locks.
LEMMA LocksStep ==
  ASSUME Shapes, Locks, [Next]_vars
  PROVE  Locks'
<1>1. ASSUME NEW p \in Senders,
             \/ \E s \in Sources : StartSend(p, s)
             \/ ClaimReceipt(p) \/ FindOpenWindow(p) \/ RefindWindow(p) \/ RecordSend(p)
      PROVE  Locks'
  BY <1>1, QuietStep, SenderQuiet
<1>2. ASSUME NEW p \in Senders, AbortSend(p)
      PROVE  Locks'
  <2>1. /\ window' = Unlocked(p) /\ UNCHANGED <<digest, close>> /\ EndSend(p)
    BY <1>2 DEF AbortSend
  <2>2. send'[p].write = "none" /\ \A q \in Senders : q # p => send'[q] = send[q]
    BY <2>1, SenderEnds DEF IdleSend
  <2> QED
    BY <2>1, <2>2, UnlockStep, Names
<1>3. ASSUME NEW w \in Windows, WindowFallsDue(w)
      PROVE  Locks'
  <2>1. \A x \in Windows : /\ window'[x].status = window[x].status
                           /\ window'[x].items = window[x].items
                           /\ window'[x].lock = window[x].lock
    BY <1>3 DEF WindowFallsDue, Shapes, TypeOK, WindowType
  <2>2. UNCHANGED <<send, close, digest>>
    BY <1>3 DEF WindowFallsDue
  <2> QED
    BY <2>1, <2>2, Names DEF Locks, DigestShowsItsWindow
<1>4. ASSUME NEW d \in Digesters, RecordDigest(d)
      PROVE  Locks'
  <2>1. /\ close'[d].pc = "idle" /\ \A e \in Digesters : e # d => close'[e] = close[e]
        /\ UNCHANGED <<send, window, digest>>
    BY <1>4 DEF RecordDigest, EndClose, IdleClose, Shapes, TypeOK
  <2> QED
    BY <2>1 DEF Locks, DigestShowsItsWindow
<1>5. ASSUME NEW d \in Digesters, AbortClose(d)
      PROVE  Locks'
  <2>1. /\ window' = Unlocked(d) /\ UNCHANGED <<digest, send>>
        /\ close'[d].pc # "prepare" /\ \A e \in Digesters : e # d => close'[e] = close[e]
    BY <1>5 DEF AbortClose, EndClose, IdleClose, Shapes, TypeOK
  <2> QED
    BY <2>1, UnlockStep, Names
<1>6. ASSUME UNCHANGED <<send, close, window, digest>>
      PROVE  Locks'
  BY <1>6 DEF Locks, DigestShowsItsWindow
<1>7. ASSUME NEW v \in Deliverers, DeliveryStep(v) \/ AbortDeliver(v)
      PROVE  UNCHANGED <<send, close, window, digest>>
  BY <1>7 DEF DeliveryStep, AbortDeliver, ClaimIntent, CallProvider, MarkDelivered, MarkFailed, tables
<1>8. ASSUME NEW n \in Notices, LeaseExpires(n) \/ PruneIntent(n)
      PROVE  UNCHANGED <<send, close, window, digest>>
  BY <1>8 DEF LeaseExpires, PruneIntent
<1>9. CASE UNCHANGED vars
  BY <1>9, <1>6 DEF vars
<1> QED
  BY <1>1, <1>2, <1>3, <1>4, <1>5, <1>6, <1>7, <1>8, <1>9, AppendLocks, CreateLocks, CommitLocks,
     LockDueLocks, CloseLocks DEF Next, SenderStep, DigestStep

-----------------------------------------------------------------------------
(* Claims. *)

\* No intent, no claim.
LEMMA InitClaims == Init => Claims
BY DEF Init, Claims, IdleDeliver, NoIntent, Notices

\* No new intent, no new claim: a delivery worker goes on with its claim or
\* drops it, and no intent forgets that it was made or how often claimed.
LEMMA ClaimsKept ==
  ASSUME Shapes, Claims, UNCHANGED <<receipt, digest>>,
         \A n \in Notices : /\ intent'[n].attempts = intent[n].attempts
                            /\ intent[n].status = "absent" <=> intent'[n].status = "absent",
         \A v \in Deliverers : deliver'[v].pc # "idle" =>
           /\ deliver[v].pc # "idle"
           /\ deliver'[v].notice = deliver[v].notice
           /\ deliver'[v].attempts = deliver[v].attempts
  PROVE  Claims'
<1>1. \A s \in Sources : receipt'[s] = "none" => intent'[s].status = "absent"
  BY DEF Claims, Notices
<1>2. \A w \in Windows : digest'[w].made = "no" => intent'[w].status = "absent"
  BY DEF Claims, Notices
<1>3. \A v \in Deliverers : deliver'[v].pc # "idle" =>
        /\ deliver'[v].attempts <= intent'[deliver'[v].notice].attempts
        /\ intent'[deliver'[v].notice].status # "absent"
  BY DEF Claims, Shapes
<1>4. \A u, v \in Deliverers :
        /\ deliver'[u].pc # "idle"
        /\ deliver'[v].pc # "idle"
        /\ deliver'[u].notice = deliver'[v].notice
        /\ deliver'[u].attempts = deliver'[v].attempts
        => u = v
  BY DEF Claims
<1> QED
  BY <1>1, <1>2, <1>3, <1>4 DEF Claims

\* A new intent: nobody is delivering what was not to be delivered before.
LEMMA NewIntentClaims ==
  ASSUME Shapes, Claims, NEW n \in Notices, intent[n].status = "absent",
         intent' = [intent EXCEPT ![n] = NewIntent], UNCHANGED deliver,
         \A s \in Sources : receipt'[s] = "none" => receipt[s] = "none" /\ s # n,
         \A w \in Windows : digest'[w].made = "no" => digest[w].made = "no" /\ w # n
  PROVE  Claims'
<1>1. /\ intent' \in [Notices -> IntentType]
      /\ \A m \in Notices : m # n => intent'[m] = intent[m]
  BY DEF Shapes, TypeOK, NewIntent, IntentType
<1>2. \A s \in Sources : receipt'[s] = "none" => intent'[s].status = "absent"
  BY <1>1 DEF Claims, Notices
<1>3. \A w \in Windows : digest'[w].made = "no" => intent'[w].status = "absent"
  BY <1>1 DEF Claims, Notices
<1>4. \A v \in Deliverers : deliver[v].pc # "idle" =>
        deliver[v].notice \in Notices /\ deliver[v].notice # n
  BY DEF Claims, Shapes
<1>5. \A v \in Deliverers : deliver'[v].pc # "idle" =>
        /\ deliver'[v].attempts <= intent'[deliver'[v].notice].attempts
        /\ intent'[deliver'[v].notice].status # "absent"
  BY <1>1, <1>4 DEF Claims
<1> QED
  BY <1>2, <1>3, <1>5 DEF Claims

\* A new claim is numbered above every claim of its intent.
LEMMA ClaimIntentClaims ==
  ASSUME Shapes, Claims, NEW v \in Deliverers, NEW n \in Notices, ClaimIntent(v, n)
  PROVE  Claims'
<1>1. /\ intent[n].status # "absent" /\ intent[n].attempts \in Nat
      /\ \A u \in Deliverers : deliver[u].attempts \in Nat
      /\ UNCHANGED <<receipt, digest>>
  BY DEF ClaimIntent, Shapes, TypeOK, IntentType, DeliverType
<1>2. /\ intent'[n].status = "processing" /\ intent'[n].attempts = intent[n].attempts + 1
      /\ \A m \in Notices : m # n => intent'[m] = intent[m]
  BY DEF ClaimIntent, Shapes, TypeOK
<1>3. /\ deliver'[v].notice = n /\ deliver'[v].attempts = intent[n].attempts + 1
      /\ \A u \in Deliverers : u # v => deliver'[u] = deliver[u]
  BY DEF ClaimIntent, Shapes, TypeOK
<1>4. \A s \in Sources : receipt'[s] = "none" => intent'[s].status = "absent"
  BY <1>1, <1>2 DEF Claims, Notices
<1>5. \A w \in Windows : digest'[w].made = "no" => intent'[w].status = "absent"
  BY <1>1, <1>2 DEF Claims, Notices
<1>6. \A u \in Deliverers : deliver'[u].pc # "idle" =>
        /\ deliver'[u].attempts <= intent'[deliver'[u].notice].attempts
        /\ intent'[deliver'[u].notice].status # "absent"
  <2> SUFFICES ASSUME NEW u \in Deliverers, deliver'[u].pc # "idle"
               PROVE  /\ deliver'[u].attempts <= intent'[deliver'[u].notice].attempts
                      /\ intent'[deliver'[u].notice].status # "absent"
    OBVIOUS
  <2>1. CASE u = v
    BY <1>1, <1>2, <1>3, <2>1
  <2>2. CASE u # v
    <3>1. /\ deliver[u].notice \in Notices /\ deliver'[u] = deliver[u]
          /\ deliver[u].attempts <= intent[deliver[u].notice].attempts
          /\ intent[deliver[u].notice].status # "absent"
      BY <1>3, <2>2 DEF Claims, Shapes
    <3>2. CASE deliver[u].notice = n
      BY <1>1, <1>2, <3>1, <3>2
    <3>3. CASE deliver[u].notice # n
      BY <1>2, <3>1, <3>3
    <3> QED
      BY <3>2, <3>3
  <2> QED
    BY <2>1, <2>2
<1>7. \A u \in Deliverers : u # v /\ deliver'[u].pc # "idle" /\ deliver'[u].notice = n =>
        deliver'[u].attempts # deliver'[v].attempts
  BY <1>1, <1>3 DEF Claims
<1>8. \A t, u \in Deliverers :
        /\ deliver'[t].pc # "idle"
        /\ deliver'[u].pc # "idle"
        /\ deliver'[t].notice = deliver'[u].notice
        /\ deliver'[t].attempts = deliver'[u].attempts
        => t = u
  BY <1>3, <1>7 DEF Claims
<1> QED
  BY <1>4, <1>5, <1>6, <1>8 DEF Claims

\* What a step of a delivery worker after its claim does to claims.
LEMMA DeliverStep ==
  ASSUME Shapes, NEW v \in Deliverers,
         CallProvider(v) \/ MarkDelivered(v) \/ MarkFailed(v) \/ AbortDeliver(v)
  PROVE  /\ UNCHANGED <<receipt, digest>>
         /\ \A u \in Deliverers : deliver'[u].pc # "idle" =>
              /\ deliver[u].pc # "idle"
              /\ deliver'[u].notice = deliver[u].notice
              /\ deliver'[u].attempts = deliver[u].attempts
<1>1. deliver \in [Deliverers -> DeliverType] /\ deliver[v].pc # "idle"
  BY DEF Shapes, TypeOK, CallProvider, MarkDelivered, MarkFailed, AbortDeliver
<1>2. EndDeliver(v) \/ \E pc \in DeliverPcs : DeliverAt(v, pc)
  BY DEF CallProvider, MarkDelivered, MarkFailed, AbortDeliver, DeliverPcs
<1>3. UNCHANGED <<receipt, digest>>
  BY DEF CallProvider, MarkDelivered, MarkFailed, AbortDeliver, tables
<1>4. ASSUME NEW pc \in DeliverPcs, DeliverAt(v, pc)
      PROVE  \A u \in Deliverers :
               deliver'[u].notice = deliver[u].notice /\ deliver'[u].attempts = deliver[u].attempts
               /\ (u # v => deliver'[u] = deliver[u])
  BY <1>1, <1>4 DEF DeliverAt, DeliverType
<1>5. ASSUME EndDeliver(v)
      PROVE  deliver'[v].pc = "idle" /\ \A u \in Deliverers : u # v => deliver'[u] = deliver[u]
  BY <1>1, <1>5 DEF EndDeliver, IdleDeliver
<1> QED
  BY <1>1, <1>2, <1>3, <1>4, <1>5

\* An intent that exists goes on existing, with its attempts, whatever status
\* it is given.
LEMMA IntentKept ==
  ASSUME Shapes, NEW n \in Notices, intent[n].status # "absent",
         NEW status \in {"pending", "processing", "delivered", "dead", "pruned"},
         NEW lease \in {"live", "expired"},
         intent' = [intent EXCEPT ![n] =
                      [status |-> status, lease |-> lease, attempts |-> intent[n].attempts]]
  PROVE  \A m \in Notices : /\ intent'[m].attempts = intent[m].attempts
                            /\ intent[m].status = "absent" <=> intent'[m].status = "absent"
<1>1. intent \in [Notices -> IntentType]
  BY DEF Shapes, TypeOK
<1> QED
  BY <1>1

\* Every step keeps claims apart.
LEMMA ClaimsStep ==
  ASSUME Shapes, Receipts, Locks, Claims, [Next]_vars
  PROVE  Claims'
<1>1. ASSUME UNCHANGED <<receipt, digest, intent, deliver>>
      PROVE  Claims'
  BY <1>1 DEF Claims
<1>2. ASSUME NEW p \in Senders,
             \/ \E s \in Sources : StartSend(p, s)
             \/ ClaimReceipt(p) \/ FindOpenWindow(p) \/ AppendToWindow(p) \/ CreateWindow(p)
             \/ RefindWindow(p) \/ RecordSend(p) \/ AbortSend(p)
      PROVE  UNCHANGED <<receipt, digest, intent, deliver>>
  BY <1>2 DEF StartSend, ClaimReceipt, FindOpenWindow, AppendToWindow, CreateWindow, RefindWindow,
              RecordSend, AbortSend, tables
<1>3. ASSUME NEW p \in Senders, CommitSend(p)
      PROVE  Claims'
  <2> DEFINE s == send[p].source
  <2>1. /\ s \in Sources /\ s \in Notices /\ receipt[s] = "none"
        /\ receipt \in [Sources -> {"none", "completed"}]
        /\ receipt' = [receipt EXCEPT ![s] = "completed"] /\ UNCHANGED <<digest, deliver>>
    BY <1>3 DEF CommitSend, Receipts, InSendTx, Shapes, SenderShape, TypeOK, Notices
  <2>2. \A r \in Sources : receipt'[r] = "none" => receipt[r] = "none" /\ r # s
    BY <2>1
  <2>3. CASE UNCHANGED intent
    BY <2>1, <2>2, <2>3 DEF Claims
  <2>4. CASE intent' = [intent EXCEPT ![s] = NewIntent]
    <3>1. intent[s].status = "absent"
      BY <2>1 DEF Claims
    <3>2. \A w \in Windows : digest'[w].made = "no" => digest[w].made = "no" /\ w # s
      BY <2>1, ConstantsAssumption
    <3> QED
      BY <2>1, <2>2, <2>4, <3>1, <3>2, NewIntentClaims
  <2> QED
    BY <1>3, <2>3, <2>4 DEF CommitSend
<1>4. ASSUME NEW w \in Windows, WindowFallsDue(w)
      PROVE  UNCHANGED <<receipt, digest, intent, deliver>>
  BY <1>4 DEF WindowFallsDue
<1>5. ASSUME NEW d \in Digesters,
             \/ \E w \in Windows : LockDueWindow(d, w)
             \/ CloseWithoutDelivery(d) \/ RecordDigest(d) \/ AbortClose(d)
      PROVE  UNCHANGED <<receipt, digest, intent, deliver>>
  BY <1>5 DEF LockDueWindow, CloseWithoutDelivery, RecordDigest, AbortClose
<1>6. ASSUME NEW d \in Digesters, PrepareDigest(d)
      PROVE  Claims'
  <2> DEFINE w == close[d].window
  <2>1. /\ w \in Windows /\ w \in Notices /\ w \notin Sources /\ digest[w].made = "no"
        /\ digest \in [Windows -> DigestType]
    BY <1>6, ConstantsAssumption DEF PrepareDigest, Shapes, TypeOK, Notices
  <2>2. /\ digest' = [digest EXCEPT ![w] = [made |-> "yes", items |-> window[w].items]]
        /\ UNCHANGED <<receipt, deliver>>
    BY <1>6 DEF PrepareDigest
  <2>3. intent[w].status = "absent"
    BY <2>1 DEF Claims
  <2>4. \A x \in Windows : digest'[x].made = "no" => digest[x].made = "no" /\ x # w
    BY <2>1, <2>2
  <2>5. \A r \in Sources : receipt'[r] = "none" => receipt[r] = "none" /\ r # w
    BY <2>1, <2>2
  <2>6. CASE UNCHANGED intent
    BY <2>2, <2>4, <2>6 DEF Claims
  <2>7. CASE intent' = [intent EXCEPT ![w] = NewIntent]
    BY <2>1, <2>2, <2>3, <2>4, <2>5, <2>7, NewIntentClaims
  <2> QED
    BY <1>6, <2>6, <2>7 DEF PrepareDigest
<1>7. ASSUME NEW v \in Deliverers,
             CallProvider(v) \/ MarkDelivered(v) \/ MarkFailed(v) \/ AbortDeliver(v)
      PROVE  Claims'
  <2>1. \A m \in Notices : /\ intent'[m].attempts = intent[m].attempts
                           /\ intent[m].status = "absent" <=> intent'[m].status = "absent"
    <3> DEFINE n == deliver[v].notice
    <3>1. n \in Notices /\ intent \in [Notices -> IntentType]
      BY <1>7 DEF CallProvider, MarkDelivered, MarkFailed, AbortDeliver, Shapes, TypeOK
    <3>2. CASE UNCHANGED intent
      BY <3>2
    <3>3. ASSUME HoldsClaim(v), NEW status \in {"pending", "delivered", "dead"},
                 intent' = [intent EXCEPT ![n] =
                              [status |-> status, lease |-> "live", attempts |-> intent[n].attempts]]
          PROVE  \A m \in Notices : /\ intent'[m].attempts = intent[m].attempts
                                    /\ intent[m].status = "absent" <=> intent'[m].status = "absent"
      <4>1. intent[n].status # "absent"
        BY <3>3 DEF HoldsClaim
      <4> QED
        BY <3>1, <3>3, <4>1, IntentKept
    <3>4. \/ UNCHANGED intent
          \/ /\ HoldsClaim(v)
             /\ intent' = [intent EXCEPT ![n] = [status |-> "delivered", lease |-> "live",
                                                 attempts |-> intent[n].attempts]]
          \/ HoldsClaim(v) /\ intent' = [intent EXCEPT ![n] = Failed(n, v)]
      BY <1>7 DEF CallProvider, MarkDelivered, MarkFailed, AbortDeliver, tables
    <3>5. \E status \in {"pending", "dead"} :
            Failed(n, v) = [status |-> status, lease |-> "live", attempts |-> intent[n].attempts]
      BY DEF Failed
    <3> QED
      BY <3>2, <3>3, <3>4, <3>5
  <2> QED
    BY <1>7, <2>1, DeliverStep, ClaimsKept
<1>8. ASSUME NEW n \in Notices, LeaseExpires(n) \/ PruneIntent(n)
      PROVE  Claims'
  <2>1. \A m \in Notices : /\ intent'[m].attempts = intent[m].attempts
                           /\ intent[m].status = "absent" <=> intent'[m].status = "absent"
    BY <1>8 DEF LeaseExpires, PruneIntent, Shapes, TypeOK, IntentType
  <2>2. UNCHANGED <<receipt, digest, deliver>>
    BY <1>8 DEF LeaseExpires, PruneIntent
  <2> QED
    BY <2>1, <2>2, ClaimsKept
<1>9. CASE UNCHANGED vars
  BY <1>1, <1>9 DEF vars
<1> QED
  BY <1>1, <1>2, <1>3, <1>4, <1>5, <1>6, <1>7, <1>8, <1>9, ClaimIntentClaims
     DEF Next, SenderStep, DigestStep, DeliveryStep

-----------------------------------------------------------------------------
(* The theorems. *)

Invariant == Shapes /\ Receipts /\ Locks /\ Claims

\* The four layers together are an inductive invariant.
LEMMA InvariantHolds == Spec => []Invariant
<1>1. Init => Invariant
  BY InitShapes, InitReceipts, InitLocks, InitClaims DEF Invariant
<1>2. Invariant /\ [Next]_vars => Invariant'
  BY ShapesStep, ReceiptsStep, LocksStep, ClaimsStep DEF Invariant
<1> QED
  BY <1>1, <1>2, PTL DEF Spec

\* Every variable keeps its type, whatever the senders, the workers and the
\* faults do.
THEOREM TypeCorrect == Spec => []TypeOK
<1>1. Invariant => TypeOK
  BY DEF Invariant, Shapes
<1> QED
  BY <1>1, InvariantHolds, PTL

\* However often an event is delivered, at most one notification row of it is
\* committed: persistWithReceipt.
THEOREM OneRowPerSourceHolds == Spec => []OneRowPerSource
<1>1. Invariant => OneRowPerSource
  BY DEF Invariant, Receipts, OneRowPerSource
<1> QED
  BY <1>1, InvariantHolds, PTL

\* A digest shows exactly the items its delivered window holds: appendToWindow
\* against lockDueWindow and prepareWindow.
THEOREM DigestShowsItsWindowHolds == Spec => []DigestShowsItsWindow
<1>1. Invariant => DigestShowsItsWindow
  BY DEF Invariant, Locks
<1> QED
  BY <1>1, InvariantHolds, PTL

\* At most one of the delivery workers busy with an intent can still settle it:
\* the attempts a claim was given are no other claim's.
THEOREM OneClaimHolderHolds == Spec => []OneClaimHolder
<1>1. Invariant => OneClaimHolder
  BY DEF Invariant, Claims, OneClaimHolder, HoldsClaim
<1> QED
  BY <1>1, InvariantHolds, PTL

\* A settled intent is never reopened by a worker that comes late: the status
\* and attempts markDelivered and markFailed ask for.
THEOREM SettledStaysSettledHolds == Spec => SettledStaysSettled
<1> DEFINE Kept == \A n \in Notices : Settled(n) =>
                     intent'[n].status \in {intent[n].status, "pruned"}
<1>1. Invariant /\ [Next]_vars => [Kept]_vars
  <2> SUFFICES ASSUME Invariant, Next PROVE Kept
    OBVIOUS
  <2> USE DEF Settled
  <2>1. Shapes /\ Receipts /\ Claims /\ intent \in [Notices -> IntentType]
    BY DEF Invariant, Shapes, TypeOK
  <2>2. CASE UNCHANGED intent
    BY <2>2
  <2>3. ASSUME NEW m \in Notices, ~Settled(m), \A n \in Notices : n # m => intent'[n] = intent[n]
        PROVE  Kept
    BY <2>3
  <2>4. ASSUME NEW p \in Senders, SenderStep(p) \/ AbortSend(p) \/ \E s \in Sources : StartSend(p, s)
        PROVE  Kept
    <3>1. CASE CommitSend(p)
      <4> DEFINE s == send[p].source
      <4>1. s \in Notices /\ intent[s].status = "absent"
        BY <2>1, <3>1 DEF CommitSend, Receipts, InSendTx, Shapes, SenderShape, Notices, Claims
      <4>2. \A n \in Notices : n # s => intent'[n] = intent[n]
        BY <2>1, <3>1 DEF CommitSend
      <4> QED
        BY <2>3, <4>1, <4>2
    <3>2. CASE UNCHANGED intent
      BY <2>2, <3>2
    <3> QED
      BY <2>4, <3>1, <3>2 DEF SenderStep, StartSend, ClaimReceipt, FindOpenWindow, AppendToWindow,
         CreateWindow, RefindWindow, RecordSend, AbortSend, tables
  <2>5. ASSUME NEW d \in Digesters, DigestStep(d) \/ AbortClose(d)
        PROVE  Kept
    <3>1. CASE PrepareDigest(d)
      <4> DEFINE w == close[d].window
      <4>1. w \in Notices /\ intent[w].status = "absent"
        BY <2>1, <3>1 DEF PrepareDigest, Shapes, Notices, Claims
      <4>2. \A n \in Notices : n # w => intent'[n] = intent[n]
        BY <2>1, <3>1 DEF PrepareDigest
      <4> QED
        BY <2>3, <4>1, <4>2
    <3>2. CASE UNCHANGED intent
      BY <2>2, <3>2
    <3> QED
      BY <2>5, <3>1, <3>2 DEF DigestStep, LockDueWindow, CloseWithoutDelivery, RecordDigest, AbortClose
  <2>6. ASSUME NEW v \in Deliverers, DeliveryStep(v) \/ AbortDeliver(v)
        PROVE  Kept
    <3>1. ASSUME NEW n \in Notices, ClaimIntent(v, n)
          PROVE  Kept
      <4>1. ~Settled(n) /\ \A m \in Notices : m # n => intent'[m] = intent[m]
        BY <2>1, <3>1 DEF ClaimIntent
      <4> QED
        BY <2>3, <4>1
    <3>2. CASE MarkDelivered(v) \/ MarkFailed(v)
      <4>1. deliver[v].notice \in Notices
        BY <2>1, <3>2 DEF MarkDelivered, MarkFailed, Shapes
      <4>2. CASE HoldsClaim(v)
        <5>1. /\ ~Settled(deliver[v].notice)
              /\ \A m \in Notices : m # deliver[v].notice => intent'[m] = intent[m]
          BY <2>1, <3>2, <4>2 DEF MarkDelivered, MarkFailed, HoldsClaim
        <5> QED
          BY <2>3, <4>1, <5>1
      <4>3. CASE ~HoldsClaim(v)
        BY <2>2, <3>2, <4>3 DEF MarkDelivered, MarkFailed
      <4> QED
        BY <4>2, <4>3
    <3>3. CASE CallProvider(v) \/ AbortDeliver(v)
      BY <2>2, <3>3 DEF CallProvider, AbortDeliver, tables
    <3> QED
      BY <2>6, <3>1, <3>2, <3>3 DEF DeliveryStep
  <2>7. ASSUME NEW w \in Windows, WindowFallsDue(w)
        PROVE  Kept
    BY <2>2, <2>7 DEF WindowFallsDue
  <2>8. ASSUME NEW n \in Notices, LeaseExpires(n)
        PROVE  Kept
    <3>1. ~Settled(n) /\ \A m \in Notices : m # n => intent'[m] = intent[m]
      BY <2>1, <2>8 DEF LeaseExpires
    <3> QED
      BY <2>3, <3>1
  <2>9. ASSUME NEW n \in Notices, PruneIntent(n)
        PROVE  Kept
    BY <2>1, <2>9 DEF PruneIntent, IntentType
  <2> QED
    BY <2>4, <2>5, <2>6, <2>7, <2>8, <2>9 DEF Next
<1> QED
  BY <1>1, InvariantHolds, PTL DEF Spec, SettledStaysSettled


-----------------------------------------------------------------------------
(* Items. *)

\* What is in a window was committed with its receipt.
Placed ==
  \A w \in Windows : \A i \in DOMAIN window[w].items : receipt[window[w].items[i]] = "completed"

\* The newest items are the end of a window's sequence.
LEMMA NewestIsEnd ==
  ASSUME NEW items \in Seq(Batched)
  PROVE  \E k \in Nat :
           \A i \in DOMAIN Newest(items) : i \in Nat /\ i + k \in DOMAIN items /\ Newest(items)[i] = items[i + k]
<1> DEFINE k == IF Len(items) > MaxItems THEN Len(items) - MaxItems ELSE 0
<1>1. Len(items) \in Nat /\ DOMAIN items = 1 .. Len(items)
  OBVIOUS
<1>2. k \in Nat /\ k <= Len(items)
  BY <1>1, ConstantsAssumption
<1>3. Newest(items) = SubSeq(items, k + 1, Len(items))
  BY DEF Newest
<1> HIDE DEF k
<1>4. \A i \in k + 1 .. Len(items) : items[i] \in Batched
  BY <1>1, <1>2
<1>5. k + 1 \in Int /\ Len(items) \in Int
  BY <1>1, <1>2
<1>6. PICK q \in Seq(Batched) : q = SubSeq(items, k + 1, Len(items))
  BY <1>4, <1>5, SubSeqProperties
<1>7. /\ Len(q) = IF k + 1 <= Len(items) THEN Len(items) - (k + 1) + 1 ELSE 0
      /\ \A i \in 1 .. Len(items) - (k + 1) + 1 : q[i] = items[k + 1 + i - 1]
  BY <1>4, <1>5, <1>6, SubSeqProperties
<1>8. Len(q) = Len(items) - k /\ DOMAIN q = 1 .. Len(q)
  <2>1. \A n \in Nat : k <= n => (IF k + 1 <= n THEN n - (k + 1) + 1 ELSE 0) = n - k
    BY <1>2
  <2>2. Len(q) = Len(items) - k
    BY <1>1, <1>2, <1>7, <2>1
  <2>3. DOMAIN q = 1 .. Len(q)
    OBVIOUS
  <2> QED
    BY <2>2, <2>3
<1>9. ASSUME NEW i \in DOMAIN q
      PROVE  i \in Nat /\ i + k \in DOMAIN items /\ q[i] = items[i + k]
  <2>1. i \in Nat /\ i >= 1 /\ i <= Len(items) - k
    BY <1>1, <1>2, <1>8
  <2>2. k + 1 + i - 1 = i + k
    BY <1>2, <2>1
  <2>3. q[i] = items[k + 1 + i - 1]
    <3>1. i \in 1 .. Len(items) - (k + 1) + 1
      BY <1>1, <1>2, <2>1
    <3> QED
      BY <1>7, <3>1
  <2> QED
    BY <1>1, <1>2, <2>1, <2>2, <2>3
<1> QED
  BY <1>2, <1>3, <1>6, <1>9

\* Only a commit changes what windows hold, and no step takes a receipt back.
LEMMA ItemsStep ==
  ASSUME Shapes, [Next]_vars
  PROVE  /\ \/ \A w \in Windows : window'[w].items = window[w].items
            \/ \E p \in Senders : CommitSend(p)
         /\ \A s \in Sources : receipt[s] = "completed" => receipt'[s] = "completed"
<1>1. TypeOK
  BY DEF Shapes
<1>2. ASSUME NEW p \in Senders, CommitSend(p)
      PROVE  \A s \in Sources : receipt[s] = "completed" => receipt'[s] = "completed"
  BY <1>1, <1>2 DEF CommitSend, TypeOK
<1>3. ASSUME NEW p \in Senders,
             \/ \E s \in Sources : StartSend(p, s)
             \/ ClaimReceipt(p) \/ FindOpenWindow(p) \/ CreateWindow(p) \/ RefindWindow(p) \/ RecordSend(p)
      PROVE  UNCHANGED <<receipt, window>>
  BY <1>3 DEF StartSend, ClaimReceipt, FindOpenWindow, CreateWindow, RefindWindow, RecordSend, tables
<1>4. ASSUME NEW p \in Senders, AppendToWindow(p)
      PROVE  UNCHANGED receipt /\ \A w \in Windows : window'[w].items = window[w].items
  <2>1. send[p].window \in Windows
    BY <1>4 DEF AppendToWindow, Shapes, SenderShape
  <2> QED
    BY <1>1, <1>4, <2>1, ItemsKept DEF AppendToWindow
<1>5. ASSUME NEW d \in Digesters, NEW w \in Windows, LockDueWindow(d, w)
      PROVE  UNCHANGED receipt /\ \A x \in Windows : window'[x].items = window[x].items
  BY <1>1, <1>5, ItemsKept DEF LockDueWindow
<1>6. ASSUME NEW d \in Digesters, PrepareDigest(d) \/ CloseWithoutDelivery(d)
      PROVE  UNCHANGED receipt /\ \A w \in Windows : window'[w].items = window[w].items
  <2>1. close[d].window \in Windows
    BY <1>6 DEF PrepareDigest, CloseWithoutDelivery, Shapes
  <2>2. window' = Rewritten(close[d].window, "delivered", window[close[d].window].items, None)
        /\ UNCHANGED receipt
    BY <1>6 DEF PrepareDigest, CloseWithoutDelivery
  <2> QED
    BY <1>1, <2>1, <2>2, ItemsKept
<1>7. ASSUME NEW p, window' = Unlocked(p)
      PROVE  \A w \in Windows : window'[w].items = window[w].items
  BY <1>1, <1>7, UnlockedType
<1>8. ASSUME NEW w \in Windows, WindowFallsDue(w)
      PROVE  UNCHANGED receipt /\ \A x \in Windows : window'[x].items = window[x].items
  <2>1. window \in [Windows -> WindowType] /\ window' = [window EXCEPT ![w].due = "yes"]
    BY <1>1, <1>8 DEF WindowFallsDue, TypeOK
  <2>2. \A x \in Windows : window'[x].items = window[x].items
    BY <2>1 DEF WindowType
  <2> QED
    BY <1>8, <2>2 DEF WindowFallsDue
<1>9. ASSUME NEW v \in Deliverers, DeliveryStep(v) \/ AbortDeliver(v)
      PROVE  UNCHANGED <<receipt, window>>
  BY <1>9 DEF DeliveryStep, AbortDeliver, ClaimIntent, CallProvider, MarkDelivered, MarkFailed, tables
<1>10. ASSUME NEW n \in Notices, LeaseExpires(n) \/ PruneIntent(n)
       PROVE  UNCHANGED <<receipt, window>>
  BY <1>10 DEF LeaseExpires, PruneIntent
<1>11. ASSUME NEW p \in Senders, AbortSend(p)
       PROVE  UNCHANGED receipt /\ window' = Unlocked(p)
  BY <1>11 DEF AbortSend
<1>12. ASSUME NEW d \in Digesters, AbortClose(d) \/ RecordDigest(d)
       PROVE  UNCHANGED receipt /\ (UNCHANGED window \/ window' = Unlocked(d))
  BY <1>12 DEF AbortClose, RecordDigest
<1>13. UNCHANGED vars => UNCHANGED <<receipt, window>>
  BY DEF vars
<1> QED
  BY <1>2, <1>3, <1>4, <1>5, <1>6, <1>7, <1>8, <1>9, <1>10, <1>11, <1>12, <1>13
     DEF Next, SenderStep, DigestStep

\* What a commit makes of a window: its items move up, and the new one is there once.
LEMMA CommitItems ==
  ASSUME Shapes, NEW p \in Senders, CommitSend(p)
  PROVE  \/ \A w \in Windows : window'[w].items = window[w].items
         \/ \E w \in Windows, k \in Nat :
              /\ \A x \in Windows : x # w => window'[x].items = window[x].items
              /\ \/ DOMAIN window'[w].items = {1} /\ window'[w].items[1] = send[p].source
                 \/ \A i \in DOMAIN window'[w].items :
                      /\ i \in Nat
                      /\ \/ i + k = Len(window[w].items) + 1 /\ window'[w].items[i] = send[p].source
                         \/ i + k \in DOMAIN window[w].items /\ window'[w].items[i] = window[w].items[i + k]
<1>a. PICK w : w = send[p].window
  OBVIOUS
<1>b. PICK s : s = send[p].source
  OBVIOUS
<1>1. window' = Written(p) /\ window \in [Windows -> WindowType]
  BY DEF CommitSend, Shapes, TypeOK
<1>2. CASE send[p].write = "none"
  BY <1>1, <1>2 DEF Written
<1>3. CASE send[p].write = "create"
  <2>1. w \in Windows /\ s \in Batched
    BY <1>a, <1>b, <1>3 DEF Shapes, SenderShape
  <2>2. PICK items \in Seq(Batched) : items = <<s>>
    <3>1. <<s>> \in Seq(Batched)
      BY <2>1
    <3> QED
      BY <3>1, Zenon
  <2>3. window'[w].items = items /\ \A x \in Windows : x # w => window'[x] = window[x]
    <3>1. window' = Rewritten(w, "open", items, None)
      BY <1>a, <1>b, <1>1, <1>3, <2>2, Zenon DEF Written
    <3> QED
      BY <2>1, <3>1, RewrittenRow DEF Shapes
  <2>4. DOMAIN items = {1} /\ items[1] = s
    BY <2>2
  <2>5. 0 \in Nat
    OBVIOUS
  <2> QED
    BY <1>b, <2>1, <2>3, <2>4, <2>5
<1>4. CASE send[p].write = "append"
  <2>1. w \in Windows /\ s \in Batched /\ window[w].items \in Seq(Batched)
    BY <1>a, <1>b, <1>1, <1>4 DEF Shapes, SenderShape, WindowType
  <2>2. PICK items \in Seq(Batched) : items = Append(window[w].items, s)
    BY <2>1, AppendProperties
  <2>3. Newest(items) \in Seq(Batched)
    BY NewestType
  <2>4. window[w].status \in {"absent", "open", "delivered"}
    BY <1>1, <2>1 DEF WindowType
  <2>5. window'[w].items = Newest(items) /\ \A x \in Windows : x # w => window'[x] = window[x]
    BY <1>a, <1>b, <1>1, <1>4, <2>1, <2>2, <2>3, <2>4, RewrittenRow DEF Written, Shapes
  <2>6. PICK k \in Nat :
          \A i \in DOMAIN Newest(items) : i \in Nat /\ i + k \in DOMAIN items /\ Newest(items)[i] = items[i + k]
    BY NewestIsEnd
  <2>7. /\ DOMAIN items = DOMAIN window[w].items \union {Len(window[w].items) + 1}
        /\ \A j \in DOMAIN window[w].items : items[j] = window[w].items[j]
        /\ items[Len(window[w].items) + 1] = s
    <3>1. PICK old \in Seq(Batched) : old = window[w].items
      BY <2>1
    <3>2. Len(old) \in Nat /\ DOMAIN old = 1 .. Len(old)
      OBVIOUS
    <3>3. /\ DOMAIN Append(old, s) = 1 .. Len(old) + 1
          /\ \A j \in 1 .. Len(old) : Append(old, s)[j] = old[j]
          /\ Append(old, s)[Len(old) + 1] = s
      BY <2>1, AppendProperties
    <3>4. 1 .. Len(old) + 1 = 1 .. Len(old) \union {Len(old) + 1}
      BY <3>2
    <3> QED
      BY <2>2, <3>1, <3>2, <3>3, <3>4
  <2>8. \A i \in DOMAIN window'[w].items :
          /\ i \in Nat
          /\ \/ i + k = Len(window[w].items) + 1 /\ window'[w].items[i] = s
             \/ i + k \in DOMAIN window[w].items /\ window'[w].items[i] = window[w].items[i + k]
    <3> SUFFICES ASSUME NEW i \in DOMAIN Newest(items)
                 PROVE  /\ i \in Nat
                        /\ \/ i + k = Len(window[w].items) + 1 /\ Newest(items)[i] = s
                           \/ i + k \in DOMAIN window[w].items /\ Newest(items)[i] = window[w].items[i + k]
      BY <2>5
    <3>1. i \in Nat /\ i + k \in DOMAIN items /\ Newest(items)[i] = items[i + k]
      BY <2>6
    <3> QED
      BY <2>7, <3>1
  <2> QED
    BY <1>b, <2>1, <2>5, <2>8
<1> QED
  BY <1>2, <1>3, <1>4, Names

\* An item stays where it is alone, because its receipt went with it.
LEMMA EachItemOnceNext ==
  ASSUME Invariant, Placed, EachItemOnce, [Next]_vars
  PROVE  Placed' /\ EachItemOnce'
<1>1. Shapes /\ Receipts
  BY DEF Invariant
<1>2. \A w \in Windows : \A i \in DOMAIN window[w].items : window[w].items[i] \in Sources
  <2>1. \A w \in Windows : window[w].items \in Seq(Batched)
    BY <1>1 DEF Shapes, TypeOK, WindowType
  <2> QED
    BY <2>1, ConstantsAssumption
<1>3. CASE \A w \in Windows : window'[w].items = window[w].items
  BY <1>1, <1>2, <1>3, ItemsStep DEF Placed, EachItemOnce
<1>4. ASSUME NEW p \in Senders, CommitSend(p), NEW w \in Windows, NEW k \in Nat,
             \A x \in Windows : x # w => window'[x].items = window[x].items,
             \/ DOMAIN window'[w].items = {1} /\ window'[w].items[1] = send[p].source
             \/ \A i \in DOMAIN window'[w].items :
                  /\ i \in Nat
                  /\ \/ i + k = Len(window[w].items) + 1 /\ window'[w].items[i] = send[p].source
                     \/ i + k \in DOMAIN window[w].items /\ window'[w].items[i] = window[w].items[i + k]
      PROVE  Placed' /\ EachItemOnce'
  <2>1. PICK s : s = send[p].source
    OBVIOUS
  <2>2. /\ s \in Sources /\ receipt[s] = "none"
        /\ receipt' = [receipt EXCEPT ![s] = "completed"] /\ receipt \in [Sources -> {"none", "completed"}]
    BY <1>1, <1>4, <2>1 DEF CommitSend, InSendTx, Receipts, Shapes, SenderShape, TypeOK
  <2>3. \A x \in Windows : \A i \in DOMAIN window[x].items : window[x].items[i] # s
    BY <2>2 DEF Placed
  <2>4. \A x \in Windows : \A i \in DOMAIN window'[x].items :
          \/ x = w /\ window'[x].items[i] = s
          \/ \E j \in DOMAIN window[x].items : window'[x].items[i] = window[x].items[j]
    BY <1>4, <2>1
  <2>5. Placed'
    BY <1>2, <2>2, <2>4 DEF Placed
  <2>6. ASSUME NEW i \in DOMAIN window'[w].items, NEW j \in DOMAIN window'[w].items,
               window'[w].items[i] = window'[w].items[j]
        PROVE  i = j
    <3>1. CASE DOMAIN window'[w].items = {1}
      BY <3>1
    <3>2. CASE \A h \in DOMAIN window'[w].items :
                 /\ h \in Nat
                 /\ \/ h + k = Len(window[w].items) + 1 /\ window'[w].items[h] = s
                    \/ h + k \in DOMAIN window[w].items /\ window'[w].items[h] = window[w].items[h + k]
      <4>1. i + k = j + k
        BY <2>3, <2>6, <3>2 DEF EachItemOnce
      <4> QED
        BY <3>2, <4>1
    <3> QED
      BY <1>4, <2>1, <3>1, <3>2
  <2>7. EachItemOnce'
    <3> SUFFICES ASSUME NEW x \in Windows, NEW y \in Windows,
                        NEW i \in DOMAIN window'[x].items, NEW j \in DOMAIN window'[y].items,
                        window'[x].items[i] = window'[y].items[j]
                 PROVE  x = y /\ i = j
      BY DEF EachItemOnce
    <3>1. x = y
      BY <1>4, <2>3, <2>4 DEF EachItemOnce
    <3>2. x # w => i = j
      BY <1>4, <3>1 DEF EachItemOnce
    <3> QED
      BY <2>6, <3>1, <3>2
  <2> QED
    BY <2>5, <2>7
<1> QED
  BY <1>1, <1>3, <1>4, ItemsStep, CommitItems

\* An event is in one window once, however often its sender runs (EachItemOnce).
THEOREM EachItemOnceHolds == Spec => []EachItemOnce
<1>1. Init => Placed /\ EachItemOnce
  BY DEF Init, Placed, EachItemOnce, NoWindow
<1>2. Invariant /\ Placed /\ EachItemOnce /\ [Next]_vars => Placed' /\ EachItemOnce'
  BY EachItemOnceNext
<1> QED
  BY <1>1, <1>2, InvariantHolds, PTL DEF Spec
=============================================================================
