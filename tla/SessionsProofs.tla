--------------------------- MODULE SessionsProofs ---------------------------
(***************************************************************************)
(* Sessions, proved for any number of devices, requests and revocations,   *)
(* any cap and any number of faults.                                       *)
(*                                                                         *)
(* The invariant IInv is TypeOK and Safe, whose conjuncts say: Ledger,     *)
(* that a token carries its session's version; Chains, that the used keys  *)
(* and the head in Redis are determined by which token is the newest;      *)
(* Holders, that a device's lock, its cookie and the request it waits for  *)
(* agree; Deliveries, that a token on its way to a device is not yet used; *)
(* Answers, that a used token still in somebody's hands is one whose       *)
(* answer got lost or is about to arrive.  Each group of actions has a     *)
(* lemma that says it keeps Safe.                                          *)
(*                                                                         *)
(* The last section proves that Sessions implements SessionKeys.  With     *)
(* IInv and Past, which tokens work depends on the histories, on live,     *)
(* revoked and the account's version only (WorkingFacts); by what it does  *)
(* to those a step opens, rotates, bumps the version or is Quiet.          *)
(***************************************************************************)
EXTENDS Sessions, SequenceTheorems, TLAPS

USE DEF Sids, Jtis, LoginAt, RefreshAt, RevocationAt

\* Appending to a sequence keeps its elements and adds one index.
LEMMA AppendFacts ==
  ASSUME NEW S, NEW q \in Seq(S), NEW x \in S
  PROVE  /\ Append(q, x) \in Seq(S)
         /\ Len(Append(q, x)) = Len(q) + 1
         /\ DOMAIN q = 1..Len(q)
         /\ Len(q) \in Nat
         /\ DOMAIN Append(q, x) = 1..(Len(q) + 1)
         /\ \A i \in DOMAIN q : Append(q, x)[i] = q[i]
         /\ Append(q, x)[Len(q) + 1] = x
BY AppendProperties, LenProperties

-----------------------------------------------------------------------------
(* Types. *)

\* Every token a device, a sign-in or a refresh holds has been signed.
Presented ==
  /\ \A r \in Requests : refresh[r].pc # "idle" => refresh[r].token \in DOMAIN signed
  /\ \A r \in Requests : refresh[r].pc = "rotated" => refresh[r].new \in DOMAIN signed
  /\ \A r \in Requests : refresh[r].pc = "idle" => refresh[r].device = None
  /\ \A d \in Devices : cookie[d] # 0 => cookie[d] \in DOMAIN signed
  /\ \A d \in Devices : login[d].pc = "created" => login[d].token \in DOMAIN signed

\* What is in the histories.
LEMMA HistoryFacts ==
  ASSUME TypeOK
  PROVE  /\ DOMAIN signed = 1..Len(signed) /\ Len(signed) \in Nat /\ DOMAIN signed \subseteq Jtis
         /\ DOMAIN opened = 1..Len(opened) /\ Len(opened) \in Nat /\ DOMAIN opened \subseteq Sids
         /\ \A t \in DOMAIN signed : signed[t] \in SignedType
         /\ \A t \in DOMAIN signed : signed[t].sid \in Sids /\ signed[t].version \in Nat
         /\ \A s \in DOMAIN opened : opened[s] \in OpenedType
<1>1. signed \in Seq(SignedType) /\ opened \in Seq(OpenedType)
  BY DEF TypeOK
<1>2. signed \in [1..Len(signed) -> SignedType] /\ opened \in [1..Len(opened) -> OpenedType]
  BY <1>1, LenProperties
<1>3. Len(signed) \in Nat /\ Len(opened) \in Nat
  BY <1>1, LenProperties
<1> QED BY <1>2, <1>3, ConstantsAssumption DEF TypeOK, SignedType

\* The initial state has the types.
LEMMA InitTypeOK == Init => TypeOK
<1> USE ConstantsAssumption DEF Init, TypeOK
<1> SUFFICES ASSUME Init PROVE TypeOK
  OBVIOUS
<1>1. user \in UserType
  BY DEF UserType
<1>2. opened \in Seq(OpenedType) /\ Len(opened) <= MaxSessions
  OBVIOUS
<1>3. signed \in Seq(SignedType) /\ Len(signed) <= MaxTokens
  OBVIOUS
<1>4. login \in [Devices -> LoginType] /\ refresh \in [Requests -> RefreshType]
      /\ revocation \in [Revokers -> RevocationType]
  BY DEF LoginType, LoginPcs, IdleLogin, RefreshType, RefreshPcs, IdleRefresh,
         RevocationType, IdleRevocation
<1> QED BY <1>1, <1>2, <1>3, <1>4

\* Signing in keeps the types.
LEMMA LoginTypeOK ==
  ASSUME TypeOK, NEW d \in Devices, LoginStep(d)
  PROVE  TypeOK'
<1> USE ConstantsAssumption DEF TypeOK, redis
<1>0. IdleLogin \in LoginType
  BY DEF IdleLogin, LoginType, LoginPcs
<1>1. CASE VerifyCredentials(d)
  <2>1. login' \in [Devices -> LoginType]
    BY <1>1 DEF VerifyCredentials, LoginType, LoginPcs, UserType
  <2> QED BY <2>1, <1>1 DEF VerifyCredentials
<1>2. CASE ReadAccount(d)
  <2>1. login' \in [Devices -> LoginType]
    BY <1>0, <1>2 DEF ReadAccount, LoginType, LoginPcs, UserType
  <2> QED BY <2>1, <1>2 DEF ReadAccount
<1>3. CASE VerifyEmail(d)
  <2>1. login' \in [Devices -> LoginType]
    BY <1>3 DEF VerifyEmail, LoginType, LoginPcs, UserType, IdleLogin
  <2>2. user' \in UserType
    BY <1>3 DEF VerifyEmail, UserType
  <2> QED BY <2>1, <2>2, <1>3 DEF VerifyEmail
<1>4. CASE OpenSession(d)
  <2> DEFINE s == Len(opened) + 1
             o == [device |-> d, version |-> login[d].version, password |-> login[d].password]
             t == [sid |-> s, version |-> login[d].version]
  <2>1. s \in Sids /\ Len(signed) + 1 \in Jtis
    BY <1>4, LenProperties DEF OpenSession
  <2>2. o \in OpenedType /\ t \in SignedType
    BY <2>1 DEF OpenedType, SignedType, LoginType
  <2>3. opened' \in Seq(OpenedType) /\ Len(opened') <= MaxSessions
    BY <1>4, <2>2, AppendFacts DEF OpenSession
  <2>4. signed' \in Seq(SignedType) /\ Len(signed') <= MaxTokens
    BY <1>4, <2>1, <2>2, AppendFacts DEF OpenSession
  <2>5. login' \in [Devices -> LoginType]
    BY <1>4, <2>1 DEF OpenSession, LoginType, LoginPcs
  <2>6. live' \subseteq Sids /\ index' \subseteq Sids
    BY <1>4, <2>1 DEF OpenSession
  <2> QED BY <2>3, <2>4, <2>5, <2>6, <1>4 DEF OpenSession
<1>5. CASE AnswerLogin(d)
  BY <1>0, <1>5 DEF AnswerLogin, LoginType
<1>6. CASE AbortLogin(d)
  BY <1>0, <1>6 DEF AbortLogin
<1> QED BY <1>1, <1>2, <1>3, <1>4, <1>5, <1>6 DEF LoginStep

\* Going to another step of a refresh keeps its type.
LEMMA GotoType ==
  ASSUME TypeOK, NEW r \in Requests, NEW pc \in RefreshPcs, Goto(r, pc)
  PROVE  refresh' \in [Requests -> RefreshType]
BY DEF TypeOK, Goto, RefreshType

\* A request that leaves frees locks and takes none.
LEMMA LeaveType ==
  ASSUME TypeOK, NEW r \in Requests, Leave(r)
  PROVE  lock' \in [Devices -> Requests \union {None}]
BY DEF TypeOK, Leave

\* A counted fault stays within the bound.
LEMMA FaultType ==
  ASSUME TypeOK, NEW kind, Fault(kind)
  PROVE  faults' \in 0..MaxFaults
BY ConstantsAssumption DEF TypeOK, Fault

\* Refreshing keeps the types.
LEMMA RefreshTypeOK ==
  ASSUME TypeOK, Presented, NEW r \in Requests, RefreshStep(r)
  PROVE  TypeOK'
<1> USE ConstantsAssumption DEF TypeOK, redis
<1>0. IdleRefresh \in RefreshType
  BY DEF IdleRefresh, RefreshType, RefreshPcs
<1>1. ASSUME NEW d \in Devices, StartRefresh(r, d) PROVE TypeOK'
  <2>1. refresh' \in [Requests -> RefreshType]
    BY <1>1 DEF StartRefresh, RefreshType, RefreshPcs, IdleRefresh
  <2> QED BY <2>1, <1>1 DEF StartRefresh
<1>2. CASE LoadSession(r)
  BY <1>2, GotoType DEF LoadSession, RefreshPcs, Goto
<1>3. CASE CheckVersion(r)
  <2>1. refresh' \in [Requests -> RefreshType]
    BY <1>3 DEF CheckVersion, RefreshType, RefreshPcs, UserType
  <2> QED BY <2>1, <1>3 DEF CheckVersion
<1>5. CASE RefuseRotation(r)
  BY <1>5, GotoType DEF RefuseRotation, RefreshPcs, Goto
<1>6. CASE FindSession(r)
  BY <1>6, GotoType DEF FindSession, RefreshPcs, Goto
<1>7. CASE DeleteSession(r)
  BY <1>7, GotoType DEF DeleteSession, RefreshPcs, Goto
<1>8. CASE UnlistSession(r)
  BY <1>8, GotoType DEF UnlistSession, RefreshPcs, Goto
<1>10. CASE RefreshWithoutRedis(r)
  BY <1>10, GotoType, FaultType DEF RefreshWithoutRedis, RefreshPcs, Goto
<1>11. CASE Answer(r)
  <2>1. cookie' \in [Devices -> 0..MaxTokens]
    BY <1>11 DEF Answer, RefreshType
  <2>2. lock' \in [Devices -> Requests \union {None}]
    BY <1>11, LeaveType DEF Answer
  <2>3. refresh' \in [Requests -> RefreshType]
    BY <1>0, <1>11 DEF Answer
  <2> QED BY <2>1, <2>2, <2>3, <1>11 DEF Answer
<1>4. CASE Rotate(r)
  <2> DEFINE x == [sid |-> Sid(r), version |-> refresh[r].version]
  <2>1. refresh[r].token \in DOMAIN signed /\ Len(signed) + 1 \in Jtis /\ refresh[r].token \in Jtis
    BY <1>4, LenProperties DEF Rotate, Presented
  <2>7. Sid(r) \in Sids
    BY <2>1, HistoryFacts DEF Sid
  <2>2. x \in SignedType
    BY <2>7 DEF SignedType, RefreshType
  <2>3. signed' \in Seq(SignedType) /\ Len(signed') <= MaxTokens
    BY <1>4, <2>1, <2>2, AppendFacts DEF Rotate
  <2>4. refresh' \in [Requests -> RefreshType]
    BY <1>4, <2>1 DEF Rotate, RefreshType, RefreshPcs
  <2>5. head' \in [Sids -> 0..MaxTokens]
    BY <1>4, <2>1, <2>7 DEF Rotate, NewHead
  <2>6. used' \subseteq Jtis
    BY <1>4, <2>1 DEF Rotate
  <2> QED BY <2>3, <2>4, <2>5, <2>6, <1>4 DEF Rotate
<1>9. CASE MarkRevoked(r)
  <2>1. Sid(r) \in Sids
    BY <1>9, HistoryFacts DEF MarkRevoked, Presented, Sid
  <2> QED BY <1>9, <2>1, GotoType DEF MarkRevoked, RefreshPcs, Goto
<1>12. CASE TimeoutRefresh(r)
  <2>1. refresh' \in [Requests -> RefreshType]
    BY <1>12 DEF TimeoutRefresh, RefreshType
  <2>2. lock' \in [Devices -> Requests \union {None}] /\ faults' \in 0..MaxFaults
    BY <1>12, LeaveType, FaultType DEF TimeoutRefresh
  <2>3. refresh[r].token \in Jtis
    BY <1>12, LenProperties DEF TimeoutRefresh, Presented
  <2> QED BY <2>1, <2>2, <2>3, <1>12 DEF TimeoutRefresh
<1>13. CASE CrashRefresh(r)
  <2>1. refresh' \in [Requests -> RefreshType]
    BY <1>0, <1>13 DEF CrashRefresh
  <2>2. lock' \in [Devices -> Requests \union {None}] /\ faults' \in 0..MaxFaults
    BY <1>13, LeaveType, FaultType DEF CrashRefresh
  <2>3. refresh[r].token \in Jtis
    BY <1>13, LenProperties DEF CrashRefresh, Presented
  <2> QED BY <2>1, <2>2, <2>3, <1>13 DEF CrashRefresh
<1> QED BY <1>1, <1>2, <1>3, <1>4, <1>5, <1>6, <1>7, <1>8, <1>9, <1>10, <1>11, <1>12, <1>13
        DEF RefreshStep

\* Moving on in a revocation keeps its type.
LEMMA AdvanceType ==
  ASSUME TypeOK, NEW v \in Revokers, NEW pc \in {"idle", "bumped", "listed", "killed", "done"},
         NEW sids \in SUBSET Sids, Advance(v, pc, sids)
  PROVE  revocation' \in [Revokers -> RevocationType]
BY DEF TypeOK, Advance, RevocationType

\* Revoking keeps the types.
LEMMA RevocationTypeOK ==
  ASSUME TypeOK, NEW v \in Revokers, RevocationStep(v)
  PROVE  TypeOK'
<1> USE ConstantsAssumption DEF TypeOK, redis
<1>0. IdleRevocation \in RevocationType
  BY DEF IdleRevocation, RevocationType
<1>1. ASSUME NEW d \in Devices, Logout(v, d) PROVE TypeOK'
  <2>1. revocation' \in [Revokers -> RevocationType]
    BY <1>1 DEF Logout, RevocationType
  <2>2. user' \in UserType
    <3>1. user' = [version |-> user.version + 1, password |-> user.password, link |-> user.link]
      BY <1>1 DEF Logout, UserType
    <3> QED BY <3>1 DEF UserType
  <2> QED BY <2>1, <2>2, <1>1 DEF Logout
<1>2. CASE ResetPassword(v)
  <2>1. revocation' \in [Revokers -> RevocationType]
    BY <1>2 DEF ResetPassword, RevocationType
  <2>2. user' \in UserType
    <3>1. user' = [version |-> user.version + 1, password |-> user.password + 1, link |-> user.link]
      BY <1>2 DEF ResetPassword, UserType
    <3> QED BY <3>1 DEF UserType
  <2> QED BY <2>1, <2>2, <1>2 DEF ResetPassword
<1>3. CASE ListSessions(v)
  BY <1>3, AdvanceType DEF ListSessions, Advance
<1>4. CASE ListWithoutRedis(v)
  <2>1. faults' \in 0..MaxFaults
    BY <1>4, FaultType DEF ListWithoutRedis
  <2>2. revocation' \in [Revokers -> RevocationType]
    BY <1>4, AdvanceType DEF ListWithoutRedis
  <2> QED BY <2>1, <2>2, <1>4 DEF ListWithoutRedis, Advance
<1>5. CASE KillSessions(v)
  <2>1. revocation' \in [Revokers -> RevocationType]
    BY <1>5, AdvanceType DEF KillSessions
  <2>2. revocation[v].sids \subseteq Sids
    BY DEF RevocationType
  <2> QED BY <2>1, <2>2, <1>5 DEF KillSessions, Advance
<1>6. CASE DropIndex(v)
  <2>1. revocation' \in [Revokers -> RevocationType]
    BY <1>6, AdvanceType DEF DropIndex
  <2> QED BY <2>1, <1>6 DEF DropIndex, Advance
<1>7. CASE AnswerRevocation(v)
  BY <1>0, <1>7 DEF AnswerRevocation
<1>8. CASE CrashRevocation(v)
  BY <1>0, <1>8, FaultType DEF CrashRevocation
<1> QED BY <1>1, <1>2, <1>3, <1>4, <1>5, <1>6, <1>7, <1>8 DEF RevocationStep

\* Every step keeps the types.
LEMMA TypeStep ==
  ASSUME TypeOK, Presented, [Next]_vars
  PROVE  TypeOK'
<1>1. ASSUME NEW s \in Sids, ExpireSession(s) PROVE TypeOK'
  BY <1>1 DEF ExpireSession, TypeOK
<1>2. CASE UNCHANGED vars
  BY <1>2 DEF vars, TypeOK
<1> QED BY <1>1, <1>2, LoginTypeOK, RefreshTypeOK, RevocationTypeOK DEF Next
-----------------------------------------------------------------------------
(* The invariant. *)

\* A token carries the version its session was opened with.
Ledger ==
  /\ live \subseteq DOMAIN opened
  /\ \A t \in DOMAIN signed :
       /\ signed[t].sid \in DOMAIN opened
       /\ signed[t].version = opened[signed[t].sid].version
  /\ \A r \in Requests :
       refresh[r].pc = "checked" => refresh[r].version = signed[refresh[r].token].version

\* Of a session's tokens all but the newest are used, and none but the newest is
\* the head of the chain.
Chains ==
  /\ used \subseteq DOMAIN signed
  /\ \A s \in Sids \ DOMAIN opened : head[s] = 0
  /\ \A t \in DOMAIN signed : t \in used <=> ~Newest(t)
  /\ \A t \in DOMAIN signed : Newest(t) => head[signed[t].sid] \in {0, t}

Owner(t) == opened[signed[t].sid].device
Waited(r) == refresh[r].device # None

\* A device holds its lock for the request it waits for, and only handles tokens
\* of the sessions it opened.
Holders ==
  /\ \A d \in Devices, r \in Requests : lock[d] = r <=> refresh[r].device = d
  /\ \A d \in Devices : cookie[d] # 0 => Owner(cookie[d]) = d
  /\ \A d \in Devices : login[d].pc = "created" => Owner(login[d].token) = d
  /\ \A r \in Requests : Waited(r) => Owner(refresh[r].token) = refresh[r].device
  /\ \A r \in Requests :
       refresh[r].pc = "rotated" => signed[refresh[r].new].sid = signed[refresh[r].token].sid

\* Nobody has presented the token, and no device has it.
Pristine(t) ==
  /\ t \notin used
  /\ \A d \in Devices : cookie[d] # t
  /\ \A r \in Requests : refresh[r].pc # "idle" => refresh[r].token # t

\* A token on its way to a device is pristine, and on its way once.
Deliveries ==
  /\ \A d \in Devices : login[d].pc = "created" => Pristine(login[d].token)
  /\ \A r \in Requests :
       Waited(r) /\ refresh[r].pc = "rotated" => Pristine(refresh[r].new)
  /\ \A d \in Devices, r \in Requests :
       login[d].pc = "created" /\ Waited(r) /\ refresh[r].pc = "rotated"
         => login[d].token # refresh[r].new

ReusePcs == {"reused", "found", "deleted", "unlisted"}

\* A used token that a device still holds or presents is one whose answer is
\* lost, or about to arrive.
Answers ==
  /\ \A r \in Requests : refresh[r].pc # "idle" /\ ~Waited(r) => refresh[r].token \in lost
  /\ \A d \in Devices : cookie[d] \in used =>
       \/ cookie[d] \in lost
       \/ \E r \in Requests :
            lock[d] = r /\ refresh[r].pc = "rotated" /\ refresh[r].token = cookie[d]
  /\ \A r \in Requests :
       /\ Waited(r)
       /\ refresh[r].pc \notin {"rotated", "invalid"}
       /\ refresh[r].token \in used
       => refresh[r].token \in lost
  /\ ReuseOnlyAfterLostAnswer

Safe == Presented /\ Ledger /\ Chains /\ Holders /\ Deliveries /\ Answers

IInv == TypeOK /\ Safe

-----------------------------------------------------------------------------
(* Steps that only move one process on. *)

\* The history of sessions and tokens is as it was.
SameChains == UNCHANGED <<opened, signed, head, used>>

\* Without new tokens the chains and what is recorded of sessions stay.
LEMMA ChainsStay ==
  ASSUME TypeOK, Ledger, Chains, SameChains, live' \subseteq live
  PROVE  /\ Chains'
         /\ live' \subseteq DOMAIN opened'
         /\ \A t \in DOMAIN signed' :
              /\ signed'[t].sid \in DOMAIN opened'
              /\ signed'[t].version = opened'[signed'[t].sid].version
         /\ \A t : Owner(t)' = Owner(t)
<1>1. \A t : Newest(t)' <=> Newest(t)
  BY DEF SameChains, Newest
<1>2. Chains'
  BY <1>1 DEF SameChains, Chains
<1> QED BY <1>2 DEF SameChains, Ledger, Owner

\* Steps of revocations, the expiry of a session and the rest that leaves sign-ins,
\* requests and locks alone, and at most takes cookies away.
LEMMA SideStep ==
  ASSUME TypeOK, Safe, SameChains, live' \subseteq live,
         UNCHANGED <<lock, login, refresh, lost>>,
         \A d \in Devices : cookie'[d] \in {cookie[d], 0}
  PROVE  Safe'
<1> USE DEF Safe
<1>1. Presented'
  BY DEF SameChains, Presented
<1>2. Ledger'
  BY ChainsStay DEF SameChains, Ledger
<1>3. Chains'
  BY ChainsStay
<1>4. Holders'
  BY ChainsStay DEF SameChains, Holders, Waited
<1>5. 0 \notin DOMAIN signed /\ 0 \notin used
  BY HistoryFacts DEF Chains
<1>6. \A t \in DOMAIN signed : Pristine(t) => Pristine(t)'
  BY <1>5 DEF SameChains, Pristine
<1>7. Deliveries'
  BY <1>6 DEF SameChains, Deliveries, Presented, Waited
<1>8. Answers'
  BY <1>5 DEF SameChains, Answers, Waited, ReuseOnlyAfterLostAnswer
<1> QED BY <1>1, <1>2, <1>3, <1>4, <1>7, <1>8

\* Steps of a sign-in before it has a session, or that give it up.
LEMMA LoginMove ==
  ASSUME TypeOK, Safe, SameChains, NEW d \in Devices,
         UNCHANGED <<live, cookie, lock, refresh, lost>>,
         login'[d].pc # "created",
         \A e \in Devices \ {d} : login'[e] = login[e]
  PROVE  Safe'
<1> USE DEF Safe
<1>1. Presented'
  BY DEF SameChains, Presented
<1>2. Ledger'
  BY ChainsStay DEF SameChains, Ledger
<1>3. Chains'
  BY ChainsStay
<1>4. Holders'
  BY ChainsStay DEF SameChains, Holders, Waited
<1>6. \A t : Pristine(t) => Pristine(t)'
  BY DEF SameChains, Pristine
<1>7. Deliveries'
  BY <1>6 DEF SameChains, Deliveries, Waited
<1>8. Answers'
  BY DEF SameChains, Answers, Waited, ReuseOnlyAfterLostAnswer
<1> QED BY <1>1, <1>2, <1>3, <1>4, <1>7, <1>8

\* Steps of a refresh between its start and its answer that rotate nothing.
LEMMA RefreshMove ==
  ASSUME TypeOK, Safe, SameChains, live' \subseteq live,
         UNCHANGED <<cookie, lock, login, lost>>,
         NEW r \in Requests, NEW pc, NEW version, NEW new,
         refresh[r].pc \notin {"idle", "rotated"},
         refresh' = [refresh EXCEPT ![r] =
           RefreshAt(pc, refresh[r].device, refresh[r].token, version, new)],
         pc \notin {"idle", "rotated"},
         pc = "checked" => version = signed[refresh[r].token].version,
         refresh[r].pc = "invalid" => pc = "invalid",
         pc \in ReusePcs => refresh[r].token \in lost
  PROVE  Safe'
<1> USE DEF Safe
<1>0. /\ refresh'[r].pc = pc /\ refresh'[r].version = version
      /\ \A q \in Requests : refresh'[q].device = refresh[q].device
                             /\ refresh'[q].token = refresh[q].token
      /\ \A q \in Requests \ {r} : refresh'[q] = refresh[q]
  BY DEF TypeOK
<1>1. Presented'
  BY <1>0 DEF SameChains, Presented
<1>2. Ledger'
  BY <1>0, ChainsStay DEF SameChains, Ledger
<1>3. Chains'
  BY ChainsStay
<1>4. Holders'
  BY <1>0, ChainsStay DEF SameChains, Holders, Waited
<1>6. \A t : Pristine(t) => Pristine(t)'
  BY <1>0 DEF SameChains, Pristine
<1>7. Deliveries'
  BY <1>0, <1>6 DEF SameChains, Deliveries, Waited
<1>8. Answers'
  <2>1. \A q \in Requests : refresh'[q].pc # "idle" /\ ~Waited(q)' => refresh'[q].token \in lost'
    BY <1>0 DEF Answers, Waited
  <2>2. \A d \in Devices : cookie'[d] \in used' =>
         \/ cookie'[d] \in lost'
         \/ \E q \in Requests :
              lock'[d] = q /\ refresh'[q].pc = "rotated" /\ refresh'[q].token = cookie'[d]
    BY <1>0 DEF Answers, SameChains
  <2>3. \A q \in Requests :
         Waited(q)' /\ refresh'[q].pc \notin {"rotated", "invalid"} /\ refresh'[q].token \in used'
           => refresh'[q].token \in lost'
    BY <1>0 DEF Answers, SameChains, Waited, Presented
  <2>4. ReuseOnlyAfterLostAnswer'
    BY <1>0 DEF Answers, ReuseOnlyAfterLostAnswer, ReusePcs
  <2> QED BY <2>1, <2>2, <2>3, <2>4 DEF Answers
<1> QED BY <1>1, <1>2, <1>3, <1>4, <1>7, <1>8

-----------------------------------------------------------------------------
(* Steps that hand a token over, or give up waiting for one. *)

\* A sign-in is answered.
LEMMA AnswerLoginSafe ==
  ASSUME TypeOK, Safe, NEW d \in Devices, AnswerLogin(d)
  PROVE  Safe'
<1> USE DEF Safe
<1> DEFINE t == login[d].token
<1>0. /\ SameChains /\ live' = live /\ lock' = lock /\ refresh' = refresh /\ lost' = lost
      /\ login[d].pc = "created" /\ login'[d].pc = "idle" /\ cookie'[d] = t
      /\ \A e \in Devices \ {d} : login'[e] = login[e] /\ cookie'[e] = cookie[e]
  BY DEF AnswerLogin, SameChains, redis, TypeOK, IdleLogin
<1>00. t \in DOMAIN signed /\ Pristine(t) /\ Owner(t) = d
  BY <1>0 DEF Presented, Deliveries, Holders
<1>1. Presented'
  BY <1>0, <1>00 DEF SameChains, Presented
<1>2. Ledger'
  BY <1>0, ChainsStay DEF SameChains, Ledger
<1>3. Chains'
  BY <1>0, ChainsStay
<1>4. Holders'
  BY <1>0, <1>00, ChainsStay DEF SameChains, Holders, Waited
<1>6. \A u : Pristine(u) /\ u # t => Pristine(u)'
  BY <1>0 DEF SameChains, Pristine
<1>7. Deliveries'
  <2>1. \A e \in Devices \ {d} : login[e].pc = "created" => login[e].token # t
    BY <1>0, <1>00 DEF Holders
  <2>2. \A r \in Requests : Waited(r) /\ refresh[r].pc = "rotated" => refresh[r].new # t
    BY <1>0 DEF Deliveries
  <2> QED BY <1>0, <1>6, <2>1, <2>2 DEF Deliveries, Waited
<1>8. Answers'
  BY <1>0, <1>00 DEF SameChains, Answers, Waited, ReuseOnlyAfterLostAnswer, Pristine
<1> QED BY <1>1, <1>2, <1>3, <1>4, <1>7, <1>8

\* A device presents its cookie.
LEMMA StartRefreshSafe ==
  ASSUME TypeOK, Safe, NEW r \in Requests, NEW d \in Devices, StartRefresh(r, d)
  PROVE  Safe'
<1> USE DEF Safe
<1> DEFINE t == cookie[d]
<1>0. /\ SameChains /\ live' = live /\ cookie' = cookie /\ login' = login /\ lost' = lost
      /\ refresh[r].pc = "idle" /\ lock[d] = None /\ t # 0 /\ lock'[d] = r
      /\ refresh'[r] = RefreshAt("received", d, t, 0, 0)
      /\ \A q \in Requests \ {r} : refresh'[q] = refresh[q]
      /\ \A e \in Devices \ {d} : lock'[e] = lock[e]
  BY DEF StartRefresh, SameChains, redis, TypeOK
<1>00. t \in DOMAIN signed /\ Owner(t) = d /\ d # None /\ r # None /\ refresh[r].device = None
  BY <1>0, ConstantsAssumption DEF Presented, Holders
<1>1. Presented'
  BY <1>0, <1>00 DEF SameChains, Presented
<1>2. Ledger'
  BY <1>0, ChainsStay DEF SameChains, Ledger
<1>3. Chains'
  BY <1>0, ChainsStay
<1>4. Holders'
  <2>1. \A e \in Devices, q \in Requests : lock'[e] = q <=> refresh'[q].device = e
    BY <1>0, <1>00, ConstantsAssumption DEF Holders
  <2> QED BY <1>0, <1>00, <2>1, ChainsStay DEF SameChains, Holders, Waited
<1>6. \A u : Pristine(u) => Pristine(u)'
  BY <1>0 DEF SameChains, Pristine
<1>7. Deliveries'
  BY <1>0, <1>6 DEF Deliveries, Waited
<1>8. Answers'
  <2>1. \A e \in Devices : cookie'[e] \in used' =>
         \/ cookie'[e] \in lost'
         \/ \E q \in Requests :
              lock'[e] = q /\ refresh'[q].pc = "rotated" /\ refresh'[q].token = cookie'[e]
    <3> SUFFICES ASSUME NEW e \in Devices, cookie[e] \in used, cookie[e] \notin lost
                 PROVE  \E q \in Requests :
                   lock'[e] = q /\ refresh'[q].pc = "rotated" /\ refresh'[q].token = cookie[e]
      BY <1>0 DEF SameChains
    <3>1. PICK q \in Requests : lock[e] = q /\ refresh[q].pc = "rotated" /\ refresh[q].token = cookie[e]
      BY DEF Answers
    <3>2. q # r /\ e # d
      BY <3>1, <1>0, ConstantsAssumption
    <3> QED BY <3>1, <3>2, <1>0
  <2>2. t \in used => t \in lost
    BY <1>0, ConstantsAssumption DEF Answers
  <2> QED BY <1>0, <1>00, <2>1, <2>2 DEF SameChains, Answers, Waited, ReuseOnlyAfterLostAnswer
<1> QED BY <1>1, <1>2, <1>3, <1>4, <1>7, <1>8

\* Who leaves gives back the lock of the device that waited, and no other.
LEMMA LeaveFacts ==
  ASSUME TypeOK, Holders, NEW r \in Requests, Leave(r)
  PROVE  /\ \A d \in Devices : lock'[d] # r
         /\ \A d \in Devices, q \in Requests \ {r} : lock'[d] = q <=> refresh[q].device = d
BY ConstantsAssumption DEF TypeOK, Holders, Leave

\* A device stops waiting for an answer, or the request dies.
LEMMA GiveUpSafe ==
  ASSUME TypeOK, Safe, NEW r \in Requests, TimeoutRefresh(r) \/ CrashRefresh(r)
  PROVE  Safe'
<1> USE DEF Safe
<1> DEFINE t == refresh[r].token
<1>0. /\ SameChains /\ live' = live /\ cookie' = cookie /\ login' = login
      /\ lost' = lost \union {t} /\ refresh'[r].device = None /\ Leave(r)
      /\ \/ refresh'[r].pc = "idle"
         \/ /\ refresh'[r].pc = refresh[r].pc /\ refresh'[r].token = t
            /\ refresh'[r].version = refresh[r].version /\ refresh'[r].new = refresh[r].new
      /\ \A q \in Requests \ {r} : refresh'[q] = refresh[q]
  BY DEF TimeoutRefresh, CrashRefresh, SameChains, redis, TypeOK, IdleRefresh
<1>1. Presented'
  BY <1>0 DEF SameChains, Presented
<1>2. Ledger'
  BY <1>0, ChainsStay DEF SameChains, Ledger
<1>3. Chains'
  BY <1>0, ChainsStay
<1>4. Holders'
  <2>1. \A e \in Devices, q \in Requests : lock'[e] = q <=> refresh'[q].device = e
    BY <1>0, LeaveFacts, ConstantsAssumption
  <2> QED BY <1>0, <2>1, ChainsStay DEF SameChains, Holders, Waited
<1>6. \A u : Pristine(u) => Pristine(u)'
  BY <1>0 DEF SameChains, Pristine
<1>7. Deliveries'
  BY <1>0, <1>6 DEF Deliveries, Waited
<1>8. Answers'
  <2>1. \A e \in Devices : cookie'[e] \in used' =>
         \/ cookie'[e] \in lost'
         \/ \E q \in Requests :
              lock'[e] = q /\ refresh'[q].pc = "rotated" /\ refresh'[q].token = cookie'[e]
    <3> SUFFICES ASSUME NEW e \in Devices, cookie[e] \in used, cookie[e] \notin lost, cookie[e] # t
                 PROVE  \E q \in Requests :
                   lock'[e] = q /\ refresh'[q].pc = "rotated" /\ refresh'[q].token = cookie[e]
      BY <1>0 DEF SameChains
    <3>1. PICK q \in Requests : lock[e] = q /\ refresh[q].pc = "rotated" /\ refresh[q].token = cookie[e]
      BY DEF Answers
    <3>2. q # r /\ refresh[q].device = e
      BY <3>1 DEF Holders
    <3> QED BY <3>1, <3>2, <1>0, LeaveFacts
  <2>2. ReuseOnlyAfterLostAnswer'
    BY <1>0 DEF Answers, ReuseOnlyAfterLostAnswer
  <2>3. \A q \in Requests : refresh'[q].pc # "idle" /\ ~Waited(q)' => refresh'[q].token \in lost'
    BY <1>0 DEF Answers, Waited
  <2>4. \A q \in Requests :
         Waited(q)' /\ refresh'[q].pc \notin {"rotated", "invalid"} /\ refresh'[q].token \in used'
           => refresh'[q].token \in lost'
    BY <1>0 DEF Answers, SameChains, Waited
  <2> QED BY <2>1, <2>2, <2>3, <2>4 DEF Answers
<1> QED BY <1>1, <1>2, <1>3, <1>4, <1>7, <1>8

\* A refresh is answered.
LEMMA AnswerSafe ==
  ASSUME TypeOK, Safe, NEW r \in Requests, Answer(r)
  PROVE  Safe'
<1> USE DEF Safe
<1> DEFINE d == refresh[r].device
           new == refresh[r].new
<1>0. /\ SameChains /\ live' = live /\ login' = login /\ lost' = lost
      /\ refresh[r].pc \in {"rotated", "invalid"}
      /\ refresh'[r].pc = "idle" /\ refresh'[r].device = None /\ Leave(r)
      /\ \A q \in Requests \ {r} : refresh'[q] = refresh[q]
  BY DEF Answer, SameChains, redis, TypeOK, IdleRefresh
<1>a. /\ d # None /\ refresh[r].pc = "rotated" => d \in Devices /\ cookie'[d] = new
      /\ d = None \/ refresh[r].pc = "invalid" => cookie' = cookie
      /\ \A e \in Devices : e # d => cookie'[e] = cookie[e]
  BY <1>0 DEF Answer, TypeOK, RefreshType
<1>b. d # None /\ refresh[r].pc = "rotated" =>
        new \in DOMAIN signed /\ Pristine(new) /\ Owner(new) = d
  BY <1>0 DEF Presented, Deliveries, Holders, Waited, Owner
<1>c. \A e \in Devices :
        \/ cookie'[e] = cookie[e] /\ (e = d => refresh[r].pc = "invalid")
        \/ e = d /\ d # None /\ refresh[r].pc = "rotated" /\ cookie'[e] = new
  BY <1>0, <1>a, ConstantsAssumption
<1>1. Presented'
  <2>1. \A e \in Devices : cookie'[e] # 0 => cookie'[e] \in DOMAIN signed
    BY <1>b, <1>c DEF Presented
  <2> QED BY <1>0, <2>1 DEF SameChains, Presented
<1>2. Ledger'
  BY <1>0, ChainsStay DEF SameChains, Ledger
<1>3. Chains'
  BY <1>0, ChainsStay
<1>4. Holders'
  <2>1. \A e \in Devices, q \in Requests : lock'[e] = q <=> refresh'[q].device = e
    BY <1>0, LeaveFacts, ConstantsAssumption
  <2>2. \A e \in Devices : cookie'[e] # 0 => Owner(cookie'[e]) = e
    BY <1>b, <1>c DEF Holders
  <2> QED BY <1>0, <2>1, <2>2, ChainsStay DEF SameChains, Holders, Waited
<1>6. \A u \in DOMAIN signed :
        Pristine(u) /\ (d # None /\ refresh[r].pc = "rotated" => u # new) => Pristine(u)'
  BY <1>0, <1>c DEF SameChains, Pristine
<1>7. Deliveries'
  <2>1. \A e \in Devices : login[e].pc = "created" =>
          \A u \in DOMAIN signed : u = login[e].token => Pristine(u)'
    BY <1>6 DEF Deliveries, Waited
  <2>2. \A q \in Requests \ {r} : Waited(q) /\ refresh[q].pc = "rotated" =>
          \A u \in DOMAIN signed : u = refresh[q].new => Pristine(u)'
    <3> SUFFICES ASSUME NEW q \in Requests \ {r}, Waited(q), refresh[q].pc = "rotated",
                        NEW u \in DOMAIN signed, u = refresh[q].new
                 PROVE  Pristine(u)'
      OBVIOUS
    <3>0. refresh[q].device \in Devices
      BY DEF TypeOK, RefreshType, Waited
    <3>1. Owner(refresh[q].new) = refresh[q].device
      BY DEF Waited, Holders, Owner
    <3>2. d # None => refresh[q].device # d
      BY <3>0 DEF Holders
    <3>3. d # None /\ refresh[r].pc = "rotated" => refresh[q].new # new
      BY <1>b, <3>1, <3>2
    <3> QED BY <3>3, <1>6 DEF Deliveries
  <2> QED BY <1>0, <2>1, <2>2 DEF Deliveries, Waited, Presented
<1>8. Answers'
  <2>1. \A e \in Devices : cookie'[e] \in used' =>
         \/ cookie'[e] \in lost'
         \/ \E q \in Requests :
              lock'[e] = q /\ refresh'[q].pc = "rotated" /\ refresh'[q].token = cookie'[e]
    <3> SUFFICES ASSUME NEW e \in Devices, cookie'[e] \in used, cookie'[e] \notin lost
                 PROVE  \E q \in Requests :
                   lock'[e] = q /\ refresh'[q].pc = "rotated" /\ refresh'[q].token = cookie'[e]
      BY <1>0 DEF SameChains
    <3>1. cookie'[e] = cookie[e] /\ (e = d => refresh[r].pc = "invalid")
      BY <1>b, <1>c DEF Pristine
    <3>2. PICK q \in Requests : lock[e] = q /\ refresh[q].pc = "rotated" /\ refresh[q].token = cookie[e]
      BY <3>1 DEF Answers
    <3>3. q # r /\ refresh[q].device = e
      BY <3>1, <3>2 DEF Holders
    <3> QED BY <3>1, <3>2, <3>3, <1>0, LeaveFacts
  <2> QED BY <1>0, <2>1 DEF SameChains, Answers, Waited, ReuseOnlyAfterLostAnswer
<1> QED BY <1>1, <1>2, <1>3, <1>4, <1>7, <1>8

-----------------------------------------------------------------------------
(* Steps that make a token. *)

\* A session is opened, with its first token.
LEMMA OpenSessionSafe ==
  ASSUME TypeOK, Safe, NEW d \in Devices, OpenSession(d)
  PROVE  Safe'
<1> USE DEF Safe
<1>n. PICK n \in Nat : n = Len(signed) + 1
  BY HistoryFacts
<1> DEFINE s == Len(opened) + 1
           o == [device |-> d, version |-> login[d].version, password |-> login[d].password]
           k == [sid |-> s, version |-> login[d].version]
<1>a. s \in Sids /\ n \in Jtis /\ o \in OpenedType /\ k \in SignedType
  <2>1. s \in Sids /\ n \in Jtis
    BY <1>n, ConstantsAssumption, HistoryFacts DEF OpenSession
  <2>2. login[d].version \in Nat /\ login[d].password \in Nat
    BY DEF TypeOK, LoginType
  <2> QED BY <2>1, <2>2 DEF OpenedType, SignedType
<1>b. opened \in Seq(OpenedType) /\ signed \in Seq(SignedType)
  BY DEF TypeOK
<1>c. opened' = Append(opened, o) /\ signed' = Append(signed, k)
  BY DEF OpenSession
<1>d. /\ DOMAIN opened' = DOMAIN opened \union {s} /\ s \notin DOMAIN opened /\ opened'[s] = o
      /\ \A i \in DOMAIN opened : opened'[i] = opened[i]
  BY <1>a, <1>b, <1>c, AppendFacts, HistoryFacts
<1>e. /\ DOMAIN signed' = DOMAIN signed \union {n} /\ n \notin DOMAIN signed /\ signed'[n] = k
      /\ \A i \in DOMAIN signed : signed'[i] = signed[i]
      /\ n # 0 /\ \A i \in DOMAIN signed : i < n
  BY <1>a, <1>b, <1>c, <1>n, AppendFacts, HistoryFacts
<1>0. /\ head' = head /\ used' = used /\ cookie' = cookie /\ lock' = lock
      /\ refresh' = refresh /\ lost' = lost /\ live' \subseteq live \union {s}
      /\ login'[d].pc = "created" /\ login'[d].token = n
      /\ \A e \in Devices \ {d} : login'[e] = login[e]
  BY <1>n DEF OpenSession, TypeOK
<1>f. \A t \in DOMAIN signed : signed[t].sid \in DOMAIN opened /\ signed[t].sid # s
  BY <1>d DEF Ledger
<1>g. \A t \in DOMAIN signed : Owner(t)' = Owner(t)
  BY <1>d, <1>e, <1>f DEF Owner
<1>1. Presented'
  BY <1>0, <1>e DEF Presented
<1>2. Ledger'
  BY <1>0, <1>d, <1>e, <1>f DEF Ledger, Presented
<1>3. Chains'
  <2>1. \A t \in DOMAIN signed : Newest(t)' <=> Newest(t)
    BY <1>e, <1>f DEF Newest
  <2>2. Newest(n)'
    BY <1>e, <1>f DEF Newest
  <2>3. n \notin used /\ head[s] = 0
    BY <1>a, <1>d, <1>e DEF Chains
  <2> QED BY <1>0, <1>d, <1>e, <2>1, <2>2, <2>3 DEF Chains
<1>4. Holders'
  <2>1. Owner(n)' = d
    BY <1>d, <1>e DEF Owner
  <2>2. \A e \in Devices : login'[e].pc = "created" => \A u : u = login'[e].token => Owner(u)' = e
    BY <1>0, <1>g, <2>1 DEF Holders, Presented
  <2>3. \A e \in Devices : cookie[e] # 0 => \A u : u = cookie[e] => Owner(u)' = e
    BY <1>g DEF Holders, Presented
  <2>4. \A r \in Requests : Waited(r) => \A u : u = refresh[r].token => Owner(u)' = refresh[r].device
    BY <1>g DEF Holders, Presented, Waited
  <2>5. \A r \in Requests :
          refresh[r].pc = "rotated" => signed'[refresh[r].new].sid = signed'[refresh[r].token].sid
    BY <1>e DEF Holders, Presented
  <2> QED BY <1>0, <2>2, <2>3, <2>4, <2>5 DEF Holders, Waited
<1>6. \A u : Pristine(u)' <=> Pristine(u)
  BY <1>0 DEF Pristine
<1>7. Deliveries'
  <2>1. Pristine(n)
    BY <1>e DEF Pristine, Presented, Chains
  <2>2. \A r \in Requests : Waited(r) /\ refresh[r].pc = "rotated" => refresh[r].new # n
    BY <1>e DEF Presented
  <2>3. \A e \in Devices : login'[e].pc = "created" => Pristine(login'[e].token)
    BY <1>0, <2>1 DEF Deliveries
  <2> QED BY <1>0, <1>6, <2>2, <2>3 DEF Deliveries, Waited
<1>8. Answers'
  BY <1>0 DEF Answers, Waited, ReuseOnlyAfterLostAnswer
<1> QED BY <1>1, <1>2, <1>3, <1>4, <1>7, <1>8

\* A token is rotated.
LEMMA RotateSafe ==
  ASSUME TypeOK, Safe, NEW r \in Requests, Rotate(r)
  PROVE  Safe'
<1> USE DEF Safe
<1>n. PICK n \in Nat : n = Len(signed) + 1
  BY HistoryFacts
<1> DEFINE t == refresh[r].token
           k == [sid |-> Sid(r), version |-> refresh[r].version]
<1>a. t \in DOMAIN signed /\ Sid(r) = signed[t].sid /\ Sid(r) \in Sids
  BY HistoryFacts DEF Rotate, Presented, Sid
<1>b. n \in Jtis /\ k \in SignedType /\ signed \in Seq(SignedType)
  <2>1. n \in Jtis
    BY <1>n, ConstantsAssumption, HistoryFacts DEF Rotate
  <2>2. refresh[r].version \in Nat /\ signed \in Seq(SignedType)
    BY DEF TypeOK, RefreshType
  <2> QED BY <1>a, <2>1, <2>2 DEF SignedType
<1>c. signed' = Append(signed, k)
  BY DEF Rotate
<1>e. /\ DOMAIN signed' = DOMAIN signed \union {n} /\ n \notin DOMAIN signed /\ signed'[n] = k
      /\ \A i \in DOMAIN signed : signed'[i] = signed[i]
      /\ n # 0 /\ \A i \in DOMAIN signed : i < n
  BY <1>b, <1>c, <1>n, AppendFacts, HistoryFacts
<1>0. /\ opened' = opened /\ live' = live /\ cookie' = cookie /\ lock' = lock /\ login' = login
      /\ lost' = lost /\ used' = used \union {t} /\ refresh[r].pc = "checked"
      /\ refresh'[r] = RefreshAt("rotated", refresh[r].device, t, refresh[r].version, n)
      /\ \A q \in Requests \ {r} : refresh'[q] = refresh[q]
      /\ head'[Sid(r)] = n /\ \A s \in Sids \ {Sid(r)} : head'[s] = head[s]
  BY <1>a, <1>n DEF Rotate, NewHead, TypeOK
<1>f. Newest(t) /\ t \notin used
  BY <1>a DEF Rotate, Verdict, Chains
<1>g. \A u \in DOMAIN signed : Owner(u)' = Owner(u)
  BY <1>0, <1>e DEF Owner
<1>1. Presented'
  BY <1>0, <1>a, <1>e DEF Presented
<1>2. Ledger'
  <2>1. refresh[r].version = opened[Sid(r)].version /\ Sid(r) \in DOMAIN opened
    BY <1>0, <1>a DEF Ledger
  <2> QED BY <1>0, <1>e, <2>1 DEF Ledger, Presented
<1>3. Chains'
  <2>1. \A u \in DOMAIN signed : signed[u].sid # Sid(r) => (Newest(u)' <=> Newest(u))
    BY <1>e DEF Newest
  <2>2. \A u \in DOMAIN signed : signed[u].sid = Sid(r) => ~Newest(u)' /\ u \in used'
    <3> SUFFICES ASSUME NEW u \in DOMAIN signed, signed[u].sid = Sid(r)
                 PROVE  ~Newest(u)' /\ u \in used'
      OBVIOUS
    <3>1. ~Newest(u)'
      <4>1. u < n /\ signed'[n].sid = signed'[u].sid /\ ~(n <= u)
        BY <1>e, HistoryFacts
      <4> QED BY <4>1, <1>e DEF Newest
    <3>2. u # t => ~Newest(u)
      BY <1>a, <1>f, HistoryFacts DEF Newest
    <3> QED BY <1>0, <3>1, <3>2 DEF Chains
  <2>3. Newest(n)'
    BY <1>e, HistoryFacts DEF Newest
  <2>4. n \notin used'
    BY <1>0, <1>a, <1>e DEF Chains
  <2>5. Sid(r) \in DOMAIN opened
    BY <1>a DEF Ledger
  <2>6. used' \subseteq DOMAIN signed'
    BY <1>0, <1>a, <1>e DEF Chains
  <2>7. \A s \in Sids \ DOMAIN opened' : head'[s] = 0
    BY <1>0, <2>5 DEF Chains
  <2>8. \A u \in DOMAIN signed' : u \in used' <=> ~Newest(u)'
    BY <1>0, <1>a, <1>e, <2>1, <2>2, <2>3, <2>4 DEF Chains
  <2>9. \A u \in DOMAIN signed' : Newest(u)' => head'[signed'[u].sid] \in {0, u}
    <3> SUFFICES ASSUME NEW u \in DOMAIN signed', Newest(u)'
                 PROVE  head'[signed'[u].sid] \in {0, u}
      OBVIOUS
    <3>1. CASE u = n
      BY <3>1, <1>0, <1>e
    <3>2. CASE u \in DOMAIN signed
      BY <3>2, <1>0, <1>e, <2>1, <2>2, HistoryFacts DEF Chains
    <3> QED BY <3>1, <3>2, <1>e
  <2> QED BY <2>6, <2>7, <2>8, <2>9 DEF Chains
<1>4. Holders'
  <2>2. \A e \in Devices : login[e].pc = "created" => \A u : u = login[e].token => Owner(u)' = e
    BY <1>g DEF Holders, Presented
  <2>3. \A e \in Devices : cookie[e] # 0 => \A u : u = cookie[e] => Owner(u)' = e
    BY <1>g DEF Holders, Presented
  <2>4. \A q \in Requests : Waited(q)' => \A u : u = refresh'[q].token => Owner(u)' = refresh'[q].device
    BY <1>0, <1>a, <1>g DEF Holders, Presented, Waited
  <2>5. \A q \in Requests :
          refresh'[q].pc = "rotated" => signed'[refresh'[q].new].sid = signed'[refresh'[q].token].sid
    BY <1>0, <1>a, <1>e DEF Holders, Presented
  <2>6. \A e \in Devices, q \in Requests : lock'[e] = q <=> refresh'[q].device = e
    BY <1>0 DEF Holders
  <2> QED BY <1>0, <2>2, <2>3, <2>4, <2>5, <2>6 DEF Holders
<1>6. \A u : Pristine(u) => Pristine(u)'
  <2>1. \A u : Pristine(u) => u # t
    BY <1>0 DEF Pristine
  <2> QED BY <1>0, <2>1 DEF Pristine
<1>7. Deliveries'
  <2>1. Pristine(n)
    BY <1>e DEF Pristine, Presented, Chains
  <2>2. \A e \in Devices : login[e].pc = "created" => login[e].token # n
    BY <1>e DEF Presented
  <2>3. \A q \in Requests : Waited(q)' /\ refresh'[q].pc = "rotated" =>
          \A u : u = refresh'[q].new => Pristine(u)'
    BY <1>0, <1>6, <2>1 DEF Deliveries, Waited
  <2> QED BY <1>0, <1>6, <2>2, <2>3 DEF Deliveries, Waited
<1>8. Answers'
  <2>0. ~Waited(r) => t \in lost
    BY <1>0 DEF Answers
  <2>1. \A e \in Devices : cookie'[e] \in used' =>
         \/ cookie'[e] \in lost'
         \/ \E q \in Requests :
              lock'[e] = q /\ refresh'[q].pc = "rotated" /\ refresh'[q].token = cookie'[e]
    <3> SUFFICES ASSUME NEW e \in Devices, cookie[e] \in used', cookie[e] \notin lost
                 PROVE  \E q \in Requests :
                   lock'[e] = q /\ refresh'[q].pc = "rotated" /\ refresh'[q].token = cookie[e]
      BY <1>0
    <3>1. CASE cookie[e] = t
      <4>1. Waited(r) /\ Owner(t) = e /\ refresh[r].device = e
        BY <3>1, <2>0, <1>a, HistoryFacts DEF Holders
      <4> QED BY <1>0, <3>1, <4>1 DEF Holders
    <3>2. CASE cookie[e] # t
      <4>1. PICK q \in Requests : lock[e] = q /\ refresh[q].pc = "rotated" /\ refresh[q].token = cookie[e]
        BY <1>0, <3>2 DEF Answers
      <4> QED BY <4>1, <1>0
    <3> QED BY <3>1, <3>2
  <2>2. \A q \in Requests :
         Waited(q)' /\ refresh'[q].pc \notin {"rotated", "invalid"} /\ refresh'[q].token \in used'
           => refresh'[q].token \in lost'
    <3> SUFFICES ASSUME NEW q \in Requests \ {r}, Waited(q),
                        refresh[q].pc \notin {"rotated", "invalid"}, refresh[q].token = t
                 PROVE  t \in lost
      BY <1>0 DEF Waited, Answers
    <3>1. Waited(r) => refresh[q].device = refresh[r].device /\ refresh[r].device \in Devices
      BY DEF Holders, Waited, TypeOK, RefreshType
    <3>2. ~Waited(r)
      BY <3>1 DEF Holders
    <3> QED BY <3>2, <2>0
  <2>3. \A q \in Requests : refresh'[q].pc # "idle" /\ ~Waited(q)' => refresh'[q].token \in lost'
    BY <1>0, <2>0 DEF Answers, Waited
  <2>4. ReuseOnlyAfterLostAnswer'
    BY <1>0 DEF Answers, ReuseOnlyAfterLostAnswer
  <2> QED BY <2>1, <2>2, <2>3, <2>4 DEF Answers
<1> QED BY <1>1, <1>2, <1>3, <1>4, <1>7, <1>8

\* A refresh that moves on, without an answer and without a rotation.
LEMMA RefreshMoveSafe ==
  ASSUME TypeOK, Safe, NEW r \in Requests,
         \/ LoadSession(r) \/ CheckVersion(r) \/ RefuseRotation(r) \/ FindSession(r)
         \/ DeleteSession(r) \/ UnlistSession(r) \/ MarkRevoked(r) \/ RefreshWithoutRedis(r)
  PROVE  Safe'
<1> DEFINE t == refresh[r].token
<1>0. refresh[r].pc \in ReusePcs => t \in lost
  BY DEF Safe, Answers, ReuseOnlyAfterLostAnswer, ReusePcs
<1>1. CASE LoadSession(r)
  <2> DEFINE pc == IF Sid(r) \in live \ revoked THEN "loaded" ELSE "invalid"
  <2>1. /\ SameChains /\ live' \subseteq live /\ UNCHANGED <<cookie, lock, login, lost>>
        /\ refresh[r].pc = "received"
        /\ refresh' = [refresh EXCEPT ![r] =
             RefreshAt(pc, refresh[r].device, t, refresh[r].version, refresh[r].new)]
    BY <1>1 DEF LoadSession, Goto, SameChains, redis
  <2>2. pc \in {"loaded", "invalid"}
    OBVIOUS
  <2> HIDE DEF pc
  <2> QED BY <2>1, <2>2, RefreshMove DEF ReusePcs
<1>2. CASE CheckVersion(r)
  <2> DEFINE pc == IF Current(t, user.version) THEN "checked" ELSE "invalid"
  <2>1. /\ SameChains /\ live' \subseteq live /\ UNCHANGED <<cookie, lock, login, lost>>
        /\ refresh[r].pc = "loaded"
        /\ refresh' = [refresh EXCEPT ![r] =
             RefreshAt(pc, refresh[r].device, t, user.version, 0)]
    BY <1>2 DEF CheckVersion, SameChains, redis
  <2>2. pc \in {"checked", "invalid"} /\ (pc = "checked" => user.version = signed[t].version)
    BY DEF Current
  <2> HIDE DEF pc
  <2> QED BY <2>1, <2>2, RefreshMove DEF ReusePcs
<1>3. CASE RefuseRotation(r)
  <2> DEFINE pc == IF Verdict(t) = "reused" THEN "reused" ELSE "invalid"
  <2>1. /\ SameChains /\ live' \subseteq live /\ UNCHANGED <<cookie, lock, login, lost>>
        /\ refresh[r].pc = "checked"
        /\ refresh' = [refresh EXCEPT ![r] =
             RefreshAt(pc, refresh[r].device, t, refresh[r].version, refresh[r].new)]
    BY <1>3 DEF RefuseRotation, Goto, SameChains, redis
  <2>2. Verdict(t) = "reused" => t \in used
    <3>1. t \in DOMAIN signed
      BY <2>1 DEF Safe, Presented
    <3> QED BY <3>1 DEF Verdict, Safe, Chains
  <2>3. t \in used => t \in lost
    BY <2>1 DEF Safe, Answers
  <2>4. pc \in {"reused", "invalid"} /\ (pc = "reused" => t \in lost)
    BY <2>2, <2>3
  <2> HIDE DEF pc
  <2> QED BY <2>1, <2>4, RefreshMove DEF ReusePcs
<1>4. CASE FindSession(r)
  <2> DEFINE pc == IF Sid(r) \in live THEN "found" ELSE "invalid"
  <2>1. /\ SameChains /\ live' \subseteq live /\ UNCHANGED <<cookie, lock, login, lost>>
        /\ refresh[r].pc = "reused"
        /\ refresh' = [refresh EXCEPT ![r] =
             RefreshAt(pc, refresh[r].device, t, refresh[r].version, refresh[r].new)]
    BY <1>4 DEF FindSession, Goto, SameChains, redis
  <2>2. pc \in {"found", "invalid"} /\ t \in lost
    BY <2>1, <1>0 DEF ReusePcs
  <2> HIDE DEF pc
  <2> QED BY <2>1, <2>2, RefreshMove
<1>5. ASSUME NEW pc \in {"deleted", "unlisted", "invalid"},
             refresh[r].pc \in {"found", "deleted", "unlisted"},
             Goto(r, pc), live' \subseteq live, UNCHANGED <<head, used>>
      PROVE  Safe'
  <2>1. /\ SameChains /\ UNCHANGED <<cookie, lock, login, lost>>
        /\ refresh' = [refresh EXCEPT ![r] =
             RefreshAt(pc, refresh[r].device, t, refresh[r].version, refresh[r].new)]
    BY <1>5 DEF Goto, SameChains
  <2>2. t \in lost
    BY <1>0, <1>5 DEF ReusePcs
  <2> QED BY ZenonT(60), <1>5, <2>1, <2>2, RefreshMove
<1>6. CASE RefreshWithoutRedis(r)
  <2> DEFINE pc == "invalid"
  <2>1. /\ SameChains /\ live' \subseteq live /\ UNCHANGED <<cookie, lock, login, lost>>
        /\ refresh[r].pc \in {"received", "checked", "reused"}
        /\ refresh' = [refresh EXCEPT ![r] =
             RefreshAt(pc, refresh[r].device, t, refresh[r].version, refresh[r].new)]
    BY <1>6 DEF RefreshWithoutRedis, Goto, SameChains, redis
  <2>2. pc \notin {"idle", "rotated", "checked"} /\ pc \notin ReusePcs /\ pc = "invalid"
    BY DEF ReusePcs
  <2>3. refresh[r].pc \notin {"idle", "rotated", "invalid"}
    BY <2>1
  <2> HIDE DEF pc
  <2> QED BY <2>1, <2>2, <2>3, RefreshMove
<1>7. DeleteSession(r) \/ UnlistSession(r) \/ MarkRevoked(r) => Safe'
  BY <1>5 DEF DeleteSession, UnlistSession, MarkRevoked
<1> QED BY <1>1, <1>2, <1>3, <1>4, <1>6, <1>7

\* A step of a sign-in.
LEMMA LoginSafe ==
  ASSUME TypeOK, Safe, NEW d \in Devices, LoginStep(d)
  PROVE  Safe'
<1>1. CASE VerifyCredentials(d) \/ ReadAccount(d) \/ VerifyEmail(d) \/ AbortLogin(d)
  <2>1. /\ SameChains /\ UNCHANGED <<live, cookie, lock, refresh, lost>>
        /\ login'[d].pc # "created" /\ \A e \in Devices \ {d} : login'[e] = login[e]
    BY <1>1 DEF VerifyCredentials, ReadAccount, VerifyEmail, AbortLogin, SameChains, redis,
                TypeOK, IdleLogin
  <2> QED BY <2>1, LoginMove
<1> QED BY <1>1, OpenSessionSafe, AnswerLoginSafe DEF LoginStep

\* A step of a refresh.
LEMMA RefreshSafe ==
  ASSUME TypeOK, Safe, NEW r \in Requests, RefreshStep(r)
  PROVE  Safe'
<1>1. ASSUME NEW d \in Devices, StartRefresh(r, d) PROVE Safe'
  BY <1>1, StartRefreshSafe
<1>2. CASE Answer(r)
  BY <1>2, AnswerSafe
<1>3. CASE TimeoutRefresh(r) \/ CrashRefresh(r)
  BY <1>3, GiveUpSafe
<1>4. CASE Rotate(r)
  BY <1>4, RotateSafe
<1> QED BY <1>1, <1>2, <1>3, <1>4, RefreshMoveSafe DEF RefreshStep

\* A step of a revocation, or a session's expiry.
LEMMA RevocationSafe ==
  ASSUME TypeOK, Safe,
         (\E v \in Revokers : RevocationStep(v)) \/ (\E s \in Sids : ExpireSession(s))
  PROVE  Safe'
<1>1. /\ SameChains /\ live' \subseteq live
      /\ UNCHANGED <<lock, login, refresh, lost>>
      /\ \A d \in Devices : cookie'[d] \in {cookie[d], 0}
  <2>1. CASE \E s \in Sids : ExpireSession(s)
    BY <2>1 DEF ExpireSession, SameChains
  <2>2. ASSUME NEW v \in Revokers, RevocationStep(v)
        PROVE  /\ SameChains /\ live' \subseteq live
               /\ UNCHANGED <<lock, login, refresh, lost>>
               /\ \A d \in Devices : cookie'[d] \in {cookie[d], 0}
    BY <2>2 DEF RevocationStep, Logout, ResetPassword, ListSessions, ListWithoutRedis, KillSessions,
                DropIndex, AnswerRevocation, CrashRevocation, Advance, SameChains, redis
  <2> QED BY <2>1, <2>2
<1> QED BY <1>1, SideStep

\* Every step keeps what is safe.
LEMMA SafeStep ==
  ASSUME TypeOK, Safe, [Next]_vars
  PROVE  Safe'
<1>1. CASE UNCHANGED vars
  BY <1>1, SideStep DEF vars, SameChains
<1> QED BY <1>1, LoginSafe, RefreshSafe, RevocationSafe DEF Next

\* It holds initially.
LEMMA InitSafe == Init => Safe
<1> SUFFICES ASSUME Init PROVE Safe
  OBVIOUS
<1>0. /\ DOMAIN signed = {} /\ DOMAIN opened = {} /\ live = {} /\ used = {} /\ lost = {}
      /\ \A s \in Sids : head[s] = 0
      /\ \A d \in Devices : cookie[d] = 0 /\ lock[d] = None /\ login[d].pc = "idle"
      /\ \A r \in Requests : refresh[r].pc = "idle" /\ refresh[r].device = None
  BY DEF Init, IdleLogin, IdleRefresh
<1>1. Presented /\ Ledger /\ Chains
  BY <1>0 DEF Presented, Ledger, Chains
<1>2. Holders
  BY <1>0, ConstantsAssumption DEF Holders, Waited
<1>3. Deliveries
  BY <1>0 DEF Deliveries, Waited
<1>4. Answers
  BY <1>0 DEF Answers, Waited, ReuseOnlyAfterLostAnswer
<1> QED BY <1>1, <1>2, <1>3, <1>4 DEF Safe

-----------------------------------------------------------------------------
(* The theorems. *)

\* The inductive invariant, from which the rest follows.
LEMMA Invariance == Spec => []IInv
<1>1. Init => IInv
  BY InitTypeOK, InitSafe DEF IInv
<1>2. IInv /\ [Next]_vars => IInv'
  BY TypeStep, SafeStep DEF IInv, Safe
<1> QED BY <1>1, <1>2, PTL DEF Spec

\* Every variable keeps its type (TypeOK).
THEOREM TypeCorrect == Spec => []TypeOK
<1>1. IInv => TypeOK
  BY DEF IInv
<1> QED BY <1>1, Invariance, PTL

\* Of a live session exactly the newest token rotates: the Lua script, its two
\* keys and the numbering of rotations agree on one chain, whatever requests
\* raced, timed out or died (OnlyNewestRotates).
THEOREM OnlyNewestRotatesHolds == Spec => []OnlyNewestRotates
<1>1. IInv => OnlyNewestRotates
  BY DEF IInv, Safe, Chains, OnlyNewestRotates, Verdict
<1> QED BY <1>1, Invariance, PTL

\* No token that works belongs to a session opened under an earlier version of
\* the account, though its revocation crashed, was skipped or is under way
\* (NoSessionOutlivesItsVersion).
THEOREM NoSessionOutlivesItsVersionHolds == Spec => []NoSessionOutlivesItsVersion
<1>1. IInv => NoSessionOutlivesItsVersion
  BY DEF IInv, Safe, Ledger, NoSessionOutlivesItsVersion, Usable
<1> QED BY <1>1, Invariance, PTL

\* The server revokes a session for reuse only after the answer to an earlier
\* refresh with the same token was lost (ReuseOnlyAfterLostAnswer).
THEOREM ReuseOnlyAfterLostAnswerHolds == Spec => []ReuseOnlyAfterLostAnswer
<1>1. IInv => ReuseOnlyAfterLostAnswer
  BY DEF IInv, Safe, Answers
<1> QED BY <1>1, Invariance, PTL

-----------------------------------------------------------------------------
(* Sessions implements SessionKeys. *)

\* No sign-in and no session is ahead of the account.
Past ==
  /\ \A s \in DOMAIN opened : opened[s].version <= user.version
  /\ \A d \in Devices : login[d].version <= user.version

\* What makes a token work: its session is live, it is the newest, and nothing has been
\* revoked since.
Works(t) ==
  /\ signed[t].sid \in live \ revoked
  /\ Newest(t)
  /\ signed[t].version = user.version

\* The tokens that a refresh would accept, by what is in the histories.
LEMMA WorkingFacts ==
  IInv => \A s \in Sids : Working(s) = {t \in DOMAIN signed : signed[t].sid = s /\ Works(t)}
<1> SUFFICES ASSUME IInv, NEW t \in DOMAIN signed
             PROVE  Usable(t) <=> Works(t)
  BY DEF Working
<1>1. Verdict(t) = "rotated" => signed[t].sid \in live
  BY DEF Verdict
<1>2. signed[t].sid \in live => (Verdict(t) = "rotated" <=> Newest(t))
  BY DEF IInv, Safe, Chains, Verdict
<1> QED BY <1>1, <1>2 DEF Usable, Works

\* The same after a step.
LEMMA WorkingAfter ==
  IInv' => \A s \in Sids : Working(s)' = {t \in DOMAIN signed' : signed'[t].sid = s /\ Works(t)'}
<1>1. (IInv => \A s \in Sids : Working(s) = {t \in DOMAIN signed : signed[t].sid = s /\ Works(t)})'
  BY WorkingFacts, PTL
<1> QED BY <1>1

\* A token has no version its session did not have, and none is of tomorrow.
LEMMA TokenPast ==
  ASSUME IInv, Past, NEW t \in DOMAIN signed
  PROVE  signed[t].version <= user.version
BY DEF IInv, Safe, Ledger, Past

\* Steps that take sessions away and hand nothing out; logouts and resets; the two that
\* hand tokens out.
Quiet ==
  /\ SameChains /\ user'.version = user.version
  /\ live' \subseteq live /\ revoked \subseteq revoked'
Bumps == SameChains /\ user'.version = user.version + 1

\* Every step is one of these.
LEMMA StepKinds ==
  ASSUME IInv, [Next]_vars
  PROVE  Quiet \/ Bumps \/ (\E d \in Devices : OpenSession(d)) \/ (\E r \in Requests : Rotate(r))
<1> USE DEF SameChains, redis
<1>1. CASE UNCHANGED vars
  BY <1>1 DEF vars, Quiet
<1>2. ASSUME NEW d \in Devices, LoginStep(d), ~OpenSession(d)
      PROVE  Quiet
  <2>1. user'.version = user.version
    BY <1>2 DEF LoginStep, VerifyCredentials, ReadAccount, VerifyEmail, AnswerLogin, AbortLogin,
                IInv, TypeOK, UserType
  <2> QED BY <1>2, <2>1 DEF Quiet, LoginStep, VerifyCredentials, ReadAccount, VerifyEmail,
                            AnswerLogin, AbortLogin
<1>3. ASSUME NEW r \in Requests, RefreshStep(r), ~Rotate(r)
      PROVE  Quiet
  BY <1>3 DEF Quiet, RefreshStep, StartRefresh, Goto, LoadSession, CheckVersion, RefuseRotation,
              FindSession, DeleteSession, UnlistSession, MarkRevoked, RefreshWithoutRedis, Answer,
              TimeoutRefresh, CrashRefresh
<1>4. ASSUME NEW v \in Revokers, RevocationStep(v)
      PROVE  Quiet \/ Bumps
  <2>1. CASE (\E d \in Devices : Logout(v, d)) \/ ResetPassword(v)
    BY <2>1 DEF Logout, ResetPassword, Bumps, IInv, TypeOK, UserType
  <2>2. CASE ~((\E d \in Devices : Logout(v, d)) \/ ResetPassword(v))
    BY <1>4, <2>2 DEF Quiet, RevocationStep, Advance, ListSessions, ListWithoutRedis, KillSessions,
                      DropIndex, AnswerRevocation, CrashRevocation
  <2> QED BY <2>1, <2>2
<1>5. ASSUME NEW s \in Sids, ExpireSession(s)
      PROVE  Quiet
  BY <1>5 DEF ExpireSession, Quiet
<1> QED BY <1>1, <1>2, <1>3, <1>4, <1>5 DEF Next

\* Sign-ins read the account as it was, and its version only grows.
LEMMA PastNext ==
  ASSUME IInv, Past, [Next]_vars
  PROVE  Past'
<1>1. user \in UserType /\ login \in [Devices -> LoginType]
  BY DEF IInv, TypeOK
<1>2. user'.version \in Nat /\ user'.version >= user.version
  <2>1. CASE \E d \in Devices : OpenSession(d)
    BY <1>1, <2>1 DEF OpenSession, UserType
  <2>2. CASE \E r \in Requests : Rotate(r)
    BY <1>1, <2>2 DEF Rotate, UserType
  <2> QED BY <1>1, <2>1, <2>2, StepKinds DEF Quiet, Bumps, UserType
<1>3. \A d \in Devices : login'[d].version <= user'.version
  <2>1. CASE login' = login
    BY <1>1, <1>2, <2>1 DEF Past, UserType, LoginType
  <2>2. ASSUME NEW d \in Devices, LoginStep(d)
        PROVE  \A e \in Devices : login'[e].version <= user'.version
    <3>1. \A e \in Devices \ {d} : login'[e] = login[e]
      BY <1>1, <2>2 DEF LoginStep, VerifyCredentials, ReadAccount, VerifyEmail, OpenSession,
                        AnswerLogin, AbortLogin
    <3>2. login'[d].version \in {0, user.version, login[d].version}
      BY <1>1, <2>2 DEF LoginStep, VerifyCredentials, ReadAccount, VerifyEmail, OpenSession,
                        AnswerLogin, AbortLogin, IdleLogin
    <3>3. \A e \in Devices : login[e].version <= user.version /\ login[e].version \in Nat
      BY <1>1 DEF Past, LoginType
    <3>4. user.version \in Nat
      BY <1>1 DEF UserType
    <3> QED BY <1>2, <3>1, <3>2, <3>3, <3>4
  <2>3. login' = login \/ \E d \in Devices : LoginStep(d)
    BY DEF Next, vars, RefreshStep, StartRefresh, Goto, LoadSession, CheckVersion, Rotate,
           RefuseRotation, FindSession, DeleteSession, UnlistSession, MarkRevoked,
           RefreshWithoutRedis, Answer, TimeoutRefresh, CrashRefresh, RevocationStep, Logout,
           ResetPassword, Advance, ListSessions, ListWithoutRedis, KillSessions, DropIndex,
           AnswerRevocation, CrashRevocation, ExpireSession
  <2> QED BY <2>1, <2>2, <2>3
<1>4. \A s \in DOMAIN opened : opened[s].version \in Nat /\ opened[s].version <= user'.version
  <2>1. \A s \in DOMAIN opened : opened[s].version \in Nat
    BY HistoryFacts DEF IInv, OpenedType
  <2> QED BY <1>1, <1>2, <2>1 DEF Past, UserType
<1>5. \A s \in DOMAIN opened' : opened'[s].version <= user'.version
  <2>1. CASE opened' = opened
    BY <1>4, <2>1
  <2>2. CASE \E d \in Devices : OpenSession(d)
    <3>1. PICK d \in Devices : OpenSession(d)
      BY <2>2
    <3> DEFINE o == [device |-> d, version |-> login[d].version, password |-> login[d].password]
    <3>2. o \in OpenedType /\ o.version = login[d].version
      BY <1>1 DEF OpenedType, LoginType
    <3>3. opened' = Append(opened, o) /\ opened \in Seq(OpenedType) /\ user' = user
      BY <3>1 DEF OpenSession, IInv, TypeOK
    <3> HIDE DEF o
    <3>4. /\ DOMAIN opened = 1..Len(opened) /\ Len(opened) \in Nat
          /\ DOMAIN opened' = 1..(Len(opened) + 1)
          /\ \A i \in DOMAIN opened : opened'[i] = opened[i]
          /\ opened'[Len(opened) + 1] = o
      BY <3>2, <3>3, AppendFacts
    <3>5. o.version <= user'.version
      BY <3>2, <3>3 DEF Past
    <3> QED BY <1>4, <3>4, <3>5
  <2> QED BY <2>1, <2>2, StepKinds DEF Quiet, Bumps, SameChains, Rotate
<1> QED BY <1>3, <1>5 DEF Past

\* The mapped variables after a step, where what follows needs them.
LEMMA Mapped ==
  ASSUME NEW s \in Sids
  PROVE  /\ Keys!Same(s) <=> Working(s)' = Working(s)
         /\ Keys!Ends(s) <=> Working(s)' = {}
BY DEF Keys!Same, Keys!Ends

\* Without new tokens a session keeps what works, or ends.
LEMMA QuietKeeps ==
  ASSUME IInv, IInv', Quiet
  PROVE  Keys!End
<1>1. \A t : Newest(t)' <=> Newest(t)
  BY DEF Quiet, SameChains, Newest
<1>2. ASSUME NEW s \in Sids
      PROVE  Working(s)' = Working(s) \/ Working(s)' = {}
  <2>1. CASE s \in live' \ revoked'
    <3>1. \A t \in DOMAIN signed : signed[t].sid = s => (Works(t)' <=> Works(t))
      BY <1>1, <2>1 DEF Quiet, SameChains, Works
    <3> QED BY <3>1, WorkingFacts, WorkingAfter DEF Quiet, SameChains
  <2>2. CASE s \notin live' \ revoked'
    BY <2>2, WorkingAfter DEF Works
  <2> QED BY <2>1, <2>2
<1> QED BY <1>2, Mapped DEF Keys!End, Quiet, SameChains

\* A new version of the account makes every token worthless.
LEMMA BumpEnds ==
  ASSUME IInv, IInv', Past, Bumps
  PROVE  Keys!SignOut
<1>1. user.version \in Nat
  BY DEF IInv, TypeOK, UserType
<1>2. ASSUME NEW t \in DOMAIN signed
      PROVE  signed'[t].version # user'.version
  <2>1. signed[t].version \in Nat /\ signed[t].version <= user.version
    BY TokenPast, HistoryFacts DEF IInv
  <2> QED BY <1>1, <2>1 DEF Bumps, SameChains
<1>3. \A s \in Sids : Working(s)' = {}
  BY <1>2, WorkingAfter DEF Bumps, SameChains, Works
<1> QED BY <1>3, Mapped DEF Keys!SignOut, Bumps, SameChains

\* The token that is signed next.
LEMMA NextToken ==
  ASSUME IInv, NEW x \in SignedType, signed' = Append(signed, x), Len(signed) < MaxTokens,
         NEW n, n = Len(signed) + 1
  PROVE  /\ n \in Jtis /\ n \notin DOMAIN signed /\ DOMAIN signed' = DOMAIN signed \union {n}
         /\ signed'[n] = x /\ \A t \in DOMAIN signed : signed'[t] = signed[t]
         /\ Newest(n)'
         /\ \A t \in DOMAIN signed :
              Newest(t)' <=> Newest(t) /\ signed[t].sid # x.sid
<1>1. /\ DOMAIN signed = 1..Len(signed) /\ Len(signed) \in Nat
      /\ DOMAIN signed' = 1..(Len(signed) + 1)
      /\ \A t \in DOMAIN signed : signed'[t] = signed[t]
      /\ signed'[Len(signed) + 1] = x
  BY AppendFacts DEF IInv, TypeOK
<1>2. DOMAIN signed' = DOMAIN signed \union {n} /\ n \notin DOMAIN signed /\ n \in Jtis
  BY <1>1, ConstantsAssumption
<1>3. \A t \in DOMAIN signed : t < n /\ t <= n /\ ~(n <= t)
  BY <1>1
<1>4. n <= n
  BY <1>1
<1>5. Newest(n)'
  BY <1>2, <1>3, <1>4 DEF Newest
<1>6. ASSUME NEW t \in DOMAIN signed
      PROVE  Newest(t)' <=> Newest(t) /\ signed[t].sid # x.sid
  BY <1>1, <1>2, <1>3, <1>6 DEF Newest
<1> QED BY <1>1, <1>2, <1>5, <1>6

\* A sign-in opens a session with a token of its own.
LEMMA OpenKeeps ==
  ASSUME IInv, IInv', NEW d \in Devices, OpenSession(d)
  PROVE  \E s \in Sids, t \in Jtis : Keys!Open(s, t)
<1>a. PICK s : s = Len(opened) + 1
  OBVIOUS
<1>b. PICK n : n = Len(signed) + 1
  OBVIOUS
<1> DEFINE x == [sid |-> s, version |-> login[d].version]
           o == [device |-> d, version |-> login[d].version, password |-> login[d].password]
<1>1. opened \in Seq(OpenedType) /\ login[d] \in LoginType
  BY DEF IInv, TypeOK
<1>2. s \in Sids /\ x \in SignedType /\ x.sid = s /\ o \in OpenedType
  <2>1. Len(opened) \in Nat /\ s <= MaxSessions
    BY <1>a, <1>1, LenProperties DEF OpenSession
  <2> QED BY <1>a, <1>1, <2>1, ConstantsAssumption DEF SignedType, OpenedType, LoginType
<1>3. /\ opened' = Append(opened, o) /\ signed' = Append(signed, x) /\ Len(signed) < MaxTokens
      /\ user' = user /\ revoked' = revoked
      /\ \A z \in Sids \ {s} : z \in live' => z \in live
  BY <1>a DEF OpenSession
<1> HIDE DEF o, x
<1>4. DOMAIN opened' = DOMAIN opened \union {s} /\ s \notin DOMAIN opened
  BY <1>a, <1>1, <1>2, <1>3, AppendFacts
<1>5. /\ n \in Jtis /\ n \notin DOMAIN signed /\ DOMAIN signed' = DOMAIN signed \union {n}
      /\ signed'[n] = x /\ \A t \in DOMAIN signed : signed'[t] = signed[t]
      /\ \A t \in DOMAIN signed : Newest(t)' <=> Newest(t) /\ signed[t].sid # s
  BY <1>b, <1>2, <1>3, NextToken
<1>6. \A t \in DOMAIN signed : signed[t].sid # s
  BY <1>4 DEF IInv, Safe, Ledger
<1>7. Working(s)' \in {{}, {n}}
  <2>1. Working(s)' \subseteq {n}
    BY <1>2, <1>5, <1>6, WorkingAfter
  <2> QED BY <2>1
<1>8. ASSUME NEW z \in Sids \ {s}
      PROVE  Working(z)' = Working(z) \/ Working(z)' = {}
  <2>1. CASE z \in live' \ revoked'
    <3>1. \A t \in DOMAIN signed : signed[t].sid = z => (Works(t)' <=> Works(t))
      BY <1>3, <1>5, <1>8, <2>1 DEF Works
    <3>2. {t \in DOMAIN signed' : signed'[t].sid = z /\ Works(t)'}
            = {t \in DOMAIN signed : signed[t].sid = z /\ Works(t)}
      BY <1>2, <1>5, <1>8, <3>1
    <3> QED BY <3>2, WorkingFacts, WorkingAfter
  <2>2. CASE z \notin live' \ revoked'
    BY <2>2, WorkingAfter DEF Works
  <2> QED BY <2>1, <2>2
<1>9. Keys!Open(s, n)
  BY <1>2, <1>3, <1>4, <1>5, <1>7, <1>8, Mapped DEF Keys!Open
<1> QED BY <1>2, <1>5, <1>9

\* A rotation spends the token that works and hands out the one that works from then on.
LEMMA RotateKeeps ==
  ASSUME IInv, IInv', NEW r \in Requests, Rotate(r)
  PROVE  \E s \in Sids, t \in Jtis : Keys!Rotate(s, t)
<1>a. PICK t : t = refresh[r].token
  OBVIOUS
<1>b. PICK s : s = Sid(r)
  OBVIOUS
<1>c. PICK n : n = Len(signed) + 1
  OBVIOUS
<1> DEFINE x == [sid |-> s, version |-> refresh[r].version]
<1>1. /\ t \in DOMAIN signed /\ s = signed[t].sid /\ s \in Sids /\ s \in DOMAIN opened
      /\ refresh[r].version = signed[t].version
  BY <1>a, <1>b, HistoryFacts DEF Rotate, IInv, Safe, Presented, Ledger, Sid
<1>2. s \in live /\ Newest(t)
  BY <1>a, <1>1 DEF Rotate, Verdict, IInv, Safe, Chains
<1>3. x \in SignedType /\ x.sid = s /\ x.version = signed[t].version
  BY <1>1, HistoryFacts DEF SignedType, IInv
<1>4. Len(signed) < MaxTokens
  <2>1. Len(signed) \in Nat
    BY HistoryFacts DEF IInv
  <2> QED BY <2>1, ConstantsAssumption DEF Rotate
<1>5. signed' = Append(signed, x) /\ UNCHANGED <<user, opened, live, revoked>>
  BY <1>b DEF Rotate
<1> HIDE DEF x
<1>6. /\ n \in Jtis /\ n \notin DOMAIN signed /\ DOMAIN signed' = DOMAIN signed \union {n}
      /\ signed'[n] = x /\ \A u \in DOMAIN signed : signed'[u] = signed[u]
      /\ Newest(n)'
      /\ \A u \in DOMAIN signed : Newest(u)' <=> Newest(u) /\ signed[u].sid # s
  BY <1>c, <1>3, <1>4, <1>5, NextToken
<1>7. Works(n)' <=> Works(t)
  BY <1>1, <1>2, <1>3, <1>5, <1>6 DEF Works
<1>8. Working(s) # {} <=> Works(t)
  <2>1. \A u \in DOMAIN signed : signed[u].sid = s /\ Works(u) => u = t
    <3>1. \A u \in DOMAIN signed : signed[u].sid = s /\ Newest(u) => u <= t /\ t <= u
      BY <1>1, <1>2 DEF Newest
    <3>2. \A u \in DOMAIN signed : u \in Nat
      BY HistoryFacts DEF IInv
    <3> QED BY <1>1, <3>1, <3>2 DEF Works
  <2> QED BY <1>1, <2>1, WorkingFacts
<1>9. Working(s)' = IF Working(s) = {} THEN {} ELSE {n}
  <2>1. \A u \in DOMAIN signed' : signed'[u].sid = s /\ Works(u)' <=> u = n /\ Works(t)
    <3>1. \A u \in DOMAIN signed : signed'[u].sid = s => ~Works(u)'
      BY <1>6 DEF Works
    <3> QED BY <1>3, <1>6, <1>7, <3>1
  <2>2. Working(s)' = {u \in DOMAIN signed' : u = n /\ Works(t)}
    BY <1>1, <2>1, WorkingAfter
  <2> QED BY <1>6, <1>8, <2>2
<1>10. ASSUME NEW z \in Sids \ {s}
       PROVE  Working(z)' = Working(z)
  <2>1. \A u \in DOMAIN signed : signed[u].sid = z => (Works(u)' <=> Works(u))
    BY <1>5, <1>6, <1>10 DEF Works
  <2>2. {u \in DOMAIN signed' : signed'[u].sid = z /\ Works(u)'}
          = {u \in DOMAIN signed : signed[u].sid = z /\ Works(u)}
    BY <1>3, <1>6, <1>10, <2>1
  <2> QED BY <2>2, WorkingFacts, WorkingAfter
<1>11. Keys!Rotate(s, n)
  BY <1>1, <1>5, <1>6, <1>9, <1>10, Mapped DEF Keys!Rotate
<1> QED BY <1>1, <1>6, <1>11

\* Sign-ins, refreshes, logouts, resets, evictions, expiries and failures together implement
\* SessionKeys: of a session one token works, a refresh exchanges it one for one, and nothing
\* makes a session work again that has ended or that a logout or a reset has overtaken -
\* for any number of devices and requests (KeepsKeys).
THEOREM ImplementsKeys == Spec => KeepsKeys
<1>1. Init => Keys!KeysInit /\ Past
  <2> SUFFICES ASSUME Init
               PROVE  Keys!KeysInit /\ Past
    OBVIOUS
  <2>1. user.version = 0 /\ DOMAIN opened = {} /\ DOMAIN signed = {}
        /\ \A d \in Devices : login[d].version = 0
    BY DEF Init, IdleLogin
  <2> QED BY <2>1 DEF Keys!KeysInit, Past, Working
<1>2. IInv /\ Past /\ [Next]_vars => Past'
  BY PastNext
<1>3. IInv /\ IInv' /\ Past /\ [Next]_vars => [Keys!KeysNext]_(Keys!keysVars)
  BY StepKinds, QuietKeeps, BumpEnds, OpenKeeps, RotateKeeps DEF Keys!KeysNext
<1> QED BY <1>1, <1>2, <1>3, Invariance, PTL DEF Spec, KeepsKeys, Keys!KeysSpec
=============================================================================
