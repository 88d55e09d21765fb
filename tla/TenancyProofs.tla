---------------------------- MODULE TenancyProofs ----------------------------
(***************************************************************************)
(* Tenancy, proved for any number of organizations, users, invitations and *)
(* requests.                                                               *)
(*                                                                         *)
(* The invariant IInv says: Shapes, what a request in flight has at each   *)
(* of its steps; Known, that nobody is a member of, invited to or working  *)
(* on an organization that was never created; Joining, that a request      *)
(* about to mark its invitation has that invitation's data and is alone in *)
(* inserting its row; Exclusive, that the lock of an organization's owners *)
(* is held by exactly the request between its checks and its write; and    *)
(* Guarded, that a write about to take an owner away leaves another one.   *)
(* Three more conjuncts serve OnlyOwnersMoveOwnership: Authorized, Holding *)
(* and Departed.                                                           *)
(***************************************************************************)
EXTENDS Tenancy, TLAPS

Shape(t) ==
  /\ t.pc \in {"lock", "count", "write", "check", "create"} => t.target \in Users
  /\ t.pc \notin {"idle", "delete", "purge", "finish"} => t.org \in Orgs
  /\ t.pc \in {"join", "accept", "delete", "purge", "finish"} => t.actor \in Users
  /\ t.pc \in {"join", "accept"} => t.invitation \in Invitations
  /\ t.pc \in {"create", "check", "join", "accept"} => t.grant \in InvitedRoles

Shapes == \A r \in Requests : Shape(tx[r])

Known ==
  /\ \A o \in Orgs, u \in Users : member[o][u] # "none" => org[o] # "absent"
  /\ \A i \in Invitations : invitation[i].status # "absent" =>
       /\ invitation[i].org \in Orgs /\ invitation[i].role \in InvitedRoles
       /\ org[invitation[i].org] # "absent"
  /\ \A i \in Invitations : invitation[i].status = "absent" =>
       invitation[i].org = None /\ invitation[i].user = None
  /\ \A r \in Requests, o \in Orgs : tx[r].org = o => org[o] # "absent"

Joining ==
  /\ \A r \in Requests : tx[r].pc \in {"join", "accept"} =>
       LET i == tx[r].invitation IN
       /\ invitation[i].status # "absent"
       /\ invitation[i].org = tx[r].org /\ invitation[i].user = tx[r].actor
       /\ invitation[i].role = tx[r].grant
  /\ \A r \in Requests : tx[r].pc = "accept" => member[tx[r].org][tx[r].actor] = "none"
  /\ \A q, r \in Requests :
       /\ tx[q].pc = "accept" /\ tx[r].pc = "accept"
       /\ tx[q].org = tx[r].org /\ tx[q].actor = tx[r].actor
       => q = r

Exclusive ==
  \A o \in Orgs, r \in Requests :
    lock[o] = r <=> tx[r].org = o /\ tx[r].pc \in {"count", "write"}

Takes(r, o) == tx[r].pc = "write" /\ tx[r].org = o /\ tx[r].grant # "owner"
                 /\ member[o][tx[r].target] = "owner"
Guarded ==
  \A r \in Requests, o \in Orgs :
    Takes(r, o) /\ o \notin unlocked => Several(Owners(o))

IInv == TypeOK /\ Shapes /\ Known /\ Joining /\ Exclusive /\ Guarded /\ LockedPathsKeepAnOwner

-----------------------------------------------------------------------------
(* Types *)

\* Requests at rest, and an invitation before it is made.
LEMMA IdleFacts == IdleTx \in TxType /\ Shape(IdleTx) /\ IdleTx.pc = "idle" /\ IdleTx.org = None
                   /\ NoInvitation \in InvitationType
BY DEF IdleTx, Started, TxType, Ops, Pcs, Roles, Shape, NoInvitation, InvitationType

\* A request that ends leaves well-formed requests and locks.
LEMMA EndsTyped ==
  ASSUME TypeOK, Shapes, NEW r \in Requests, Ends(r)
  PROVE  /\ tx' \in [Requests -> TxType] /\ Shapes'
         /\ lock' \in [Orgs -> Requests \union {None}]
BY IdleFacts DEF TypeOK, Shapes, Ends

\* So does one that goes on to a later step.
LEMMA GoesTyped ==
  ASSUME TypeOK, Shapes, NEW r \in Requests, NEW pc \in Pcs, Goes(r, pc),
         Shape([tx[r] EXCEPT !.pc = pc])
  PROVE  tx' \in [Requests -> TxType] /\ Shapes'
<1>1. tx[r] \in TxType /\ tx' = [tx EXCEPT ![r] = [tx[r] EXCEPT !.pc = pc]]
  BY DEF TypeOK, Goes
<1>2. [tx[r] EXCEPT !.pc = pc] \in TxType
  BY <1>1 DEF TxType
<1> QED BY <1>1, <1>2 DEF TypeOK, Shapes

\* An invitation whose status changes stays one.
LEMMA StatusTyped ==
  ASSUME NEW v \in InvitationType, NEW s \in {"accepted", "revoked", "deleted"}
  PROVE  LET w == [v EXCEPT !.status = s] IN
         /\ w \in InvitationType /\ w.status = s
         /\ w.org = v.org /\ w.user = v.user /\ w.role = v.role
<1>1. /\ v.org \in Orgs \union {None} /\ v.user \in Users \union {None}
      /\ v.role \in InvitedRoles \union {"none"} /\ v.term \in {"open", "over"}
  BY DEF InvitationType
<1>2. [v EXCEPT !.status = s] = [status |-> s, org |-> v.org, user |-> v.user,
                                 role |-> v.role, term |-> v.term]
  BY DEF InvitationType
<1> QED BY <1>1, <1>2 DEF InvitationType

\* An invitation that expires.
LEMMA TermTyped ==
  ASSUME NEW v \in InvitationType
  PROVE  LET w == [v EXCEPT !.term = "over"] IN
         /\ w \in InvitationType /\ w.status = v.status
         /\ w.org = v.org /\ w.user = v.user /\ w.role = v.role
<1>1. /\ v.status \in {"absent", "pending", "accepted", "revoked", "deleted"}
      /\ v.org \in Orgs \union {None} /\ v.user \in Users \union {None}
      /\ v.role \in InvitedRoles \union {"none"}
  BY DEF InvitationType
<1>2. [v EXCEPT !.term = "over"] = [status |-> v.status, org |-> v.org, user |-> v.user,
                                    role |-> v.role, term |-> "over"]
  BY DEF InvitationType
<1> QED BY <1>1, <1>2 DEF InvitationType

\* Giving a user a role, or none, keeps the type of the memberships.
LEMMA RoleTyped ==
  ASSUME TypeOK, NEW o \in Orgs, NEW u \in Users, NEW role \in Roles \union {"none"}
  PROVE  [member EXCEPT ![o][u] = role] \in [Orgs -> [Users -> Roles \union {"none"}]]
<1>1. [member[o] EXCEPT ![u] = role] \in [Users -> Roles \union {"none"}]
  BY DEF TypeOK
<1> QED BY <1>1 DEF TypeOK

\* A row held by a deletion is recorded with the step it goes on to.
LEMMA HoldsTyped ==
  ASSUME TypeOK, Shapes, NEW r \in Requests, NEW pc \in Pcs, NEW S \in SUBSET (Orgs \X Users),
         tx' = [tx EXCEPT ![r].pc = pc, ![r].held = S],
         \/ pc = "drop" /\ tx[r].pc = "scrub"
         \/ pc = "finish" /\ tx[r].pc = "purge"
  PROVE  tx' \in [Requests -> TxType] /\ Shapes'
<1>1. tx[r] \in TxType /\ Shape(tx[r])
  BY DEF TypeOK, Shapes
<1> DEFINE t == [tx[r] EXCEPT !.pc = pc]
           h == [t EXCEPT !.held = S]
<1>2. t \in TxType /\ t.pc = pc
  BY <1>1 DEF TxType
<1>3. h \in TxType /\ h.pc = pc /\ h.org = tx[r].org /\ h.actor = tx[r].actor
  <2>1. h \in TxType /\ h.pc = t.pc /\ h.org = t.org /\ h.actor = t.actor
    BY <1>2 DEF TxType
  <2>2. t.org = tx[r].org /\ t.actor = tx[r].actor
    BY <1>1 DEF TxType
  <2> HIDE DEF t, h
  <2> QED BY <1>2, <2>1, <2>2
<1>4. tx' = [tx EXCEPT ![r] = h]
  BY DEF TypeOK
<1>5. Shape(h)
  <2> HIDE DEF h
  <2> QED BY <1>1, <1>3 DEF Shape
<1> HIDE DEF t, h
<1>6. tx' \in [Requests -> TxType]
  BY <1>3, <1>4 DEF TypeOK
<1>7. \A q \in Requests : tx'[q] = IF q = r THEN h ELSE tx[q]
  BY <1>4 DEF TypeOK
<1> QED BY <1>5, <1>6, <1>7 DEF Shapes

\* Dropping rows and deleting invitations keep the types.
LEMMA DropTyped ==
  ASSUME TypeOK, NEW rows, Drop(rows)
  PROVE  member' \in [Orgs -> [Users -> Roles \union {"none"}]] /\ unlocked' \in SUBSET Orgs
BY DEF TypeOK, Drop

\* Invitations that are deleted.
LEMMA DeleteInvitationsTyped ==
  ASSUME TypeOK, NEW S, DeleteInvitations(S)
  PROVE  invitation' \in [Invitations -> InvitationType]
<1>1. \A i \in Invitations : [invitation[i] EXCEPT !.status = "deleted"] \in InvitationType
  BY StatusTyped DEF TypeOK
<1> QED BY <1>1 DEF TypeOK, DeleteInvitations

\* A change of role or a removal keeps the types.
LEMMA RoleStepTyped ==
  ASSUME TypeOK, Shapes, NEW r \in Requests, RoleStep(r)
  PROVE  TypeOK' /\ Shapes'
<1>0. tx[r] \in TxType /\ Shape(tx[r])
  BY DEF TypeOK, Shapes
<1>1. CASE LockOwners(r)
  <2>1. CASE Ends(r)
    BY <1>1, <2>1, EndsTyped DEF LockOwners, TypeOK
  <2>2. ASSUME NEW pc \in {"count", "write"}, Goes(r, pc)
        PROVE  tx' \in [Requests -> TxType] /\ Shapes'
    <3>1. Shape([tx[r] EXCEPT !.pc = pc])
      BY <1>0, <1>1 DEF LockOwners, Shape, TxType
    <3> QED BY <2>2, <3>1, GoesTyped DEF Pcs
  <2>3. CASE lock' = [lock EXCEPT ![tx[r].org] = r] /\ \E pc \in {"count", "write"} : Goes(r, pc)
    BY <1>1, <2>2, <2>3 DEF LockOwners, TypeOK
  <2> QED BY <1>1, <2>1, <2>3 DEF LockOwners
<1>2. CASE CountOwners(r)
  <2>1. CASE Ends(r)
    BY <1>2, <2>1, EndsTyped DEF CountOwners, TypeOK
  <2>2. CASE Goes(r, "write") /\ UNCHANGED lock
    <3>1. Shape([tx[r] EXCEPT !.pc = "write"])
      BY <1>0, <1>2 DEF CountOwners, Shape, TxType
    <3>2. tx' \in [Requests -> TxType] /\ Shapes'
      BY <2>2, <3>1, GoesTyped DEF Pcs
    <3> QED BY <1>2, <2>2, <3>2 DEF CountOwners, TypeOK
  <2> QED BY <1>2, <2>1, <2>2 DEF CountOwners
<1>3. CASE WriteMember(r)
  <2>1. member' \in [Orgs -> [Users -> Roles \union {"none"}]]
    BY <1>0, <1>3 DEF WriteMember, TypeOK, TxType
  <2> QED BY <1>3, <2>1, EndsTyped DEF WriteMember, TypeOK
<1> QED BY <1>1, <1>2, <1>3 DEF RoleStep

\* An invitation or an acceptance keeps the types.
LEMMA InvitationStepTyped ==
  ASSUME TypeOK, Shapes, NEW r \in Requests, InvitationStep(r)
  PROVE  TypeOK' /\ Shapes'
<1>0. tx[r] \in TxType /\ Shape(tx[r])
  BY DEF TypeOK, Shapes
<1>1. CASE CheckInvite(r)
  <2>1. CASE Ends(r)
    BY <1>1, <2>1, EndsTyped DEF CheckInvite, TypeOK
  <2>2. CASE UNCHANGED lock /\ \E S \in SUBSET Invitations :
               tx' = [tx EXCEPT ![r].pc = "create", ![r].stale = S]
    <3>1. PICK S \in SUBSET Invitations : tx' = [tx EXCEPT ![r].pc = "create", ![r].stale = S]
      BY <2>2
    <3>2. [[tx[r] EXCEPT !.pc = "create"] EXCEPT !.stale = S] \in TxType
          /\ Shape([[tx[r] EXCEPT !.pc = "create"] EXCEPT !.stale = S])
      BY <1>0, <1>1 DEF TxType, Pcs, Shape, CheckInvite
    <3>3. tx' = [tx EXCEPT ![r] = [[tx[r] EXCEPT !.pc = "create"] EXCEPT !.stale = S]]
      BY <3>1 DEF TypeOK
    <3> QED BY <1>1, <2>2, <3>2, <3>3 DEF CheckInvite, TypeOK, Shapes
  <2>3. Ends(r) \/ (UNCHANGED lock /\ \E S \in SUBSET Invitations :
               tx' = [tx EXCEPT ![r].pc = "create", ![r].stale = S])
    BY <1>1, ZenonT(60) DEF CheckInvite
  <2> QED BY <2>1, <2>2, <2>3
<1>2. CASE Join(r)
  <2>1. CASE Ends(r)
    BY <1>2, <2>1, EndsTyped DEF Join, TypeOK
  <2>2. CASE Goes(r, "accept") /\ UNCHANGED lock
    <3>1. Shape([tx[r] EXCEPT !.pc = "accept"])
      BY <1>0, <1>2 DEF Join, Shape, TxType
    <3>2. tx' \in [Requests -> TxType] /\ Shapes'
      BY <2>2, <3>1, GoesTyped DEF Pcs
    <3> QED BY <1>2, <2>2, <3>2 DEF Join, TypeOK
  <2> QED BY <1>2, <2>1, <2>2 DEF Join
<1>3. CASE Accept(r)
  <2>1. tx[r].org \in Orgs /\ tx[r].actor \in Users /\ tx[r].grant \in Roles \union {"none"}
        /\ tx[r].invitation \in Invitations
    BY <1>0, <1>3 DEF Accept, Shape, TxType
  <2>2. member' \in [Orgs -> [Users -> Roles \union {"none"}]]
    <3>1. [member EXCEPT ![tx[r].org][tx[r].actor] = tx[r].grant]
            \in [Orgs -> [Users -> Roles \union {"none"}]]
      BY <2>1, RoleTyped
    <3> QED BY <1>3, <3>1 DEF Accept, TypeOK
  <2>3. [invitation[tx[r].invitation] EXCEPT !.status = "accepted"] \in InvitationType
    BY <2>1, StatusTyped DEF TypeOK
  <2>4. invitation' \in [Invitations -> InvitationType]
    BY <1>3, <2>3 DEF Accept, TypeOK
  <2> QED BY <1>3, <2>2, <2>4, EndsTyped DEF Accept, TypeOK
<1>4. ASSUME NEW i \in Invitations, CreateInvitation(r, i)
      PROVE  TypeOK' /\ Shapes'
  <2>1. [status |-> "pending", org |-> tx[r].org, user |-> tx[r].target,
         role |-> tx[r].grant, term |-> "open"] \in InvitationType
    BY <1>0, <1>4 DEF CreateInvitation, InvitationType, Shape, TxType
  <2>2. \A j \in Invitations : [invitation[j] EXCEPT !.status = "revoked"] \in InvitationType
    BY StatusTyped DEF TypeOK
  <2>3. invitation' \in [Invitations -> InvitationType]
    BY <1>4, <2>1, <2>2 DEF CreateInvitation, TypeOK
  <2> QED BY <1>4, <2>3, EndsTyped DEF CreateInvitation, TypeOK
<1> QED BY <1>1, <1>2, <1>3, <1>4 DEF InvitationStep

\* An erasure, a deletion and an abort keep the types.
LEMMA ErasureStepTyped ==
  ASSUME TypeOK, Shapes, NEW r \in Requests, ErasureStep(r) \/ AccountStep(r) \/ Abort(r)
  PROVE  TypeOK' /\ Shapes'
<1>0. tx[r] \in TxType /\ Shape(tx[r])
  BY DEF TypeOK, Shapes
<1>1. CASE ScrubMembers(r)
  <2>1. Rows({tx[r].org}, Users) \in SUBSET (Orgs \X Users) /\ tx[r].pc = "scrub"
    BY <1>0, <1>1 DEF Rows, ScrubMembers, Shape
  <2>2. tx' = [tx EXCEPT ![r].pc = "drop", ![r].held = Rows({tx[r].org}, Users)]
    BY <1>1 DEF ScrubMembers
  <2>3. tx' \in [Requests -> TxType] /\ Shapes'
    BY <2>1, <2>2, HoldsTyped DEF Pcs
  <2> QED BY <1>1, <2>3 DEF ScrubMembers, TypeOK
<1>2. CASE EraseOrganization(r)
  <2>1. org' \in [Orgs -> {"absent", "live", "erased", "gone"}]
    BY <1>2 DEF EraseOrganization, TypeOK
  <2>2. /\ member' \in [Orgs -> [Users -> Roles \union {"none"}]] /\ unlocked' \in SUBSET Orgs
        /\ invitation' \in [Invitations -> InvitationType]
    BY <1>2, DropTyped, DeleteInvitationsTyped DEF EraseOrganization
  <2> QED BY <1>2, <2>1, <2>2, EndsTyped DEF EraseOrganization, TypeOK
<1>3. CASE DeleteAccount(r)
  <2>1. tx[r].actor \in Users
    BY <1>0, <1>3 DEF DeleteAccount, Shape
  <2>2. account' \in [Users -> {"active", "deleted", "erased"}] /\ leaving' \in SUBSET Users
    BY <1>3, <2>1, SMTT(60) DEF DeleteAccount, TypeOK
  <2> QED BY <1>3, <2>2, EndsTyped DEF DeleteAccount, TypeOK
<1>4. CASE PurgeMemberships(r)
  <2>1. CASE Ends(r)
    BY <1>4, <2>1, EndsTyped DEF PurgeMemberships, TypeOK
  <2>2. CASE /\ tx' = [tx EXCEPT ![r].pc = "finish", ![r].held = Rows(Orgs, {tx[r].actor})]
             /\ UNCHANGED lock
    <3>1. Rows(Orgs, {tx[r].actor}) \in SUBSET (Orgs \X Users) /\ tx[r].pc = "purge"
      BY <1>0, <1>4 DEF Rows, PurgeMemberships, Shape
    <3>2. tx' \in [Requests -> TxType] /\ Shapes'
      BY <2>2, <3>1, HoldsTyped DEF Pcs
    <3> QED BY <1>4, <2>2, <3>2 DEF PurgeMemberships, TypeOK
  <2> QED BY <1>4, <2>1, <2>2 DEF PurgeMemberships
<1>5. CASE EraseAccount(r)
  <2>1. account' \in [Users -> {"active", "deleted", "erased"}]
    BY <1>5 DEF EraseAccount, TypeOK
  <2>2. /\ member' \in [Orgs -> [Users -> Roles \union {"none"}]] /\ unlocked' \in SUBSET Orgs
        /\ invitation' \in [Invitations -> InvitationType]
    BY <1>5, DropTyped, DeleteInvitationsTyped DEF EraseAccount
  <2> QED BY <1>5, <2>1, <2>2, EndsTyped DEF EraseAccount, TypeOK
<1>6. CASE Abort(r)
  BY <1>6, EndsTyped DEF Abort, TypeOK
<1> QED BY <1>1, <1>2, <1>3, <1>4, <1>5, <1>6 DEF ErasureStep, AccountStep

\* What a request begins as, whichever operation it is for.
LEMMA BeginFacts ==
  ASSUME TypeOK, Known, NEW r \in Requests, Begin(r)
  PROVE  /\ tx[r].pc = "idle"
         /\ UNCHANGED <<org, member, invitation, account, leaving, lock, unlocked>>
         /\ \E t \in TxType :
              /\ tx' = [tx EXCEPT ![r] = t]
              /\ Shape(t)
              /\ t.pc \notin {"idle", "count", "write", "accept", "drop", "finish"}
              /\ t.org \in Orgs => org[t.org] # "absent"
              /\ t.pc = "join" =>
                   LET i == t.invitation IN
                   /\ invitation[i].status # "absent"
                   /\ invitation[i].org = t.org /\ invitation[i].user = t.actor
                   /\ invitation[i].role = t.grant
<1>1. ASSUME NEW u \in Users, BeginLeave(r, u)
      PROVE  \E t \in TxType : /\ tx' = [tx EXCEPT ![r] = t] /\ Shape(t)
                               /\ t.pc \in {"delete", "purge"} /\ t.org \notin Orgs
  <2>1. PICK step \in {<<"delete", "delete">>, <<"eraseUser", "purge">>} :
          tx' = [tx EXCEPT ![r] = Started(step[1], step[2], u, None, "none", None, "none", None)]
    BY <1>1 DEF BeginLeave
  <2> DEFINE t == Started(step[1], step[2], u, None, "none", None, "none", None)
  <2>2. t \in TxType /\ Shape(t) /\ t.pc \in {"delete", "purge"} /\ t.org = None
    BY DEF IdleTx, Started, TxType, Ops, Pcs, Roles, Shape
  <2> HIDE DEF t
  <2>3. tx' = [tx EXCEPT ![r] = t]
    BY <2>1 DEF t
  <2> QED BY <2>2, <2>3, ConstantsAssumption
<1>2. ASSUME NEW u \in Users, NEW i \in Invitations, BeginAccept(r, u, i)
      PROVE  \E t \in TxType :
               /\ tx' = [tx EXCEPT ![r] = t] /\ Shape(t) /\ t.pc = "join"
               /\ org[t.org] # "absent" /\ invitation[t.invitation].status # "absent"
               /\ invitation[t.invitation].org = t.org /\ invitation[t.invitation].user = t.actor
               /\ invitation[t.invitation].role = t.grant
  <2> DEFINE t == Started("accept", "join", u, invitation[i].org, "none", None, invitation[i].role, i)
  <2>1. invitation[i].status = "pending" /\ invitation[i].user = u
        /\ invitation[i].org \in Orgs /\ invitation[i].role \in InvitedRoles
        /\ org[invitation[i].org] # "absent"
    BY <1>2 DEF BeginAccept, Usable, Known
  <2>3. t \in TxType /\ Shape(t) /\ t.pc = "join" /\ t.actor = u /\ t.invitation = i
        /\ t.org = invitation[i].org /\ t.grant = invitation[i].role
    BY <2>1, ConstantsAssumption DEF Started, TxType, Ops, Pcs, Roles, Shape
  <2> HIDE DEF t
  <2>4. tx' = [tx EXCEPT ![r] = t]
    BY <1>2 DEF BeginAccept, t
  <2> QED BY <2>1, <2>3, <2>4
<1>3. ASSUME NEW u \in Users, NEW o \in Orgs, BeginEraseOrganization(r, u, o)
      PROVE  \E t \in TxType : /\ tx' = [tx EXCEPT ![r] = t] /\ Shape(t)
                               /\ t.pc = "scrub" /\ org[t.org] # "absent"
  <2> DEFINE t == Started("eraseOrg", "scrub", u, o, "none", None, "none", None)
  <2>1. t \in TxType /\ Shape(t) /\ t.pc = "scrub" /\ t.org = o
    BY DEF IdleTx, Started, TxType, Ops, Pcs, Roles, Shape
  <2> HIDE DEF t
  <2>2. tx' = [tx EXCEPT ![r] = t] /\ member[o][u] # "none"
    BY <1>3 DEF BeginEraseOrganization, t
  <2> QED BY <2>1, <2>2 DEF Known
<1>4. ASSUME NEW u \in Users, NEW o \in Orgs, NEW target \in Users,
             NEW grant \in Roles \union {"none"}, NEW op \in Ops, NEW pc \in {"lock", "check"},
             pc = "check" => grant \in InvitedRoles,
             BeginMemberRequest(r, op, pc, u, o, target, grant)
      PROVE  \E t \in TxType : /\ tx' = [tx EXCEPT ![r] = t] /\ Shape(t)
                               /\ t.pc \in {"lock", "check"} /\ org[t.org] # "absent"
  <2> DEFINE role == IF op = "invite" THEN "none" ELSE member[o][u]
             t == Started(op, pc, u, o, role, target, grant, None)
  <2>1. member[o][u] \in Roles \union {"none"} /\ member[o][u] # "none"
    BY <1>4 DEF BeginMemberRequest, TypeOK
  <2>2. role \in Roles \union {"none"}
    BY <2>1
  <2> HIDE DEF role
  <2>4. t \in TxType /\ Shape(t) /\ t.pc = pc /\ t.org = o
    BY <1>4, <2>2 DEF Started, TxType, Pcs, Shape
  <2> HIDE DEF t
  <2>5. tx' = [tx EXCEPT ![r] = t]
    BY <1>4 DEF BeginMemberRequest, t, role
  <2> QED BY <2>1, <2>4, <2>5 DEF Known
<1>5. ASSUME NEW u \in Users, NEW o \in Orgs, NEW target \in Users, NEW grant \in Roles,
             BeginRoleChange(r, u, o, target, grant)
      PROVE  \E t \in TxType : /\ tx' = [tx EXCEPT ![r] = t] /\ Shape(t)
                               /\ t.pc \in {"lock", "check"} /\ org[t.org] # "absent"
  BY <1>4, <1>5 DEF BeginRoleChange, Ops
<1>6. ASSUME NEW u \in Users, NEW o \in Orgs, NEW target \in Users, NEW role \in InvitedRoles,
             BeginInvite(r, u, o, target, role)
      PROVE  \E t \in TxType : /\ tx' = [tx EXCEPT ![r] = t] /\ Shape(t)
                               /\ t.pc \in {"lock", "check"} /\ org[t.org] # "absent"
  <2>1. role \in Roles \union {"none"}
    BY ConstantsAssumption DEF Roles
  <2> QED BY <1>4, <1>6, <2>1 DEF BeginInvite, Ops
<1> DEFINE Still == tx[r].pc = "idle"
                    /\ UNCHANGED <<org, member, invitation, account, leaving, lock, unlocked>>
<1>7. ASSUME NEW u \in Users
      PROVE  /\ BeginLeave(r, u) => Still
             /\ \A i \in Invitations : BeginAccept(r, u, i) => Still
             /\ \A o \in Orgs : BeginEraseOrganization(r, u, o) => Still
             /\ \A op, pc, o, target, grant :
                  BeginMemberRequest(r, op, pc, u, o, target, grant) => Still
  <2>1. BeginLeave(r, u) => Still
    BY DEF BeginLeave
  <2>2. \A i \in Invitations : BeginAccept(r, u, i) => Still
    BY DEF BeginAccept
  <2>3. \A o \in Orgs : BeginEraseOrganization(r, u, o) => Still
    BY DEF BeginEraseOrganization
  <2>4. \A op, pc, o, target, grant : BeginMemberRequest(r, op, pc, u, o, target, grant) => Still
    BY DEF BeginMemberRequest
  <2> QED BY <2>1, <2>2, <2>3, <2>4
<1>8. PICK u \in Users :
        \/ BeginLeave(r, u)
        \/ \E i \in Invitations : BeginAccept(r, u, i)
        \/ \E o \in Orgs :
             \/ BeginEraseOrganization(r, u, o)
             \/ \E target \in Users :
                  \/ \E grant \in Roles : BeginRoleChange(r, u, o, target, grant)
                  \/ \E role \in InvitedRoles : BeginInvite(r, u, o, target, role)
  BY DEF Begin
<1>9. CASE BeginLeave(r, u)
  BY <1>1, <1>7, <1>9
<1>10. CASE \E i \in Invitations : BeginAccept(r, u, i)
  BY <1>2, <1>7, <1>10
<1>11. CASE \E o \in Orgs : BeginEraseOrganization(r, u, o)
  BY <1>3, <1>7, <1>11
<1>12. CASE \E o \in Orgs, target \in Users, grant \in Roles : BeginRoleChange(r, u, o, target, grant)
  BY <1>5, <1>7, <1>12 DEF BeginRoleChange
<1>13. CASE \E o \in Orgs, target \in Users, role \in InvitedRoles : BeginInvite(r, u, o, target, role)
  BY <1>6, <1>7, <1>13 DEF BeginInvite
<1> QED BY <1>8, <1>9, <1>10, <1>11, <1>12, <1>13

\* What is no step of a transaction keeps the types.
LEMMA BackgroundTyped ==
  ASSUME TypeOK, Shapes, Background
  PROVE  TypeOK' /\ Shapes'
<1>1. ASSUME NEW u \in Users, NEW o \in Orgs, CreateOrganization(u, o)
      PROVE  TypeOK' /\ Shapes'
  <2>1. [member EXCEPT ![o][u] = "owner"] \in [Orgs -> [Users -> Roles \union {"none"}]]
    BY RoleTyped DEF Roles
  <2> QED BY <1>1, <2>1 DEF CreateOrganization, TypeOK, Shapes
<1>2. ASSUME NEW u \in Users, RemoveMemberships(u)
      PROVE  TypeOK' /\ Shapes'
  <2>1. member' \in [Orgs -> [Users -> Roles \union {"none"}]] /\ unlocked' \in SUBSET Orgs
    BY <1>2, DropTyped DEF RemoveMemberships
  <2> QED BY <1>2, <2>1 DEF RemoveMemberships, TypeOK, Shapes
<1>3. ASSUME NEW o \in Orgs, HardDelete(o)
      PROVE  TypeOK' /\ Shapes'
  <2>1. /\ member' \in [Orgs -> [Users -> Roles \union {"none"}]] /\ unlocked' \in SUBSET Orgs
        /\ invitation' \in [Invitations -> InvitationType]
    BY <1>3, DropTyped, DeleteInvitationsTyped DEF HardDelete
  <2> QED BY <1>3, <2>1 DEF HardDelete, TypeOK, Shapes
<1>4. ASSUME NEW i \in Invitations, Expire(i)
      PROVE  TypeOK' /\ Shapes'
  <2>1. [invitation[i] EXCEPT !.term = "over"] \in InvitationType
    BY TermTyped DEF TypeOK
  <2> QED BY <1>4, <2>1 DEF Expire, TypeOK, Shapes
<1>5. ASSUME NEW i \in Invitations, DeleteSettled(i)
      PROVE  TypeOK' /\ Shapes'
  BY <1>5, DeleteInvitationsTyped DEF DeleteSettled, TypeOK, Shapes
<1> QED BY <1>1, <1>2, <1>3, <1>4, <1>5 DEF Background

\* Every step keeps the types and the shapes of the requests.
LEMMA NextTyped ==
  ASSUME TypeOK, Shapes, Known, [Next]_vars
  PROVE  TypeOK' /\ Shapes'
<1>1. ASSUME NEW r \in Requests, Begin(r)
      PROVE  TypeOK' /\ Shapes'
  BY <1>1, BeginFacts DEF TypeOK, Shapes
<1>2. CASE UNCHANGED vars
  BY <1>2 DEF vars, TypeOK, Shapes
<1> QED BY <1>1, <1>2, BackgroundTyped, RoleStepTyped, InvitationStepTyped, ErasureStepTyped
        DEF Next

-----------------------------------------------------------------------------
(* Safety *)

Safe == Known /\ Joining /\ Exclusive /\ Guarded /\ LockedPathsKeepAnOwner

\* Invitations keep their data, and new ones are of an organization that exists.
Kept ==
  /\ \A i \in Invitations : invitation'[i].status = "absent" => invitation'[i] = invitation[i]
  /\ \A i \in Invitations : invitation[i].status # "absent" =>
       /\ invitation'[i].status # "absent" /\ invitation'[i].org = invitation[i].org
       /\ invitation'[i].user = invitation[i].user /\ invitation'[i].role = invitation[i].role
  /\ \A i \in Invitations : invitation'[i].status # "absent" =>
       /\ invitation'[i].org \in Orgs /\ invitation'[i].role \in InvitedRoles
       /\ org'[invitation'[i].org] # "absent"

\* Requests stay where they are or end, and locks are released with them.
Fewer ==
  /\ \A q \in Requests : tx'[q] = tx[q] \/ tx'[q] = IdleTx
  /\ \A o \in Orgs, q \in Requests : lock'[o] = q <=> lock[o] = q /\ tx'[q] = tx[q]

\* A transaction that ends frees its lock, and no other gains one.
LEMMA EndsFewer ==
  ASSUME TypeOK, Exclusive, NEW r \in Requests, Ends(r), tx[r].pc # "idle"
  PROVE  Fewer
<1>1. \A q \in Requests : tx'[q] = IF q = r THEN IdleTx ELSE tx[q]
  BY DEF Ends, TypeOK
<1>2. \A o \in Orgs : lock'[o] = IF lock[o] = r THEN None ELSE lock[o]
  BY DEF Ends
<1>3. tx[r] # IdleTx
  BY IdleFacts
<1> QED BY <1>1, <1>2, <1>3, ConstantsAssumption DEF Fewer

\* A step of no transaction.
LEMMA SameFewer ==
  ASSUME UNCHANGED <<tx, lock>>
  PROVE  Fewer
BY DEF Fewer

\* Deleting invitations keeps the data of the others.
LEMMA DeleteInvitationsKept ==
  ASSUME TypeOK, Known, NEW S, DeleteInvitations(S),
         \A o \in Orgs : org[o] # "absent" => org'[o] # "absent",
         \A i \in S \intersect Invitations : invitation[i].status # "absent"
  PROVE  Kept
<1>1. \A i \in Invitations :
        invitation'[i] = IF i \in S THEN [invitation[i] EXCEPT !.status = "deleted"]
                         ELSE invitation[i]
  BY DEF DeleteInvitations
<1>2. \A i \in Invitations : invitation[i] \in InvitationType
  BY DEF TypeOK
<1>3. ASSUME NEW i \in Invitations
      PROVE  /\ invitation'[i] = invitation[i] \/ invitation'[i].status = "deleted"
             /\ invitation'[i].org = invitation[i].org /\ invitation'[i].user = invitation[i].user
             /\ invitation'[i].role = invitation[i].role
  <2> DEFINE w == [invitation[i] EXCEPT !.status = "deleted"]
  <2>1. /\ w.status = "deleted" /\ w.org = invitation[i].org
        /\ w.user = invitation[i].user /\ w.role = invitation[i].role
    BY <1>2, StatusTyped
  <2>2. invitation'[i] = w \/ invitation'[i] = invitation[i]
    BY <1>1
  <2> HIDE DEF w
  <2> QED BY <2>1, <2>2
<1>4. \A i \in Invitations : invitation'[i] # invitation[i] => invitation[i].status # "absent"
  BY <1>1
<1> QED BY <1>3, <1>4 DEF Kept, Known

\* Steps that leave the memberships alone and only end requests keep Safe.
LEMMA EndingSafe ==
  ASSUME TypeOK, Shapes, Safe, Fewer, Kept, UNCHANGED <<org, member, unlocked>>
  PROVE  Safe'
<1>1. Known'
  BY IdleFacts, ConstantsAssumption DEF Safe, Known, Kept, Fewer
<1>2. Joining'
  <2>1. \A q \in Requests : tx'[q].pc \in {"join", "accept"} => tx'[q] = tx[q]
    BY IdleFacts DEF Fewer
  <2>2. \A q \in Requests : tx[q].pc \in {"join", "accept"} => tx[q].invitation \in Invitations
    BY DEF Shapes, Shape
  <2> QED BY <2>1, <2>2 DEF Safe, Joining, Kept
<1>3. Exclusive'
  BY IdleFacts DEF Safe, Exclusive, Fewer
<1>4. Guarded'
  BY IdleFacts DEF Safe, Guarded, Fewer, Takes, Owners
<1>5. LockedPathsKeepAnOwner'
  BY DEF Safe, LockedPathsKeepAnOwner, Owners
<1> QED BY <1>1, <1>2, <1>3, <1>4, <1>5 DEF Safe

\* Rows dropped without the lock keep Safe: the organizations they take an owner of are noted.
LEMMA DropSafe ==
  ASSUME TypeOK, Shapes, Safe, Fewer, Kept, NEW rows, Drop(rows),
         \A o \in Orgs : org[o] # "absent" => org'[o] # "absent",
         \A o \in Orgs : org'[o] = "live" => org[o] = "live"
  PROVE  Safe'
<1>1. \A o \in Orgs, u \in Users : member'[o][u] = IF <<o, u>> \in rows THEN "none" ELSE member[o][u]
  BY DEF Drop
<1>2. \A o \in Orgs : o \notin unlocked' => o \notin unlocked /\ Owners(o)' = Owners(o)
  <2> SUFFICES ASSUME NEW o \in Orgs, o \notin unlocked'
               PROVE  o \notin unlocked /\ Owners(o)' = Owners(o)
    OBVIOUS
  <2>1. o \notin unlocked /\ \A u \in Owners(o) : <<o, u>> \notin rows
    BY DEF Drop
  <2> QED BY <1>1, <2>1 DEF Owners
<1>3. \A q \in Requests : tx'[q].pc # "idle" => tx'[q] = tx[q]
  BY IdleFacts DEF Fewer
<1>4. \A q \in Requests, o \in Orgs : tx'[q].org = o => tx'[q] = tx[q]
  BY IdleFacts, ConstantsAssumption DEF Fewer
<1>5. Known'
  <2>1. \A o \in Orgs, u \in Users : member'[o][u] # "none" => org'[o] # "absent"
    BY <1>1 DEF Safe, Known
  <2>2. \A q \in Requests, o \in Orgs : tx'[q].org = o => org'[o] # "absent"
    BY <1>4 DEF Safe, Known
  <2>3. \A i \in Invitations : invitation'[i].status = "absent" =>
          invitation'[i].org = None /\ invitation'[i].user = None
    BY DEF Safe, Known, Kept
  <2> QED BY <2>1, <2>2, <2>3 DEF Known, Kept
<1>6. Joining'
  <2>1. \A q \in Requests : tx[q].pc \in {"join", "accept"} =>
          tx[q].invitation \in Invitations /\ tx[q].org \in Orgs /\ tx[q].actor \in Users
    BY DEF Shapes, Shape
  <2>2. \A q \in Requests : tx'[q].pc = "accept" => member'[tx'[q].org][tx'[q].actor] = "none"
    <3> SUFFICES ASSUME NEW q \in Requests, tx'[q].pc = "accept"
                 PROVE  member'[tx[q].org][tx[q].actor] = "none"
      BY <1>3
    <3>1. tx'[q] = tx[q] /\ tx[q].org \in Orgs /\ tx[q].actor \in Users
      BY <1>3, <2>1
    <3>2. member[tx[q].org][tx[q].actor] = "none"
      BY <3>1 DEF Safe, Joining
    <3> QED BY <1>1, <3>1, <3>2
  <2>3. \A q \in Requests : tx'[q].pc \in {"join", "accept"} =>
          LET i == tx'[q].invitation IN
          /\ invitation'[i].status # "absent"
          /\ invitation'[i].org = tx'[q].org /\ invitation'[i].user = tx'[q].actor
          /\ invitation'[i].role = tx'[q].grant
    <3> SUFFICES ASSUME NEW q \in Requests, tx'[q].pc \in {"join", "accept"}
                 PROVE  LET i == tx[q].invitation IN
                        /\ invitation'[i].status # "absent"
                        /\ invitation'[i].org = tx[q].org /\ invitation'[i].user = tx[q].actor
                        /\ invitation'[i].role = tx[q].grant
      BY <1>3
    <3>1. tx'[q] = tx[q] /\ tx[q].invitation \in Invitations
      BY <1>3, <2>1
    <3> QED BY <3>1 DEF Safe, Joining, Kept
  <2>4. \A p, q \in Requests :
          /\ tx'[p].pc = "accept" /\ tx'[q].pc = "accept"
          /\ tx'[p].org = tx'[q].org /\ tx'[p].actor = tx'[q].actor
          => p = q
    BY <1>3 DEF Safe, Joining
  <2> QED BY <2>2, <2>3, <2>4 DEF Joining
<1>7. Exclusive'
  BY IdleFacts DEF Safe, Exclusive, Fewer
<1>8. Guarded'
  <2> SUFFICES ASSUME NEW q \in Requests, NEW o \in Orgs, Takes(q, o)', o \notin unlocked'
               PROVE  Several(Owners(o))'
    BY DEF Guarded
  <2>1. tx'[q] = tx[q] /\ tx[q].target \in Users
    BY <1>3 DEF Takes, Shapes, Shape
  <2>2. Takes(q, o)
    BY <1>1, <2>1 DEF Takes
  <2> QED BY <1>2, <2>2 DEF Safe, Guarded, Several
<1>9. LockedPathsKeepAnOwner'
  BY <1>2 DEF Safe, LockedPathsKeepAnOwner
<1> QED BY <1>5, <1>6, <1>7, <1>8, <1>9 DEF Safe

\* So do requests that begin, or go on to a step that neither writes under the lock nor joins.
LEMMA MovesSafe ==
  ASSUME TypeOK, Safe, NEW r \in Requests, NEW t \in TxType, tx' = [tx EXCEPT ![r] = t],
         UNCHANGED <<org, member, invitation, lock, unlocked>>,
         tx[r].pc \notin {"count", "write"}, t.pc \notin {"count", "write", "accept"},
         t.org \in Orgs => org[t.org] # "absent",
         t.pc = "join" => /\ invitation[t.invitation].status # "absent"
                          /\ invitation[t.invitation].org = t.org
                          /\ invitation[t.invitation].user = t.actor
                          /\ invitation[t.invitation].role = t.grant
  PROVE  Safe'
<1>1. \A q \in Requests : tx'[q] = IF q = r THEN t ELSE tx[q]
  BY DEF TypeOK
<1>2. Known'
  BY <1>1 DEF Safe, Known
<1>3. Joining'
  BY <1>1 DEF Safe, Joining
<1>4. Exclusive'
  BY <1>1 DEF Safe, Exclusive
<1>5. Guarded'
  BY <1>1 DEF Safe, Guarded, Takes, Owners
<1>6. LockedPathsKeepAnOwner'
  BY DEF Safe, LockedPathsKeepAnOwner, Owners
<1> QED BY <1>2, <1>3, <1>4, <1>5, <1>6 DEF Safe

\* Changes of role and removals keep what the owners' lock guards.
LEMMA RoleStepSafe ==
  ASSUME TypeOK, Shapes, Safe, NEW r \in Requests, RoleStep(r)
  PROVE  Safe'
<1>0. tx[r] \in TxType /\ Shape(tx[r])
  BY DEF TypeOK, Shapes
<1>K. UNCHANGED <<org, invitation>> => Kept
  BY DEF Safe, Known, Kept
<1>1. CASE LockOwners(r)
  <2> DEFINE o == tx[r].org
  <2>0. tx[r].pc = "lock" /\ lock[o] = None /\ o \in Orgs /\ tx[r].target \in Users
        /\ UNCHANGED <<org, member, invitation, unlocked>>
    BY <1>0, <1>1 DEF LockOwners, Shape
  <2>1. CASE Ends(r)
    BY <2>0, <2>1, <1>K, EndsFewer, EndingSafe DEF Safe
  <2>2. ASSUME NEW pc \in {"count", "write"}, Goes(r, pc), lock' = [lock EXCEPT ![o] = r],
               pc = "write" => ~(member[o][tx[r].target] = "owner" /\ tx[r].grant # "owner")
        PROVE  Safe'
    <3>1. \A q \in Requests : q # r => tx'[q] = tx[q]
      BY <2>2 DEF Goes, TypeOK
    <3>2. tx'[r] = [tx[r] EXCEPT !.pc = pc]
      BY <2>2 DEF Goes, TypeOK
    <3>3. tx'[r].pc = pc /\ tx'[r].org = o /\ tx'[r].target = tx[r].target
          /\ tx'[r].grant = tx[r].grant
      BY <1>0, <3>2 DEF TxType
    <3>4. \A p \in Orgs : lock'[p] = IF p = o THEN r ELSE lock[p]
      BY <2>2 DEF TypeOK
    <3>5. Known'
      BY <2>0, <3>1, <3>3 DEF Safe, Known
    <3>6. Joining'
      BY <2>0, <3>1, <3>3 DEF Safe, Joining
    <3>7. Exclusive'
      BY <2>0, <3>1, <3>3, <3>4, ConstantsAssumption DEF Safe, Exclusive
    <3>8. Guarded'
      BY <2>0, <2>2, <3>1, <3>3 DEF Safe, Guarded, Takes, Owners
    <3>9. LockedPathsKeepAnOwner'
      BY <2>0 DEF Safe, LockedPathsKeepAnOwner, Owners
    <3> QED BY <3>5, <3>6, <3>7, <3>8, <3>9 DEF Safe
  <2>3. Ends(r) \/ (lock' = [lock EXCEPT ![o] = r]
                     /\ Goes(r, IF member[o][tx[r].target] = "owner" /\ tx[r].grant # "owner"
                                THEN "count" ELSE "write"))
    BY <1>1 DEF LockOwners
  <2>4. CASE ~Ends(r) /\ member[o][tx[r].target] = "owner" /\ tx[r].grant # "owner"
    BY <2>2, <2>3, <2>4
  <2>5. CASE ~Ends(r) /\ ~(member[o][tx[r].target] = "owner" /\ tx[r].grant # "owner")
    BY <2>2, <2>3, <2>5
  <2> QED BY <2>1, <2>4, <2>5
<1>2. CASE CountOwners(r)
  <2>0. tx[r].pc = "count" /\ UNCHANGED <<org, member, invitation, unlocked>>
    BY <1>2 DEF CountOwners
  <2>1. CASE Ends(r)
    BY <2>0, <2>1, <1>K, EndsFewer, EndingSafe DEF Safe
  <2>2. CASE Several(Owners(tx[r].org)) /\ Goes(r, "write") /\ UNCHANGED lock
    <3>1. \A q \in Requests : q # r => tx'[q] = tx[q]
      BY <2>2 DEF Goes, TypeOK
    <3>2. tx'[r] = [tx[r] EXCEPT !.pc = "write"]
      BY <2>2 DEF Goes, TypeOK
    <3>3. tx'[r].pc = "write" /\ tx'[r].org = tx[r].org
      BY <1>0, <3>2 DEF TxType
    <3>5. Known'
      BY <2>0, <3>1, <3>3 DEF Safe, Known
    <3>6. Joining'
      BY <2>0, <3>1, <3>3 DEF Safe, Joining
    <3>7. Exclusive'
      BY <2>0, <2>2, <3>1, <3>3 DEF Safe, Exclusive
    <3>8. Guarded'
      BY <2>0, <2>2, <3>1, <3>3 DEF Safe, Guarded, Takes, Owners, Several
    <3>9. LockedPathsKeepAnOwner'
      BY <2>0 DEF Safe, LockedPathsKeepAnOwner, Owners
    <3> QED BY <3>5, <3>6, <3>7, <3>8, <3>9 DEF Safe
  <2> QED BY <1>2, <2>1, <2>2 DEF CountOwners
<1>3. CASE WriteMember(r)
  <2> DEFINE o == tx[r].org
             u == tx[r].target
  <2>0. o \in Orgs /\ u \in Users /\ tx[r].pc = "write" /\ UNCHANGED <<org, invitation, unlocked>>
        /\ lock[o] = r
    BY <1>0, <1>3 DEF WriteMember, Shape, Safe, Exclusive
  <2>1. Fewer /\ Kept
    BY <1>3, <2>0, <1>K, EndsFewer DEF WriteMember, Safe
  <2>2. \A p \in Orgs, v \in Users :
          \/ member'[p][v] = member[p][v]
          \/ p = o /\ v = u /\ member[p][v] # "none" /\ member'[p][v] = tx[r].grant
    BY <1>3, <2>0 DEF WriteMember, TypeOK
  <2>3. \A q \in Requests : tx'[q].pc # "idle" => tx'[q] = tx[q] /\ q # r
    <3>1. tx'[r] = IdleTx
      BY <1>3 DEF WriteMember, Ends, TypeOK
    <3> QED BY <2>1, <3>1, IdleFacts DEF Fewer
  <2>4. \A q \in Requests, p \in Orgs : tx'[q].org = p => tx'[q] = tx[q]
    BY <2>1, IdleFacts, ConstantsAssumption DEF Fewer
  <2>5. Known'
    BY <2>0, <2>1, <2>2, <2>4 DEF Safe, Known, Kept
  <2>6. Joining'
    <3>1. \A q \in Requests : tx[q].pc \in {"join", "accept"} =>
            tx[q].invitation \in Invitations /\ tx[q].org \in Orgs /\ tx[q].actor \in Users
      BY DEF Shapes, Shape
    <3> QED BY <2>1, <2>2, <2>3, <3>1 DEF Safe, Joining, Kept
  <2>7. Exclusive'
    BY <2>1, IdleFacts DEF Safe, Exclusive, Fewer
  <2>8. Guarded'
    <3> SUFFICES ASSUME NEW q \in Requests, NEW p \in Orgs, Takes(q, p)', p \notin unlocked'
                 PROVE  Several(Owners(p))'
      BY DEF Guarded
    <3>1. tx'[q] = tx[q] /\ q # r /\ tx[q].target \in Users
      BY <2>3 DEF Takes, Shapes, Shape
    <3>2. p # o
      BY <2>0, <3>1 DEF Safe, Exclusive, Takes
    <3>3. \A v \in Users : member'[p][v] = member[p][v]
      BY <2>2, <3>2
    <3>4. Takes(q, p) /\ Owners(p)' = Owners(p)
      BY <3>1, <3>3 DEF Takes, Owners
    <3> QED BY <2>0, <3>4 DEF Safe, Guarded, Several
  <2>9. LockedPathsKeepAnOwner'
    <3> SUFFICES ASSUME NEW p \in Orgs, org[p] = "live", p \notin unlocked
                 PROVE  \E v \in Users : member'[p][v] = "owner"
      BY <2>0 DEF LockedPathsKeepAnOwner, Owners
    <3>1. \E v \in Users : member[p][v] = "owner"
      BY DEF Safe, LockedPathsKeepAnOwner, Owners
    <3>2. CASE Takes(r, o) /\ p = o
      <4>1. PICK a \in Users, b \in Users : a # b /\ member[o][a] = "owner" /\ member[o][b] = "owner"
        BY <2>0, <3>2 DEF Safe, Guarded, Several, Owners
      <4> QED BY <2>2, <3>2, <4>1
    <3>3. CASE ~(Takes(r, o) /\ p = o)
      BY <2>0, <2>2, <3>1, <3>3 DEF Takes
    <3> QED BY <3>2, <3>3
  <2> QED BY <2>5, <2>6, <2>7, <2>8, <2>9 DEF Safe
<1> QED BY <1>1, <1>2, <1>3 DEF RoleStep

\* Invitations and acceptances keep it.
LEMMA InvitationStepSafe ==
  ASSUME TypeOK, Shapes, Safe, NEW r \in Requests, InvitationStep(r)
  PROVE  Safe'
<1>0. tx[r] \in TxType /\ Shape(tx[r])
  BY DEF TypeOK, Shapes
<1>K. UNCHANGED <<org, invitation>> => Kept
  BY DEF Safe, Known, Kept
<1>1. CASE CheckInvite(r)
  <2>0. tx[r].pc = "check" /\ UNCHANGED <<org, member, invitation, unlocked>>
    BY <1>1 DEF CheckInvite
  <2>1. CASE Ends(r)
    BY <2>0, <2>1, <1>K, EndsFewer, EndingSafe DEF Safe
  <2>2. ASSUME NEW S \in SUBSET Invitations, UNCHANGED lock,
               tx' = [tx EXCEPT ![r].pc = "create", ![r].stale = S]
        PROVE  Safe'
    <3> DEFINE a == [tx[r] EXCEPT !.pc = "create"]
               t == [a EXCEPT !.stale = S]
    <3>1. a \in TxType /\ a.pc = "create" /\ a.org = tx[r].org
      BY <1>0 DEF TxType, Pcs
    <3> HIDE DEF a
    <3>2. t \in TxType /\ t.pc = "create" /\ t.org = tx[r].org
      BY <3>1 DEF TxType
    <3>3. tx' = [tx EXCEPT ![r] = t]
      BY <2>2 DEF TypeOK, a
    <3> HIDE DEF t
    <3>4. tx[r].org \in Orgs => org[tx[r].org] # "absent"
      BY DEF Safe, Known
    <3> QED BY <2>0, <2>2, <3>2, <3>3, <3>4, MovesSafe
  <2>3. Ends(r) \/ (UNCHANGED lock /\ \E S \in SUBSET Invitations :
               tx' = [tx EXCEPT ![r].pc = "create", ![r].stale = S])
    BY <1>1, ZenonT(60) DEF CheckInvite
  <2> QED BY <2>1, <2>2, <2>3
<1>2. CASE Join(r)
  <2>0. tx[r].pc = "join" /\ UNCHANGED <<org, member, invitation, unlocked>>
        /\ tx[r].org \in Orgs /\ tx[r].actor \in Users
        /\ \A q \in Requests : q # r => ~Inserting(q, tx[r].org, tx[r].actor)
    BY <1>0, <1>2 DEF Join, Shape
  <2>1. CASE Ends(r)
    BY <2>0, <2>1, <1>K, EndsFewer, EndingSafe DEF Safe
  <2>2. CASE member[tx[r].org][tx[r].actor] = "none" /\ Goes(r, "accept") /\ UNCHANGED lock
    <3>1. \A q \in Requests : q # r => tx'[q] = tx[q]
      BY <2>2 DEF Goes, TypeOK
    <3>2. tx'[r] = [tx[r] EXCEPT !.pc = "accept"]
      BY <2>2 DEF Goes, TypeOK
    <3>3. tx'[r].pc = "accept" /\ tx'[r].org = tx[r].org /\ tx'[r].actor = tx[r].actor
          /\ tx'[r].grant = tx[r].grant /\ tx'[r].invitation = tx[r].invitation
      BY <1>0, <3>2 DEF TxType
    <3>5. Known'
      BY <2>0, <3>1, <3>3 DEF Safe, Known
    <3>6. Joining'
      BY <2>0, <2>2, <3>1, <3>3 DEF Safe, Joining, Inserting
    <3>7. Exclusive'
      BY <2>0, <2>2, <3>1, <3>3 DEF Safe, Exclusive
    <3>8. Guarded'
      BY <2>0, <3>1, <3>3 DEF Safe, Guarded, Takes, Owners
    <3>9. LockedPathsKeepAnOwner'
      BY <2>0 DEF Safe, LockedPathsKeepAnOwner, Owners
    <3> QED BY <3>5, <3>6, <3>7, <3>8, <3>9 DEF Safe
  <2> QED BY <1>2, <2>1, <2>2 DEF Join
<1>3. CASE Accept(r)
  <2> DEFINE o == tx[r].org
             u == tx[r].actor
             i == tx[r].invitation
  <2>0. /\ tx[r].pc = "accept" /\ o \in Orgs /\ u \in Users /\ i \in Invitations
        /\ UNCHANGED <<org, unlocked>> /\ Ends(r)
        /\ member[o][u] = "none" /\ tx[r].grant \in InvitedRoles
        /\ org[o] # "absent" /\ invitation[i].status # "absent"
    BY <1>0, <1>3 DEF Accept, Shape, Safe, Joining, Known
  <2>1. invitation[i] \in InvitationType
    BY <2>0 DEF TypeOK
  <2> DEFINE w == [invitation[i] EXCEPT !.status = "accepted"]
  <2>2. \A j \in Invitations : invitation'[j] = invitation[j] \/ (j = i /\ invitation'[j] = w)
    <3>1. invitation' = invitation \/ invitation' = [invitation EXCEPT ![i] = w]
      BY <1>3 DEF Accept
    <3> HIDE DEF i, w
    <3> QED BY <2>0, <3>1 DEF TypeOK
  <2>7. /\ w.status = "accepted" /\ w.org = invitation[i].org /\ w.user = invitation[i].user
        /\ w.role = invitation[i].role
    BY <2>1 DEF InvitationType
  <2>3. Kept
    <3> HIDE DEF w
    <3> QED BY <2>0, <2>2, <2>7 DEF Kept, Safe, Known
  <2>4. Fewer
    BY <2>0, EndsFewer DEF Safe
  <2>5. CASE UNCHANGED member
    BY <2>0, <2>3, <2>4, <2>5, EndingSafe
  <2>6. CASE member' = [member EXCEPT ![o][u] = tx[r].grant]
    <3>1. \A p \in Orgs, v \in Users :
            member'[p][v] = IF p = o /\ v = u THEN tx[r].grant ELSE member[p][v]
      BY <2>0, <2>6 DEF TypeOK
    <3>2. tx[r].grant # "owner" /\ tx[r].grant # "none"
      BY <2>0, ConstantsAssumption
    <3>3. \A p \in Orgs : Owners(p)' = Owners(p)
      BY <2>0, <3>1, <3>2 DEF Owners
    <3>4. \A q \in Requests : tx'[q].pc # "idle" => tx'[q] = tx[q] /\ q # r
      <4>1. tx'[r] = IdleTx
        BY <2>0 DEF Ends, TypeOK
      <4> QED BY <2>4, <4>1, IdleFacts DEF Fewer
    <3>5. Known'
      <4>1. \A p \in Orgs, v \in Users : member'[p][v] # "none" => org'[p] # "absent"
        BY <2>0, <3>1 DEF Safe, Known
      <4>2. \A q \in Requests, p \in Orgs : tx'[q].org = p => org'[p] # "absent"
        BY <2>0, <2>4, IdleFacts, ConstantsAssumption DEF Safe, Known, Fewer
      <4>3. \A j \in Invitations : invitation'[j].status = "absent" =>
              invitation'[j].org = None /\ invitation'[j].user = None
        BY <2>3 DEF Safe, Known, Kept
      <4> QED BY <2>3, <4>1, <4>2, <4>3 DEF Known, Kept
    <3>6. Joining'
      <4>1. \A q \in Requests : tx[q].pc \in {"join", "accept"} =>
              tx[q].invitation \in Invitations /\ tx[q].org \in Orgs /\ tx[q].actor \in Users
        BY DEF Shapes, Shape
      <4>2. ASSUME NEW q \in Requests, tx'[q].pc = "accept"
            PROVE  member'[tx'[q].org][tx'[q].actor] = "none"
        <5>1. tx'[q] = tx[q] /\ q # r
          BY <3>4, <4>2
        <5>2. ~(tx[q].org = o /\ tx[q].actor = u)
          BY <2>0, <4>2, <5>1 DEF Safe, Joining
        <5>3. member[tx[q].org][tx[q].actor] = "none" /\ tx[q].org \in Orgs /\ tx[q].actor \in Users
          BY <4>1, <4>2, <5>1 DEF Safe, Joining
        <5> QED BY <3>1, <5>1, <5>2, <5>3
      <4>3. ASSUME NEW q \in Requests, tx'[q].pc \in {"join", "accept"}
            PROVE  LET j == tx'[q].invitation IN
                   /\ invitation'[j].status # "absent"
                   /\ invitation'[j].org = tx'[q].org /\ invitation'[j].user = tx'[q].actor
                   /\ invitation'[j].role = tx'[q].grant
        <5>1. tx'[q] = tx[q] /\ tx[q].invitation \in Invitations
          BY <3>4, <4>1, <4>3
        <5> QED BY <2>3, <4>3, <5>1 DEF Safe, Joining, Kept
      <4>4. \A p, q \in Requests :
              /\ tx'[p].pc = "accept" /\ tx'[q].pc = "accept"
              /\ tx'[p].org = tx'[q].org /\ tx'[p].actor = tx'[q].actor
              => p = q
        BY <3>4 DEF Safe, Joining
      <4> QED BY <4>2, <4>3, <4>4 DEF Joining
    <3>7. Exclusive'
      BY <2>4, IdleFacts DEF Safe, Exclusive, Fewer
    <3>8. Guarded'
      <4> SUFFICES ASSUME NEW q \in Requests, NEW p \in Orgs, Takes(q, p)', p \notin unlocked'
                   PROVE  Several(Owners(p))'
        BY DEF Guarded
      <4>1. tx'[q] = tx[q] /\ tx[q].target \in Users
        BY <3>4 DEF Takes, Shapes, Shape
      <4>2. Takes(q, p)
        BY <3>1, <3>2, <4>1 DEF Takes
      <4> QED BY <2>0, <3>3, <4>2 DEF Safe, Guarded, Several
    <3>9. LockedPathsKeepAnOwner'
      BY <2>0, <3>3 DEF Safe, LockedPathsKeepAnOwner
    <3> QED BY <3>5, <3>6, <3>7, <3>8, <3>9 DEF Safe
  <2> QED BY <1>3, <2>5, <2>6 DEF Accept
<1>4. ASSUME NEW i \in Invitations, CreateInvitation(r, i)
      PROVE  Safe'
  <2>0. /\ tx[r].pc = "create" /\ UNCHANGED <<org, member, unlocked>> /\ Ends(r)
        /\ invitation[i].status = "absent"
        /\ tx[r].org \in Orgs /\ tx[r].grant \in InvitedRoles /\ org[tx[r].org] # "absent"
    BY <1>0, <1>4 DEF CreateInvitation, Shape, Safe, Known
  <2>1. \A j \in Invitations :
          \/ j = i /\ invitation'[j] = [status |-> "pending", org |-> tx[r].org,
                     user |-> tx[r].target, role |-> tx[r].grant, term |-> "open"]
          \/ invitation[j].status = "pending"
             /\ invitation'[j] = [invitation[j] EXCEPT !.status = "revoked"]
          \/ invitation'[j] = invitation[j]
    BY <1>4 DEF CreateInvitation
  <2>2. \A j \in Invitations : invitation[j] \in InvitationType
    BY DEF TypeOK
  <2>3. ASSUME NEW j \in Invitations
        PROVE  \/ invitation'[j] = invitation[j]
               \/ /\ invitation[j].status # "absent" /\ invitation'[j].status # "absent"
                  /\ invitation'[j].org = invitation[j].org
                  /\ invitation'[j].user = invitation[j].user
                  /\ invitation'[j].role = invitation[j].role
               \/ /\ j = i /\ invitation'[j].status # "absent" /\ invitation'[j].org = tx[r].org
                  /\ invitation'[j].role = tx[r].grant
    <3>1. CASE j = i /\ invitation'[j] = [status |-> "pending", org |-> tx[r].org,
                 user |-> tx[r].target, role |-> tx[r].grant, term |-> "open"]
      BY <3>1
    <3>2. CASE /\ invitation[j].status = "pending"
               /\ invitation'[j] = [invitation[j] EXCEPT !.status = "revoked"]
      BY <2>2, <3>2 DEF InvitationType
    <3> QED BY <2>1, <3>1, <3>2
  <2>4. Kept
    BY <2>0, <2>3 DEF Kept, Safe, Known
  <2> QED BY <2>0, <2>4, EndsFewer, EndingSafe DEF Safe
<1> QED BY <1>1, <1>2, <1>3, <1>4 DEF InvitationStep

\* Erasures, deletions and aborts keep it.
LEMMA ErasureStepSafe ==
  ASSUME TypeOK, Shapes, Safe, NEW r \in Requests, ErasureStep(r) \/ AccountStep(r) \/ Abort(r)
  PROVE  Safe'
<1>0. tx[r] \in TxType /\ Shape(tx[r])
  BY DEF TypeOK, Shapes
<1>K. UNCHANGED <<org, invitation>> => Kept
  BY DEF Safe, Known, Kept
<1>H. ASSUME NEW pc \in {"drop", "finish"}, NEW S \in SUBSET (Orgs \X Users),
             tx' = [tx EXCEPT ![r].pc = pc, ![r].held = S], tx[r].pc \in {"scrub", "purge"},
             UNCHANGED <<org, member, invitation, lock, unlocked>>
      PROVE  Safe'
  <2> DEFINE a == [tx[r] EXCEPT !.pc = pc]
             t == [a EXCEPT !.held = S]
  <2>1. a \in TxType /\ a.pc = pc /\ a.org = tx[r].org
    BY <1>0 DEF TxType, Pcs
  <2> HIDE DEF a
  <2>2. t \in TxType /\ t.pc = pc /\ t.org = tx[r].org
    BY <2>1 DEF TxType
  <2>3. tx' = [tx EXCEPT ![r] = t]
    BY <1>H DEF TypeOK, a
  <2> HIDE DEF t
  <2>4. tx[r].org \in Orgs => org[tx[r].org] # "absent"
    BY DEF Safe, Known
  <2>5. /\ tx[r].pc \notin {"count", "write"} /\ t.pc \notin {"count", "write", "accept", "join"}
        /\ t.org \in Orgs => org[t.org] # "absent"
    BY <1>H, <2>2, <2>4
  <2> QED BY <1>H, <2>2, <2>3, <2>5, MovesSafe
<1>1. CASE ScrubMembers(r)
  <2>1. Rows({tx[r].org}, Users) \in SUBSET (Orgs \X Users) /\ tx[r].pc = "scrub"
        /\ UNCHANGED <<org, member, invitation, lock, unlocked>>
    BY <1>0, <1>1 DEF Rows, ScrubMembers, Shape
  <2>2. tx' = [tx EXCEPT ![r].pc = "drop", ![r].held = Rows({tx[r].org}, Users)]
    BY <1>1 DEF ScrubMembers
  <2> QED BY <2>1, <2>2, <1>H
<1>2. CASE EraseOrganization(r)
  <2> DEFINE S == {i \in Invitations : invitation[i].org = tx[r].org}
  <2>0. /\ Ends(r) /\ tx[r].pc = "drop" /\ tx[r].org \in Orgs
        /\ Drop(tx[r].held) /\ DeleteInvitations(S)
    BY <1>0, <1>2 DEF EraseOrganization, Shape
  <2>1. /\ \A o \in Orgs : org[o] # "absent" => org'[o] # "absent"
        /\ \A o \in Orgs : org'[o] = "live" => org[o] = "live"
    BY <1>2, <2>0 DEF EraseOrganization, TypeOK
  <2>2. \A i \in S \intersect Invitations : invitation[i].status # "absent"
    BY <2>0, ConstantsAssumption DEF Safe, Known
  <2> HIDE DEF S
  <2>3. Kept /\ Fewer
    BY <2>0, <2>1, <2>2, DeleteInvitationsKept, EndsFewer DEF Safe
  <2> QED BY <2>0, <2>1, <2>3, DropSafe
<1>3. CASE DeleteAccount(r)
  <2>1. Ends(r) /\ tx[r].pc = "delete" /\ UNCHANGED <<org, member, invitation, unlocked>>
    BY <1>3 DEF DeleteAccount
  <2> QED BY <2>1, <1>K, EndsFewer, EndingSafe DEF Safe
<1>4. CASE PurgeMemberships(r)
  <2>0. tx[r].pc = "purge" /\ tx[r].actor \in Users /\ UNCHANGED <<org, member, invitation, unlocked>>
    BY <1>0, <1>4 DEF PurgeMemberships, Shape
  <2>1. CASE Ends(r)
    BY <2>0, <2>1, <1>K, EndsFewer, EndingSafe DEF Safe
  <2>2. CASE /\ tx' = [tx EXCEPT ![r].pc = "finish", ![r].held = Rows(Orgs, {tx[r].actor})]
             /\ UNCHANGED lock
    <3>1. Rows(Orgs, {tx[r].actor}) \in SUBSET (Orgs \X Users)
      BY <2>0 DEF Rows
    <3> QED BY <2>0, <2>2, <3>1, <1>H
  <2> QED BY <1>4, <2>1, <2>2 DEF PurgeMemberships
<1>5. CASE EraseAccount(r)
  <2> DEFINE S == {i \in Invitations : invitation[i].user = tx[r].actor}
  <2>0. /\ Ends(r) /\ tx[r].pc = "finish" /\ tx[r].actor \in Users /\ UNCHANGED org
        /\ Drop(tx[r].held) /\ DeleteInvitations(S)
    BY <1>0, <1>5 DEF EraseAccount, Shape
  <2>1. \A i \in S \intersect Invitations : invitation[i].status # "absent"
    BY <2>0, ConstantsAssumption DEF Safe, Known
  <2> HIDE DEF S
  <2>2. Kept /\ Fewer
    BY <2>0, <2>1, DeleteInvitationsKept, EndsFewer DEF Safe
  <2> QED BY <2>0, <2>2, DropSafe
<1>6. CASE Abort(r)
  <2>1. Ends(r) /\ tx[r].pc # "idle" /\ UNCHANGED <<org, member, invitation, unlocked>>
    BY <1>6 DEF Abort
  <2> QED BY <2>1, <1>K, EndsFewer, EndingSafe DEF Safe
<1> QED BY <1>1, <1>2, <1>3, <1>4, <1>5, <1>6 DEF ErasureStep, AccountStep

\* What is no step of a transaction keeps it.
LEMMA BackgroundSafe ==
  ASSUME TypeOK, Shapes, Safe, Background
  PROVE  Safe'
<1>1. ASSUME NEW u \in Users, NEW o \in Orgs, CreateOrganization(u, o)
      PROVE  Safe'
  <2>1. \A p \in Orgs : org'[p] = IF p = o THEN "live" ELSE org[p]
    BY <1>1 DEF CreateOrganization, TypeOK
  <2>2. \A p \in Orgs, v \in Users :
          member'[p][v] = IF p = o /\ v = u THEN "owner" ELSE member[p][v]
    BY <1>1 DEF CreateOrganization, TypeOK
  <2>3. org[o] = "absent" /\ UNCHANGED <<invitation, lock, tx, unlocked>>
    BY <1>1 DEF CreateOrganization
  <2>4. \A q \in Requests : tx[q].org # o
    BY <2>3 DEF Safe, Known
  <2>5. Known'
    BY <2>1, <2>2, <2>3 DEF Safe, Known
  <2>6. Joining'
    <3>1. \A q \in Requests : tx[q].pc = "accept" => tx[q].org \in Orgs /\ tx[q].actor \in Users
      BY DEF Shapes, Shape
    <3> QED BY <2>2, <2>3, <2>4, <3>1 DEF Safe, Joining
  <2>7. Exclusive'
    BY <2>3 DEF Safe, Exclusive
  <2>8. Guarded'
    <3> SUFFICES ASSUME NEW q \in Requests, NEW p \in Orgs, Takes(q, p)', p \notin unlocked'
                 PROVE  Several(Owners(p))'
      BY DEF Guarded
    <3>1. p # o /\ tx[q].target \in Users
      BY <2>3, <2>4 DEF Takes, Shapes, Shape
    <3>2. Takes(q, p) /\ Owners(p)' = Owners(p)
      BY <2>2, <2>3, <3>1 DEF Takes, Owners
    <3> QED BY <2>3, <3>2 DEF Safe, Guarded, Several
  <2>9. LockedPathsKeepAnOwner'
    BY <2>1, <2>2, <2>3 DEF Safe, LockedPathsKeepAnOwner, Owners
  <2> QED BY <2>5, <2>6, <2>7, <2>8, <2>9 DEF Safe
<1>K. UNCHANGED <<org, invitation>> => Kept
  BY DEF Safe, Known, Kept
<1>2. ASSUME NEW u \in Users, RemoveMemberships(u)
      PROVE  Safe'
  <2>1. Drop(Orgs \X {u}) /\ UNCHANGED <<org, invitation, tx, lock>>
    BY <1>2 DEF RemoveMemberships
  <2> QED BY <2>1, <1>K, SameFewer, DropSafe
<1>3. ASSUME NEW o \in Orgs, HardDelete(o)
      PROVE  Safe'
  <2> DEFINE S == {i \in Invitations : invitation[i].org = o}
  <2>0. Drop({o} \X Users) /\ DeleteInvitations(S) /\ UNCHANGED <<tx, lock>>
    BY <1>3 DEF HardDelete
  <2>1. /\ \A p \in Orgs : org[p] # "absent" => org'[p] # "absent"
        /\ \A p \in Orgs : org'[p] = "live" => org[p] = "live"
    BY <1>3 DEF HardDelete, TypeOK
  <2>2. \A i \in S \intersect Invitations : invitation[i].status # "absent"
    BY ConstantsAssumption DEF Safe, Known
  <2> HIDE DEF S
  <2>3. Kept
    BY <2>0, <2>1, <2>2, DeleteInvitationsKept DEF Safe
  <2> QED BY <2>0, <2>1, <2>3, SameFewer, DropSafe
<1>4. ASSUME NEW i \in Invitations, Expire(i) \/ DeleteSettled(i)
      PROVE  Safe'
  <2>1. UNCHANGED <<org, member, tx, lock, unlocked>> /\ invitation[i].status # "absent"
    BY <1>4 DEF Expire, DeleteSettled, Usable
  <2>2. Kept
    <3>1. CASE Expire(i)
      <4>1. \A j \in Invitations :
              invitation'[j] = IF j = i THEN [invitation[i] EXCEPT !.term = "over"]
                               ELSE invitation[j]
        BY <3>1 DEF Expire, TypeOK
      <4>2. invitation[i] \in InvitationType
        BY DEF TypeOK
      <4> QED BY <2>1, <4>1, <4>2 DEF Kept, Safe, Known, InvitationType
    <3>2. CASE DeleteSettled(i)
      BY <2>1, <3>2, DeleteInvitationsKept DEF DeleteSettled, Safe
    <3> QED BY <1>4, <3>1, <3>2
  <2> QED BY <2>1, <2>2, SameFewer, EndingSafe
<1> QED BY <1>1, <1>2, <1>3, <1>4 DEF Background

-----------------------------------------------------------------------------
(* Theorems *)

\* The invariant holds of the empty database.
LEMMA InitIInv == Init => IInv
<1> SUFFICES ASSUME Init PROVE IInv
  OBVIOUS
<1>1. TypeOK /\ Shapes
  BY IdleFacts DEF Init, TypeOK, Shapes, Roles
<1>2. Known /\ Joining /\ Exclusive
  BY IdleFacts, ConstantsAssumption DEF Init, Known, Joining, Exclusive, NoInvitation
<1>3. Guarded /\ LockedPathsKeepAnOwner
  BY IdleFacts DEF Init, Guarded, Takes, LockedPathsKeepAnOwner
<1> QED BY <1>1, <1>2, <1>3 DEF IInv

\* Every step keeps the invariant.
LEMMA NextIInv == IInv /\ [Next]_vars => IInv'
<1> SUFFICES ASSUME IInv, [Next]_vars PROVE IInv'
  OBVIOUS
<1>1. TypeOK /\ Shapes /\ Safe
  BY DEF IInv, Safe
<1>2. TypeOK' /\ Shapes'
  BY <1>1, NextTyped DEF Safe
<1>3. ASSUME UNCHANGED vars
      PROVE  Safe'
  <2>1. UNCHANGED <<org, member, invitation, tx, lock, unlocked>>
    BY <1>3 DEF vars
  <2>2. Kept
    BY <1>1, <2>1 DEF Safe, Known, Kept
  <2> QED BY <1>1, <2>1, <2>2, SameFewer, EndingSafe
<1>4. ASSUME NEW r \in Requests, Begin(r)
      PROVE  Safe'
  <2>1. UNCHANGED <<org, member, invitation, lock, unlocked>> /\ tx[r].pc = "idle"
    BY <1>1, <1>4, BeginFacts DEF Safe
  <2>2. PICK t \in TxType :
          /\ tx' = [tx EXCEPT ![r] = t]
          /\ t.pc \notin {"idle", "count", "write", "accept"}
          /\ t.org \in Orgs => org[t.org] # "absent"
          /\ t.pc = "join" =>
               LET i == t.invitation IN
               /\ invitation[i].status # "absent"
               /\ invitation[i].org = t.org /\ invitation[i].user = t.actor
               /\ invitation[i].role = t.grant
    BY <1>1, <1>4, BeginFacts DEF Safe
  <2> QED BY <1>1, <2>1, <2>2, MovesSafe
<1>6. ASSUME NEW r \in Requests,
             RoleStep(r) \/ InvitationStep(r) \/ ErasureStep(r) \/ AccountStep(r) \/ Abort(r)
      PROVE  Safe'
  BY <1>1, <1>6, RoleStepSafe, InvitationStepSafe, ErasureStepSafe
<1>7. ASSUME Background
      PROVE  Safe'
  BY <1>1, <1>7, BackgroundSafe
<1>5. Safe'
  BY <1>3, <1>4, <1>6, <1>7 DEF Next
<1> QED BY <1>2, <1>5 DEF IInv, Safe

\* Every variable keeps its type.
THEOREM TypeCorrect == Spec => []TypeOK
<1>1. IInv => TypeOK
  BY DEF IInv
<1> QED BY <1>1, InitIInv, NextIInv, PTL DEF Spec

\* update-member and remove-member: however many demotions, removals and joins run at
\* once, an organization keeps an owner until a path without its lock takes one.
THEOREM LockedPathsKeepAnOwnerHolds == Spec => []LockedPathsKeepAnOwner
<1>1. IInv => LockedPathsKeepAnOwner
  BY DEF IInv
<1> QED BY <1>1, InitIInv, NextIInv, PTL DEF Spec

Joins ==
  \A o \in Orgs, u \in Users :
    member[o][u] = "none" /\ member'[o][u] # "none" =>
      \/ org[o] = "absent"
      \/ \E i \in Invitations :
           /\ Usable(i) /\ invitation'[i].status = "accepted"
           /\ invitation[i].org = o /\ invitation[i].user = u
           /\ invitation[i].role = member'[o][u]

\* Every step that brings a user into an organization founds it or spends an invitation.
LEMMA StepJoins == IInv /\ [Next]_vars => Joins
<1> SUFFICES ASSUME IInv, [Next]_vars PROVE Joins
  OBVIOUS
<1>1. TypeOK /\ Shapes /\ Joining /\ Known
  BY DEF IInv
<1>D. ASSUME NEW rows, Drop(rows)
      PROVE  Joins
  BY <1>D DEF Joins, Drop
<1>S. CASE UNCHANGED member
  BY <1>S DEF Joins
<1>2. ASSUME NEW r \in Requests, Accept(r)
      PROVE  Joins
  <2> DEFINE o == tx[r].org
             u == tx[r].actor
             i == tx[r].invitation
  <2>1. /\ o \in Orgs /\ u \in Users /\ i \in Invitations
        /\ invitation[i].org = o /\ invitation[i].user = u /\ invitation[i].role = tx[r].grant
    BY <1>1, <1>2 DEF Accept, Shapes, Shape, Joining
  <2>2. CASE UNCHANGED member
    BY <2>2 DEF Joins
  <2>3. CASE /\ Usable(i)
             /\ invitation' = [invitation EXCEPT ![i].status = "accepted"]
             /\ member' = [member EXCEPT ![o][u] = tx[r].grant]
    <3>1. \A p \in Orgs, v \in Users :
            member'[p][v] = IF p = o /\ v = u THEN tx[r].grant ELSE member[p][v]
      BY <1>1, <2>1, <2>3 DEF TypeOK
    <3>2. invitation'[i].status = "accepted"
      <4>1. invitation[i] \in InvitationType /\ invitation'[i] = [invitation[i] EXCEPT !.status = "accepted"]
        BY <1>1, <2>1, <2>3 DEF TypeOK
      <4> QED BY <4>1, StatusTyped
    <3> QED BY <2>1, <2>3, <3>1, <3>2 DEF Joins
  <2> QED BY <1>2, <2>2, <2>3 DEF Accept
<1>3. ASSUME NEW r \in Requests, WriteMember(r)
      PROVE  Joins
  <2>1. tx[r].org \in Orgs /\ tx[r].target \in Users
    BY <1>1, <1>3 DEF WriteMember, Shapes, Shape
  <2> QED BY <1>1, <1>3, <2>1 DEF WriteMember, Joins, TypeOK
<1>4. ASSUME NEW u \in Users, NEW o \in Orgs, CreateOrganization(u, o)
      PROVE  Joins
  BY <1>1, <1>4 DEF CreateOrganization, Joins, TypeOK
<1>5. ASSUME NEW r \in Requests,
             Begin(r) \/ RoleStep(r) \/ InvitationStep(r) \/ ErasureStep(r) \/ AccountStep(r) \/ Abort(r)
      PROVE  Joins
  <2>1. Begin(r) => UNCHANGED member
    BY <1>1, BeginFacts
  <2>2. RoleStep(r) => UNCHANGED member \/ WriteMember(r)
    BY DEF RoleStep, LockOwners, CountOwners
  <2>3. InvitationStep(r) => UNCHANGED member \/ Accept(r)
    BY DEF InvitationStep, CheckInvite, Join, CreateInvitation
  <2>4. ErasureStep(r) \/ AccountStep(r) \/ Abort(r) => UNCHANGED member \/ Drop(tx[r].held)
    BY DEF ErasureStep, AccountStep, Abort, ScrubMembers, EraseOrganization, DeleteAccount,
           PurgeMemberships, EraseAccount
  <2> QED BY <1>5, <1>D, <1>S, <1>2, <1>3, <2>1, <2>2, <2>3, <2>4
<1>6. CASE Background
  BY <1>6, <1>D, <1>S, <1>4
     DEF Background, RemoveMemberships, HardDelete, Expire, DeleteSettled
<1>7. CASE UNCHANGED vars
  BY <1>7, <1>S DEF vars
<1> QED BY <1>5, <1>6, <1>7 DEF Next

\* accept-invitation: nobody comes into an organization but by founding it, or on an
\* invitation of his that is usable at that moment and that is spent with it.
THEOREM JoinsSpendAnInvitationHolds == Spec => JoinsSpendAnInvitation
<1>1. IInv /\ [Next]_vars => [Joins]_vars
  BY StepJoins
<1> QED BY <1>1, InitIInv, NextIInv, PTL DEF Spec, JoinsSpendAnInvitation, Joins

-----------------------------------------------------------------------------
(* Ownership. *)

\* What OnlyOwnersMoveOwnership needs of the state.  A request about to write that no owner began
\* neither makes an owner nor meets one; the rows a deletion holds are its organization's or
\* its user's; and who is leaving has no account any more.
Authorized ==
  \A r \in Requests :
    tx[r].pc \in {"count", "write"} /\ tx[r].role # "owner" =>
      tx[r].grant # "owner" /\ member[tx[r].org][tx[r].target] # "owner"
Holding ==
  \A r \in Requests :
    /\ tx[r].pc = "drop" => tx[r].held \subseteq {tx[r].org} \X Users
    /\ tx[r].pc = "finish" => tx[r].held \subseteq Orgs \X {tx[r].actor}
Departed == \A u \in leaving : account[u] # "active"

\* The same property of a step.
Moves ==
  \A o \in Orgs, u \in Users :
    (member[o][u] = "owner") # (member'[o][u] = "owner") =>
      \/ org[o] = "absent"
      \/ member'[o][u] = "none" /\ (account'[u] # "active" \/ org'[o] \in {"erased", "gone"})
      \/ \E r \in Requests :
           /\ tx[r].org = o /\ tx[r].target = u /\ tx[r].grant = member'[o][u]
           /\ tx[r].role = "owner" /\ tx'[r] # tx[r]

\* Steps that make nobody an owner.
NoNewOwner == \A o \in Orgs, u \in Users : member'[o][u] = "owner" => member[o][u] = "owner"

\* A request that writes under the lock does so on its organization alone.
LEMMA AloneUnderLock ==
  ASSUME Exclusive, Shapes, NEW q \in Requests, NEW r \in Requests, tx[q].org = tx[r].org,
         tx[q].pc \in {"count", "write"}, tx[r].pc \in {"count", "write"}
  PROVE  q = r
BY DEF Exclusive, Shapes, Shape

\* Dropping rows makes no owner.
LEMMA DropsNoNewOwner ==
  ASSUME NEW rows, Drop(rows)
  PROVE  NoNewOwner
BY DEF Drop, NoNewOwner

\* An acceptance makes none either: no invitation carries ownership.
LEMMA AcceptsNoNewOwner ==
  ASSUME TypeOK, Shapes, NEW r \in Requests, Accept(r)
  PROVE  /\ NoNewOwner
         /\ \A o \in Orgs, u \in Users : member[o][u] = "owner" /\ Joining => member'[o][u] = "owner"
<1> DEFINE o == tx[r].org
           u == tx[r].actor
<1>1. o \in Orgs /\ u \in Users /\ tx[r].grant # "owner" /\ tx[r].pc = "accept"
  BY ConstantsAssumption DEF Accept, Shapes, Shape
<1>2. \A p \in Orgs, v \in Users :
        member'[p][v] = member[p][v] \/ (p = o /\ v = u /\ member'[p][v] = tx[r].grant)
  BY <1>1 DEF Accept, TypeOK
<1> HIDE DEF o, u
<1>3. Joining => member[o][u] = "none"
  BY <1>1 DEF Joining, o, u
<1> QED BY <1>1, <1>2, <1>3 DEF NoNewOwner

\* Of the members only a request that writes changes one, or rows are dropped, a user joins,
\* or an organization is founded.
LEMMA MemberSteps ==
  ASSUME IInv, [Next]_vars
  PROVE  \/ UNCHANGED member
         \/ \E rows : Drop(rows)
         \/ \E r \in Requests : WriteMember(r) \/ Accept(r)
         \/ \E u \in Users, o \in Orgs : CreateOrganization(u, o)
<1>1. TypeOK /\ Shapes /\ Known
  BY DEF IInv
<1>2. ASSUME NEW r \in Requests,
             Begin(r) \/ RoleStep(r) \/ InvitationStep(r) \/ ErasureStep(r) \/ AccountStep(r) \/ Abort(r)
      PROVE  UNCHANGED member \/ (\E rows : Drop(rows)) \/ WriteMember(r) \/ Accept(r)
  <2>1. Begin(r) => UNCHANGED member
    BY <1>1, BeginFacts
  <2>2. RoleStep(r) => UNCHANGED member \/ WriteMember(r)
    BY DEF RoleStep, LockOwners, CountOwners
  <2>3. InvitationStep(r) => UNCHANGED member \/ Accept(r)
    BY DEF InvitationStep, CheckInvite, Join, CreateInvitation
  <2>4. ErasureStep(r) \/ AccountStep(r) \/ Abort(r) => UNCHANGED member \/ Drop(tx[r].held)
    BY DEF ErasureStep, AccountStep, Abort, ScrubMembers, EraseOrganization, DeleteAccount,
           PurgeMemberships, EraseAccount
  <2> QED BY <1>2, <2>1, <2>2, <2>3, <2>4
<1>3. ASSUME Background
      PROVE  \/ UNCHANGED member \/ (\E rows : Drop(rows))
             \/ \E u \in Users, o \in Orgs : CreateOrganization(u, o)
  BY <1>3 DEF Background, RemoveMemberships, HardDelete, Expire, DeleteSettled
<1>4. UNCHANGED vars => UNCHANGED member
  BY DEF vars
<1> QED BY <1>2, <1>3, <1>4 DEF Next

\* Which steps take a request to its count or write, or have it hold rows.
LEMMA RequestSteps ==
  ASSUME IInv, [Next]_vars, NEW q \in Requests, tx'[q] # tx[q],
         tx'[q].pc \in {"count", "write", "drop", "finish"}
  PROVE  LockOwners(q) \/ CountOwners(q) \/ ScrubMembers(q) \/ PurgeMemberships(q)
<1>1. TypeOK /\ Shapes /\ Known
  BY DEF IInv
<1>2. tx[q] \in TxType
  BY <1>1 DEF TypeOK
<1>E. ASSUME NEW r \in Requests, Ends(r)
      PROVE  FALSE
  BY <1>1, <1>E, IdleFacts DEF Ends, TypeOK
<1>G. ASSUME NEW r \in Requests, NEW pc \in {"create", "accept"}, NEW S,
             Goes(r, pc) \/ tx' = [tx EXCEPT ![r].pc = pc, ![r].stale = S]
      PROVE  FALSE
  <2>1. r = q
    BY <1>1, <1>G DEF Goes, TypeOK
  <2>2. CASE tx' = [tx EXCEPT ![q].pc = pc]
    <3>1. tx'[q] = [tx[q] EXCEPT !.pc = pc]
      BY <1>1, <2>2 DEF TypeOK
    <3> QED BY <1>2, <3>1 DEF TxType
  <2>3. CASE tx' = [tx EXCEPT ![q].pc = pc, ![q].stale = S]
    <3>1. tx'[q].pc = pc
      BY <1>1, <1>2, <2>3 DEF TypeOK, TxType
    <3> QED BY <3>1
  <2> QED BY <1>G, <2>1, <2>2, <2>3 DEF Goes
<1>3. ASSUME NEW r \in Requests, Begin(r)
      PROVE  FALSE
  <2>1. PICK t \in TxType : /\ tx' = [tx EXCEPT ![r] = t]
                            /\ t.pc \notin {"count", "write", "drop", "finish"}
    BY <1>1, <1>3, BeginFacts
  <2> QED BY <1>1, <2>1 DEF TypeOK
<1>4. ASSUME NEW r \in Requests, RoleStep(r)
      PROVE  LockOwners(q) \/ CountOwners(q)
  <2>1. CASE r = q
    BY <1>4, <1>E, <2>1 DEF RoleStep, WriteMember
  <2>2. CASE r # q
    BY <1>1, <1>4, <2>2 DEF RoleStep, LockOwners, CountOwners, WriteMember, Ends, Goes, TypeOK
  <2> QED BY <2>1, <2>2
<1>5. ASSUME NEW r \in Requests, InvitationStep(r)
      PROVE  FALSE
  <2>1. CASE CheckInvite(r)
    BY <1>E, <1>G, <2>1 DEF CheckInvite
  <2>2. CASE Join(r)
    BY <1>E, <1>G, <2>2 DEF Join
  <2>3. CASE Accept(r) \/ \E i \in Invitations : CreateInvitation(r, i)
    BY <1>E, <2>3 DEF Accept, CreateInvitation
  <2> QED BY <1>5, <2>1, <2>2, <2>3 DEF InvitationStep
<1>6. ASSUME NEW r \in Requests, ErasureStep(r) \/ AccountStep(r) \/ Abort(r)
      PROVE  ScrubMembers(q) \/ PurgeMemberships(q)
  <2>1. CASE EraseOrganization(r) \/ DeleteAccount(r) \/ EraseAccount(r) \/ Abort(r)
    BY <1>E, <2>1 DEF EraseOrganization, DeleteAccount, EraseAccount, Abort
  <2>2. CASE ScrubMembers(r)
    <3>1. r = q
      BY <1>1, <2>2 DEF ScrubMembers, TypeOK
    <3> QED BY <2>2, <3>1
  <2>3. CASE PurgeMemberships(r)
    <3>1. r = q
      BY <1>1, <1>E, <2>3 DEF PurgeMemberships, TypeOK
    <3> QED BY <2>3, <3>1
  <2> QED BY <1>6, <2>1, <2>2, <2>3 DEF ErasureStep, AccountStep
<1>7. ~UNCHANGED tx
  OBVIOUS
<1>8. Background => UNCHANGED tx
  BY DEF Background, RemoveMemberships, CreateOrganization, HardDelete, Expire, DeleteSettled
<1> QED BY <1>3, <1>4, <1>5, <1>6, <1>7, <1>8 DEF Next, vars

\* Reaching its count or its write a request changes nothing but its step.
LEMMA LockedStep ==
  ASSUME TypeOK, NEW q \in Requests, LockOwners(q) \/ CountOwners(q), tx'[q].pc \in {"count", "write"}
  PROVE  /\ tx'[q].org = tx[q].org /\ tx'[q].target = tx[q].target
         /\ tx'[q].role = tx[q].role /\ tx'[q].grant = tx[q].grant
         /\ UNCHANGED member
<1>1. tx[q] \in TxType
  BY DEF TypeOK
<1>2. ~Ends(q)
  BY IdleFacts DEF Ends, TypeOK
<1>3. Goes(q, "count") \/ Goes(q, "write")
  BY <1>2 DEF LockOwners, CountOwners
<1>4. tx'[q] = [tx[q] EXCEPT !.pc = "count"] \/ tx'[q] = [tx[q] EXCEPT !.pc = "write"]
  BY <1>3 DEF Goes, TypeOK
<1> QED BY <1>1, <1>4 DEF TxType, LockOwners, CountOwners

\* The rights a request was checked for stay true until it writes, for nobody else moves
\* ownership in its organization while it has the lock.
LEMMA AuthorizedNext ==
  ASSUME IInv, Authorized, [Next]_vars
  PROVE  Authorized'
<1>1. TypeOK /\ Shapes /\ Known /\ Exclusive
  BY DEF IInv
<1> SUFFICES ASSUME NEW q \in Requests, tx'[q].pc \in {"count", "write"}, tx'[q].role # "owner"
             PROVE  tx'[q].grant # "owner" /\ member'[tx'[q].org][tx'[q].target] # "owner"
  BY DEF Authorized
<1>2. CASE tx'[q] = tx[q]
  <2>1. tx[q].grant # "owner" /\ member[tx[q].org][tx[q].target] # "owner"
    BY <1>2 DEF Authorized
  <2>2. tx[q].org \in Orgs /\ tx[q].target \in Users
    BY <1>1, <1>2 DEF Shapes, Shape
  <2>3. CASE NoNewOwner
    BY <1>2, <2>1, <2>2, <2>3 DEF NoNewOwner
  <2>4. ASSUME NEW r \in Requests, WriteMember(r)
        PROVE  member'[tx[q].org][tx[q].target] # "owner"
    <3>1. tx'[r].pc = "idle" /\ tx[r].pc = "write"
      BY <1>1, <2>4, IdleFacts DEF WriteMember, Ends, TypeOK
    <3>2. tx[r].org # tx[q].org
      BY <1>1, <1>2, <3>1, AloneUnderLock
    <3> QED BY <1>1, <2>1, <2>2, <2>4, <3>2 DEF WriteMember, TypeOK
  <2>5. ASSUME NEW u \in Users, NEW o \in Orgs, CreateOrganization(u, o)
        PROVE  member'[tx[q].org][tx[q].target] # "owner"
    <3>1. tx[q].org # o
      BY <1>1, <2>5 DEF Known, CreateOrganization
    <3> QED BY <1>1, <2>1, <2>2, <2>5, <3>1 DEF CreateOrganization, TypeOK
  <2>6. NoNewOwner \/ (\E r \in Requests : WriteMember(r))
          \/ \E u \in Users, o \in Orgs : CreateOrganization(u, o)
    <3>1. UNCHANGED member => NoNewOwner
      BY DEF NoNewOwner
    <3> QED BY <1>1, <3>1, MemberSteps, DropsNoNewOwner, AcceptsNoNewOwner
  <2> QED BY <1>2, <2>1, <2>3, <2>4, <2>5, <2>6
<1>3. CASE tx'[q] # tx[q]
  <2>1. LockOwners(q) \/ CountOwners(q)
    <3>1. ScrubMembers(q) => tx'[q].pc \notin {"count", "write"}
      BY <1>1 DEF ScrubMembers, TypeOK, TxType
    <3>2. PurgeMemberships(q) => tx'[q].pc \notin {"count", "write"}
      BY <1>1, IdleFacts DEF PurgeMemberships, Ends, TypeOK, TxType
    <3> QED BY <1>3, <3>1, <3>2, RequestSteps
  <2>2. /\ tx'[q].org = tx[q].org /\ tx'[q].target = tx[q].target
        /\ tx'[q].role = tx[q].role /\ tx'[q].grant = tx[q].grant /\ UNCHANGED member
    BY <1>1, <2>1, LockedStep
  <2>3. CASE LockOwners(q)
    <3>1. ~Ends(q)
      BY <1>1, IdleFacts DEF Ends, TypeOK
    <3>2. Permitted(q, member[tx[q].org][tx[q].target])
      BY <2>3, <3>1 DEF LockOwners
    <3> QED BY <2>2, <3>2 DEF Permitted
  <2>4. CASE CountOwners(q)
    BY <2>2, <2>4 DEF CountOwners, Authorized
  <2> QED BY <2>1, <2>3, <2>4
<1> QED BY <1>2, <1>3

\* A deletion takes hold of rows of its own organization or user.
LEMMA HoldingNext ==
  ASSUME IInv, Holding, [Next]_vars
  PROVE  Holding'
<1>1. TypeOK /\ Shapes
  BY DEF IInv
<1> SUFFICES ASSUME NEW q \in Requests, tx'[q].pc \in {"drop", "finish"}
             PROVE  /\ tx'[q].pc = "drop" => tx'[q].held \subseteq {tx'[q].org} \X Users
                    /\ tx'[q].pc = "finish" => tx'[q].held \subseteq Orgs \X {tx'[q].actor}
  BY DEF Holding
<1>2. CASE tx'[q] = tx[q]
  BY <1>2 DEF Holding
<1>3. CASE tx'[q] # tx[q]
  <2>0. tx[q] \in TxType /\ ~Ends(q)
    BY <1>1, IdleFacts DEF Ends, TypeOK
  <2>1. LockOwners(q) \/ CountOwners(q) => tx'[q].pc \in {"count", "write"}
    <3> SUFFICES ASSUME LockOwners(q) \/ CountOwners(q)
                 PROVE  tx'[q].pc \in {"count", "write"}
      OBVIOUS
    <3>1. Goes(q, "count") \/ Goes(q, "write")
      BY <2>0 DEF LockOwners, CountOwners
    <3>2. tx'[q] = [tx[q] EXCEPT !.pc = "count"] \/ tx'[q] = [tx[q] EXCEPT !.pc = "write"]
      BY <1>1, <3>1 DEF Goes, TypeOK
    <3> QED BY <2>0, <3>2 DEF TxType
  <2>2. ASSUME NEW pc \in {"drop", "finish"}, NEW S,
               tx' = [tx EXCEPT ![q].pc = pc, ![q].held = S]
        PROVE  tx'[q].pc = pc /\ tx'[q].held = S /\ tx'[q].org = tx[q].org /\ tx'[q].actor = tx[q].actor
    BY <1>1, <2>0, <2>2 DEF TypeOK, TxType
  <2>3. CASE ScrubMembers(q)
    BY <2>2, <2>3 DEF ScrubMembers, Rows
  <2>4. CASE PurgeMemberships(q)
    BY <2>0, <2>2, <2>4 DEF PurgeMemberships, Rows
  <2> QED BY <1>3, <2>1, <2>3, <2>4, RequestSteps
<1> QED BY <1>2, <1>3

\* A deleted account stays deleted.
LEMMA DepartedNext ==
  ASSUME IInv, Departed, [Next]_vars
  PROVE  Departed'
<1>1. TypeOK /\ Shapes /\ Known
  BY DEF IInv
<1>2. CASE UNCHANGED <<account, leaving>>
  BY <1>2 DEF Departed
<1>3. ASSUME NEW r \in Requests, DeleteAccount(r)
      PROVE  Departed'
  <2>1. account[tx[r].actor] # "active" => UNCHANGED <<account, leaving>>
    BY <1>3 DEF DeleteAccount
  <2>2. CASE account[tx[r].actor] = "active"
    <3>1. /\ account' = [account EXCEPT ![tx[r].actor] = "deleted"]
          /\ leaving' = leaving \union {tx[r].actor} /\ tx[r].actor \in Users
      BY <1>1, <1>3, <2>2 DEF DeleteAccount, Shapes, Shape
    <3>2. \A u \in Users : account'[u] = IF u = tx[r].actor THEN "deleted" ELSE account[u]
      BY <1>1, <3>1 DEF TypeOK
    <3>3. leaving \subseteq Users
      BY <1>1 DEF TypeOK
    <3> QED BY <3>1, <3>2, <3>3 DEF Departed
  <2> QED BY <1>2, <2>1, <2>2
<1>4. ASSUME NEW r \in Requests, EraseAccount(r)
      PROVE  Departed'
  BY <1>1, <1>4 DEF EraseAccount, Departed, TypeOK
<1>5. ASSUME NEW u \in Users, RemoveMemberships(u)
      PROVE  Departed'
  BY <1>5 DEF RemoveMemberships, Departed
<1>6. \A r \in Requests :
        RoleStep(r) \/ InvitationStep(r) \/ ErasureStep(r) \/ Abort(r) => UNCHANGED <<account, leaving>>
  BY DEF RoleStep, LockOwners, CountOwners, WriteMember, InvitationStep, CheckInvite, Join, Accept,
         CreateInvitation, ErasureStep, ScrubMembers, EraseOrganization, Abort
<1>7. \A r \in Requests : Begin(r) => UNCHANGED <<account, leaving>>
  BY <1>1, BeginFacts
<1>8. \A r \in Requests :
        AccountStep(r) => DeleteAccount(r) \/ EraseAccount(r) \/ UNCHANGED <<account, leaving>>
  BY DEF AccountStep, PurgeMemberships
<1>9. Background => (\E u \in Users : RemoveMemberships(u)) \/ UNCHANGED <<account, leaving>>
  BY DEF Background, CreateOrganization, HardDelete, Expire, DeleteSettled
<1>10. UNCHANGED vars => UNCHANGED <<account, leaving>>
  BY DEF vars
<1> QED BY <1>2, <1>3, <1>4, <1>5, <1>6, <1>7, <1>8, <1>9, <1>10 DEF Next

\* Rows are dropped with their organization or with the account of their user.
LEMMA DropsGoWithSomething ==
  ASSUME IInv, Holding, Departed, [Next]_vars, NEW o \in Orgs, NEW u \in Users,
         member[o][u] = "owner", member'[o][u] # "owner",
         ~(\E r \in Requests : WriteMember(r) \/ Accept(r)),
         ~(\E v \in Users, p \in Orgs : CreateOrganization(v, p))
  PROVE  member'[o][u] = "none" /\ (account'[u] # "active" \/ org'[o] \in {"erased", "gone"})
<1>1. TypeOK /\ Shapes /\ Known
  BY DEF IInv
<1>2. ASSUME NEW rows, Drop(rows)
      PROVE  <<o, u>> \in rows /\ member'[o][u] = "none"
  BY <1>2 DEF Drop
<1>3. ASSUME NEW v \in Users, RemoveMemberships(v)
      PROVE  member'[o][u] = "none" /\ account'[u] # "active"
  <2>1. v = u /\ member'[o][u] = "none"
    BY <1>2, <1>3 DEF RemoveMemberships
  <2> QED BY <1>3, <2>1 DEF RemoveMemberships, Departed
<1>4. ASSUME NEW p \in Orgs, HardDelete(p)
      PROVE  member'[o][u] = "none" /\ org'[o] = "gone"
  <2>1. p = o /\ member'[o][u] = "none"
    BY <1>2, <1>4 DEF HardDelete
  <2> QED BY <1>1, <1>4, <2>1 DEF HardDelete, TypeOK
<1>5. ASSUME NEW r \in Requests, EraseOrganization(r)
      PROVE  member'[o][u] = "none" /\ org'[o] \in {"erased", "gone"}
  <2>1. <<o, u>> \in tx[r].held /\ member'[o][u] = "none"
    BY <1>2, <1>5 DEF EraseOrganization
  <2>2. o = tx[r].org
    BY <1>5, <2>1 DEF Holding, EraseOrganization
  <2>3. org[o] \in {"live", "erased", "gone"}
    BY <1>1, <2>2 DEF Known, TypeOK
  <2> QED BY <1>1, <1>5, <2>1, <2>2, <2>3 DEF EraseOrganization, TypeOK
<1>6. ASSUME NEW r \in Requests, EraseAccount(r)
      PROVE  member'[o][u] = "none" /\ account'[u] # "active"
  <2>1. <<o, u>> \in tx[r].held /\ member'[o][u] = "none"
    BY <1>2, <1>6 DEF EraseAccount
  <2>2. u = tx[r].actor
    BY <1>6, <2>1 DEF Holding, EraseAccount
  <2> QED BY <1>1, <1>6, <2>1, <2>2 DEF EraseAccount, TypeOK
<1>7. \A r \in Requests :
        \/ ~(Begin(r) \/ RoleStep(r) \/ InvitationStep(r) \/ ErasureStep(r) \/ AccountStep(r) \/ Abort(r))
        \/ UNCHANGED member \/ EraseOrganization(r) \/ EraseAccount(r)
  <2> SUFFICES ASSUME NEW r \in Requests
               PROVE  \/ ~(Begin(r) \/ RoleStep(r) \/ InvitationStep(r) \/ ErasureStep(r)
                           \/ AccountStep(r) \/ Abort(r))
                      \/ UNCHANGED member \/ EraseOrganization(r) \/ EraseAccount(r)
    OBVIOUS
  <2>1. Begin(r) => UNCHANGED member
    BY <1>1, BeginFacts
  <2>2. RoleStep(r) => UNCHANGED member
    BY DEF RoleStep, LockOwners, CountOwners
  <2>3. InvitationStep(r) => UNCHANGED member
    BY DEF InvitationStep, CheckInvite, Join, CreateInvitation
  <2>4. ErasureStep(r) \/ AccountStep(r) \/ Abort(r)
          => UNCHANGED member \/ EraseOrganization(r) \/ EraseAccount(r)
    BY DEF ErasureStep, AccountStep, Abort, ScrubMembers, DeleteAccount, PurgeMemberships
  <2> QED BY <2>1, <2>2, <2>3, <2>4
<1>8. Background => (\E v \in Users : RemoveMemberships(v)) \/ (\E p \in Orgs : HardDelete(p))
                    \/ UNCHANGED member
  BY DEF Background, Expire, DeleteSettled
<1>9. ~UNCHANGED member /\ ~UNCHANGED vars
  BY DEF vars
<1> QED BY <1>3, <1>4, <1>5, <1>6, <1>7, <1>8, <1>9 DEF Next

\* Every step that makes or unmakes an owner is one of those allowed.
LEMMA StepMoves ==
  ASSUME IInv, Authorized, Holding, Departed, [Next]_vars
  PROVE  Moves
<1>1. TypeOK /\ Shapes /\ Known /\ Joining
  BY DEF IInv
<1> SUFFICES ASSUME NEW o \in Orgs, NEW u \in Users, (member[o][u] = "owner") # (member'[o][u] = "owner")
             PROVE  \/ org[o] = "absent"
                    \/ /\ member'[o][u] = "none"
                       /\ account'[u] # "active" \/ org'[o] \in {"erased", "gone"}
                    \/ \E r \in Requests :
                         /\ tx[r].org = o /\ tx[r].target = u /\ tx[r].grant = member'[o][u]
                         /\ tx[r].role = "owner" /\ tx'[r] # tx[r]
  BY DEF Moves
<1>2. ASSUME NEW r \in Requests, WriteMember(r)
      PROVE  /\ tx[r].org = o /\ tx[r].target = u /\ tx[r].grant = member'[o][u]
             /\ tx[r].role = "owner" /\ tx'[r] # tx[r]
  <2>1. tx[r].org \in Orgs /\ tx[r].target \in Users /\ tx[r].pc = "write"
    BY <1>1, <1>2 DEF WriteMember, Shapes, Shape
  <2>2. tx[r].org = o /\ tx[r].target = u /\ tx[r].grant = member'[o][u]
    BY <1>1, <1>2, <2>1 DEF WriteMember, TypeOK
  <2>3. tx[r].role = "owner"
    BY <2>1, <2>2 DEF Authorized
  <2>4. tx'[r].pc = "idle"
    BY <1>1, <1>2, IdleFacts DEF WriteMember, Ends, TypeOK
  <2> QED BY <2>1, <2>2, <2>3, <2>4
<1>3. ASSUME NEW r \in Requests, Accept(r)
      PROVE  FALSE
  BY <1>1, <1>3, AcceptsNoNewOwner DEF NoNewOwner
<1>4. ASSUME NEW v \in Users, NEW p \in Orgs, CreateOrganization(v, p)
      PROVE  org[o] = "absent"
  BY <1>1, <1>4 DEF CreateOrganization, TypeOK
<1>5. CASE /\ ~(\E r \in Requests : WriteMember(r) \/ Accept(r))
           /\ ~(\E v \in Users, p \in Orgs : CreateOrganization(v, p))
  <2>1. NoNewOwner
    <3>1. UNCHANGED member => NoNewOwner
      BY DEF NoNewOwner
    <3> QED BY <1>5, <3>1, MemberSteps, DropsNoNewOwner
  <2>2. member[o][u] = "owner" /\ member'[o][u] # "owner"
    BY <2>1 DEF NoNewOwner
  <2> QED BY <1>5, <2>2, DropsGoWithSomething
<1> QED BY <1>2, <1>3, <1>4, <1>5

\* update-member and remove-member: an owner is made or unmade only by a request that an owner
\* began, by founding, or when the account or the organization goes, though the lock is taken
\* long after the actor's role was read and joins and erasures do not take it
\* (OnlyOwnersMoveOwnership).
THEOREM OnlyOwnersMoveOwnershipHolds == Spec => OnlyOwnersMoveOwnership
<1> DEFINE Inv == IInv /\ Authorized /\ Holding /\ Departed
<1>1. Init => Inv
  <2>1. Init => Authorized /\ Holding /\ Departed
    BY IdleFacts DEF Init, Authorized, Holding, Departed
  <2> QED BY <2>1, InitIInv
<1>2. Inv /\ [Next]_vars => Inv'
  BY NextIInv, AuthorizedNext, HoldingNext, DepartedNext
<1>3. Inv /\ [Next]_vars => [Moves]_vars
  BY StepMoves
<1> QED BY <1>1, <1>2, <1>3, PTL DEF Spec, OnlyOwnersMoveOwnership, Moves
=============================================================================
