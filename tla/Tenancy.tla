------------------------------ MODULE Tenancy ------------------------------
(***************************************************************************)
(* Memberships and invitations of organizations, with the deletion and the *)
(* erasure of accounts and organizations, which remove memberships without *)
(* the lock of the organization's owners.                                  *)
(*                                                                         *)
(* A request is a PostgreSQL transaction at READ COMMITTED: its reads are  *)
(* steps of their own, and what it wrote becomes visible when it commits.  *)
(* The last write of a transaction and its commit are one step; a write    *)
(* before that one holds its rows (field held, or a row yet to be seen)    *)
(* until then.  Row-level security is not modelled.                        *)
(***************************************************************************)
EXTENDS Integers

CONSTANTS
  Orgs, Users, Invitations, Requests, None,
  InvitedRoles  \* the roles an invitation can carry; a run may leave one out

ASSUME ConstantsAssumption ==
  /\ None \notin Users \union Requests \union Orgs \union Invitations
  /\ InvitedRoles \subseteq {"admin", "member"}

VARIABLES
  org,         \* organizations: absent, live, erased (soft-deleted), gone
  member,      \* memberships: the role of a user, "none" without a row
  invitation,  \* invitations
  account,     \* users: active, deleted (soft), erased (anonymized)
  leaving,     \* users whose user.deleted event is still to be consumed
  lock,        \* the advisory lock tenancy:owners:<organization>
  tx,          \* the requests in flight
  unlocked     \* history: organizations an owner left by a path without the lock

vars == <<org, member, invitation, account, leaving, lock, tx, unlocked>>

Roles == {"owner", "admin", "member"}

InvitationType == [status : {"absent", "pending", "accepted", "revoked", "deleted"},
                   org : Orgs \union {None}, user : Users \union {None},
                   role : InvitedRoles \union {"none"}, term : {"open", "over"}]

Ops == {"none", "update", "remove", "invite", "accept", "eraseOrg", "delete", "eraseUser"}
Pcs == {"idle", "lock", "count", "write", "check", "create", "join", "accept", "scrub",
        "drop", "delete", "purge", "finish"}
TxType == [op : Ops, pc : Pcs, actor : Users \union {None}, role : Roles \union {"none"},
           org : Orgs \union {None}, target : Users \union {None},
           grant : Roles \union {"none"}, invitation : Invitations \union {None},
           held : SUBSET (Orgs \X Users), stale : SUBSET Invitations]

\* Every variable has its type.
TypeOK ==
  /\ org \in [Orgs -> {"absent", "live", "erased", "gone"}]
  /\ member \in [Orgs -> [Users -> Roles \union {"none"}]]
  /\ invitation \in [Invitations -> InvitationType]
  /\ account \in [Users -> {"active", "deleted", "erased"}]
  /\ leaving \in SUBSET Users
  /\ lock \in [Orgs -> Requests \union {None}]
  /\ tx \in [Requests -> TxType]
  /\ unlocked \in SUBSET Orgs

Started(op, pc, actor, o, role, target, grant, i) ==
  [op |-> op, pc |-> pc, actor |-> actor, role |-> role, org |-> o, target |-> target,
   grant |-> grant, invitation |-> i, held |-> {}, stale |-> {}]
IdleTx == Started("none", "idle", None, None, "none", None, "none", None)
NoInvitation == [status |-> "absent", org |-> None, user |-> None, role |-> "none",
                 term |-> "open"]

Init ==
  /\ org = [o \in Orgs |-> "absent"]
  /\ member = [o \in Orgs |-> [u \in Users |-> "none"]]
  /\ invitation = [i \in Invitations |-> NoInvitation]
  /\ account = [u \in Users |-> "active"]
  /\ leaving = {}
  /\ lock = [o \in Orgs |-> None]
  /\ tx = [r \in Requests |-> IdleTx]
  /\ unlocked = {}

-----------------------------------------------------------------------------

Owners(o) == {u \in Users : member[o][u] = "owner"}
OwnsNothing(u) == \A o \in Orgs : member[o][u] # "owner"
Several(S) == \E a, b \in S : a # b

Usable(i) == invitation[i].status = "pending" /\ invitation[i].term = "open"

\* A row another transaction has deleted and not committed: whoever wants it waits.
Held(o, u, r) == \E q \in Requests \ {r} : <<o, u>> \in tx[q].held
\* A membership another transaction has inserted and not committed.
Inserting(q, o, u) == tx[q].pc = "accept" /\ tx[q].org = o /\ tx[q].actor = u

Ends(r) ==
  /\ tx' = [tx EXCEPT ![r] = IdleTx]
  /\ lock' = [o \in Orgs |-> IF lock[o] = r THEN None ELSE lock[o]]

Goes(r, pc) == tx' = [tx EXCEPT ![r].pc = pc]

\* Rows deleted by a path that does not take the lock of the owners.
Drop(rows) ==
  /\ member' = [o \in Orgs |-> [u \in Users |->
                  IF <<o, u>> \in rows THEN "none" ELSE member[o][u]]]
  /\ unlocked' = unlocked \union {o \in Orgs : \E u \in Owners(o) : <<o, u>> \in rows}

Rows(os, us) == {p \in os \X us : member[p[1]][p[2]] # "none"}

DeleteInvitations(S) ==
  invitation' = [i \in Invitations |->
                   IF i \in S THEN [invitation[i] EXCEPT !.status = "deleted"] ELSE invitation[i]]

\* A failed or timed-out statement, a lost connection or a crash rolls a request back.
Abort(r) ==
  /\ tx[r].pc # "idle"
  /\ Ends(r)
  /\ UNCHANGED <<org, member, invitation, account, leaving, unlocked>>

-----------------------------------------------------------------------------
(* Organizations and roles *)

\* createdBy becomes the owner in the same transaction; a slug is taken once.
CreateOrganization(u, o) ==
  /\ org[o] = "absent"
  /\ account[u] = "active"
  /\ org' = [org EXCEPT ![o] = "live"]
  /\ member' = [member EXCEPT ![o][u] = "owner"]
  /\ UNCHANGED <<invitation, account, leaving, lock, tx, unlocked>>

\* The guard reads the actor's role in a transaction before the command's.
BeginMemberRequest(r, op, pc, u, o, target, grant) ==
  /\ tx[r].pc = "idle"
  /\ account[u] = "active"
  /\ member[o][u] \in {"owner", "admin"}
  /\ tx' = [tx EXCEPT ![r] = Started(op, pc, u, o,
              IF op = "invite" THEN "none" ELSE member[o][u], target, grant, None)]
  /\ UNCHANGED <<org, member, invitation, account, leaving, lock, unlocked>>

BeginRoleChange(r, u, o, target, grant) ==
  \/ BeginMemberRequest(r, "update", "lock", u, o, target, grant)
  \/ grant = "member" /\ BeginMemberRequest(r, "remove", "lock", u, o, target, "none")

Permitted(r, current) ==
  \/ tx[r].role = "owner"
  \/ tx[r].role = "admin" /\ current # "owner" /\ tx[r].grant # "owner"

\* Mutation: the lock is only taken for a demotion that was seen before it.
LockOwnersLate(r) ==
  LET o == tx[r].org
      current == member[o][tx[r].target] IN
  /\ tx[r].pc = "lock"
  /\ IF current # "none" /\ Permitted(r, current)
     THEN /\ UNCHANGED lock
          /\ Goes(r, IF current = "owner" /\ tx[r].grant # "owner" THEN "count" ELSE "write")
     ELSE Ends(r)
  /\ UNCHANGED <<org, member, invitation, account, leaving, unlocked>>

\* Both commands: the lock, then findMembership and the check of the actor's rights.
LockOwners(r) ==
  LET o == tx[r].org
      current == member[o][tx[r].target] IN
  /\ tx[r].pc = "lock"
  /\ lock[o] = None
  /\ IF current # "none" /\ Permitted(r, current)
     THEN /\ lock' = [lock EXCEPT ![o] = r]
          /\ Goes(r, IF current = "owner" /\ tx[r].grant # "owner" THEN "count" ELSE "write")
     ELSE Ends(r)
  /\ UNCHANGED <<org, member, invitation, account, leaving, unlocked>>

CountOwners(r) ==
  /\ tx[r].pc = "count"
  /\ IF Several(Owners(tx[r].org))
     THEN Goes(r, "write") /\ UNCHANGED lock
     ELSE Ends(r)
  /\ UNCHANGED <<org, member, invitation, account, leaving, unlocked>>

\* updateRole, or remove: a row that is gone by now makes it fail.
WriteMember(r) ==
  LET o == tx[r].org
      u == tx[r].target IN
  /\ tx[r].pc = "write"
  /\ ~Held(o, u, r)
  /\ member' = IF member[o][u] = "none" THEN member
               ELSE [member EXCEPT ![o][u] = tx[r].grant]
  /\ Ends(r)
  /\ UNCHANGED <<org, invitation, account, leaving, unlocked>>

-----------------------------------------------------------------------------
(* Invitations *)

BeginInvite(r, u, o, target, role) ==
  BeginMemberRequest(r, "invite", "check", u, o, target, role)

\* No member of that address, no pending invitation, and the organization is there.
CheckInvite(r) ==
  LET o == tx[r].org
      own == {i \in Invitations : invitation[i].org = o /\ invitation[i].user = tx[r].target} IN
  /\ tx[r].pc = "check"
  /\ IF /\ org[o] = "live"
        /\ member[o][tx[r].target] = "none"
        /\ ~\E i \in own : Usable(i)
     THEN /\ tx' = [tx EXCEPT ![r].pc = "create",
                              ![r].stale = {i \in own : invitation[i].status = "pending"}]
          /\ UNCHANGED lock
     ELSE Ends(r)
  /\ UNCHANGED <<org, member, invitation, account, leaving, unlocked>>

\* The expired invitations found above are revoked with it; the token is sent by the outbox.
CreateInvitation(r, i) ==
  /\ tx[r].pc = "create"
  /\ org[tx[r].org] # "gone"
  /\ invitation[i].status = "absent"
  /\ invitation' = [j \in Invitations |->
       CASE j = i -> [status |-> "pending", org |-> tx[r].org, user |-> tx[r].target,
                      role |-> tx[r].grant, term |-> "open"]
         [] j # i /\ j \in tx[r].stale /\ invitation[j].status = "pending"
              -> [invitation[j] EXCEPT !.status = "revoked"]
         [] OTHER -> invitation[j]]
  /\ Ends(r)
  /\ UNCHANGED <<org, member, account, leaving, unlocked>>

\* findByTokenHash; the invitation is for the address of the actor.
BeginAccept(r, u, i) ==
  /\ tx[r].pc = "idle"
  /\ account[u] = "active"
  /\ Usable(i)
  /\ invitation[i].user = u
  /\ tx' = [tx EXCEPT ![r] = Started("accept", "join", u, invitation[i].org, "none", None,
              invitation[i].role, i)]
  /\ UNCHANGED <<org, member, invitation, account, leaving, lock, unlocked>>

\* findMembership and the insertion, which waits for another insertion of the same row.
Join(r) ==
  LET o == tx[r].org IN
  /\ tx[r].pc = "join"
  /\ ~\E q \in Requests \ {r} : Inserting(q, o, tx[r].actor)
  /\ IF member[o][tx[r].actor] = "none" /\ org[o] # "gone"
     THEN Goes(r, "accept") /\ UNCHANGED lock
     ELSE Ends(r)
  /\ UNCHANGED <<org, member, invitation, account, leaving, unlocked>>

\* Mutation: markAccepted by id alone.
AcceptById(r) ==
  /\ tx[r].pc = "accept"
  /\ invitation' = [invitation EXCEPT ![tx[r].invitation].status =
                      IF @ = "deleted" THEN @ ELSE "accepted"]
  /\ member' = IF invitation[tx[r].invitation].status = "deleted" THEN member
               ELSE [member EXCEPT ![tx[r].org][tx[r].actor] = tx[r].grant]
  /\ Ends(r)
  /\ UNCHANGED <<org, account, leaving, unlocked>>

\* markAccepted repeats the conditions; without a row the insertion is rolled back.
Accept(r) ==
  /\ tx[r].pc = "accept"
  /\ IF Usable(tx[r].invitation)
     THEN /\ invitation' = [invitation EXCEPT ![tx[r].invitation].status = "accepted"]
          /\ member' = [member EXCEPT ![tx[r].org][tx[r].actor] = tx[r].grant]
     ELSE UNCHANGED <<invitation, member>>
  /\ Ends(r)
  /\ UNCHANGED <<org, account, leaving, unlocked>>

Expire(i) ==
  /\ Usable(i)
  /\ invitation' = [invitation EXCEPT ![i].term = "over"]
  /\ UNCHANGED <<org, member, account, leaving, lock, tx, unlocked>>

\* The retention worker deletes settled and long expired invitations.
DeleteSettled(i) ==
  /\ invitation[i].status \in {"accepted", "revoked", "pending"}
  /\ ~Usable(i)
  /\ DeleteInvitations({i})
  /\ UNCHANGED <<org, member, account, leaving, lock, tx, unlocked>>

-----------------------------------------------------------------------------
(* Erasure of an organization *)

\* The actor's access is read in the command's own transaction, without a lock.
BeginEraseOrganization(r, u, o) ==
  /\ tx[r].pc = "idle"
  /\ account[u] = "active"
  /\ member[o][u] = "owner"
  /\ tx' = [tx EXCEPT ![r] = Started("eraseOrg", "scrub", u, o, "none", None, "none", None)]
  /\ UNCHANGED <<org, member, invitation, account, leaving, lock, unlocked>>

\* deleteByTenant of the memberships it can see.
ScrubMembers(r) ==
  LET o == tx[r].org IN
  /\ tx[r].pc = "scrub"
  /\ \A u \in Users : ~Held(o, u, r)
  /\ tx' = [tx EXCEPT ![r].pc = "drop", ![r].held = Rows({o}, Users)]
  /\ UNCHANGED <<org, member, invitation, account, leaving, lock, unlocked>>

\* deleteByTenant of the invitations, softDeleteById, commit.
EraseOrganization(r) ==
  LET o == tx[r].org IN
  /\ tx[r].pc = "drop"
  /\ Drop(tx[r].held)
  /\ DeleteInvitations({i \in Invitations : invitation[i].org = o})
  /\ org' = IF org[o] = "live" THEN [org EXCEPT ![o] = "erased"] ELSE org
  /\ Ends(r)
  /\ UNCHANGED <<account, leaving>>

\* After the grace period; the foreign keys cascade and wait for insertions.
HardDelete(o) ==
  /\ org[o] = "erased"
  /\ ~\E q \in Requests, u \in Users : Inserting(q, o, u)
  /\ \A u \in Users : ~Held(o, u, None)
  /\ org' = [org EXCEPT ![o] = "gone"]
  /\ Drop({o} \X Users)
  /\ DeleteInvitations({i \in Invitations : invitation[i].org = o})
  /\ UNCHANGED <<account, leaving, lock, tx>>

-----------------------------------------------------------------------------
(* Deletion and erasure of an account *)

\* CanDeleteUserQuery: the user owns no organization.
BeginLeave(r, u) ==
  /\ tx[r].pc = "idle"
  /\ account[u] = "active"
  /\ OwnsNothing(u)
  /\ \E step \in {<<"delete", "delete">>, <<"eraseUser", "purge">>} :
       tx' = [tx EXCEPT ![r] = Started(step[1], step[2], u, None, "none", None, "none", None)]
  /\ UNCHANGED <<org, member, invitation, account, leaving, lock, unlocked>>

\* Both update the row of the user first, so they wait for each other.
AccountFree(r) == \A q \in Requests \ {r} : tx[q].pc = "finish" => tx[q].actor # tx[r].actor

\* softDeleteById, user.deleted to the outbox, commit.
DeleteAccount(r) ==
  LET u == tx[r].actor IN
  /\ tx[r].pc = "delete"
  /\ AccountFree(r)
  /\ IF account[u] = "active"
     THEN account' = [account EXCEPT ![u] = "deleted"] /\ leaving' = leaving \union {u}
     ELSE UNCHANGED <<account, leaving>>
  /\ Ends(r)
  /\ UNCHANGED <<org, member, invitation, unlocked>>

\* The consumer of user.deleted, which the outbox may run again.
RemoveMemberships(u) ==
  /\ u \in leaving
  /\ \A o \in Orgs : ~Held(o, u, None)
  /\ Drop(Orgs \X {u})
  /\ leaving' \in {leaving, leaving \ {u}}
  /\ UNCHANGED <<org, invitation, account, lock, tx>>

\* anonymizeUser, then removeUser: the memberships it can see.
PurgeMemberships(r) ==
  LET u == tx[r].actor IN
  /\ tx[r].pc = "purge"
  /\ AccountFree(r)
  /\ \A o \in Orgs : ~Held(o, u, r)
  /\ IF account[u] = "active"
     THEN /\ tx' = [tx EXCEPT ![r].pc = "finish", ![r].held = Rows(Orgs, {u})]
          /\ UNCHANGED lock
     ELSE Ends(r)
  /\ UNCHANGED <<org, member, invitation, account, leaving, unlocked>>

\* deleteByEmail of the invitations, the erasure request, commit.
EraseAccount(r) ==
  LET u == tx[r].actor IN
  /\ tx[r].pc = "finish"
  /\ Drop(tx[r].held)
  /\ DeleteInvitations({i \in Invitations : invitation[i].user = u})
  /\ account' = [account EXCEPT ![u] = "erased"]
  /\ Ends(r)
  /\ UNCHANGED <<org, leaving>>

-----------------------------------------------------------------------------

RoleStep(r) == LockOwners(r) \/ CountOwners(r) \/ WriteMember(r)
InvitationStep(r) ==
  \/ CheckInvite(r) \/ Join(r) \/ Accept(r)
  \/ \E i \in Invitations : CreateInvitation(r, i)
ErasureStep(r) == ScrubMembers(r) \/ EraseOrganization(r)
AccountStep(r) == DeleteAccount(r) \/ PurgeMemberships(r) \/ EraseAccount(r)

Begin(r) ==
  \E u \in Users :
    \/ BeginLeave(r, u)
    \/ \E i \in Invitations : BeginAccept(r, u, i)
    \/ \E o \in Orgs :
         \/ BeginEraseOrganization(r, u, o)
         \/ \E target \in Users :
              \/ \E grant \in Roles : BeginRoleChange(r, u, o, target, grant)
              \/ \E role \in InvitedRoles : BeginInvite(r, u, o, target, role)

Background ==
  \/ \E u \in Users : RemoveMemberships(u) \/ \E o \in Orgs : CreateOrganization(u, o)
  \/ \E o \in Orgs : HardDelete(o)
  \/ \E i \in Invitations : Expire(i) \/ DeleteSettled(i)

Next ==
  \/ Background
  \/ \E r \in Requests :
       Begin(r) \/ RoleStep(r) \/ InvitationStep(r) \/ ErasureStep(r) \/ AccountStep(r) \/ Abort(r)

Spec == Init /\ [][Next]_vars

-----------------------------------------------------------------------------
(* Properties *)

\* update-member and remove-member: however demotions, removals and joins of an
\* organization interleave, an owner is left as long as no path without its lock took one.
LockedPathsKeepAnOwner ==
  \A o \in Orgs : org[o] = "live" /\ o \notin unlocked => Owners(o) # {}

\* accept-invitation: a user comes into an organization only by founding it, or on an
\* invitation that was usable and his at that very moment, in its role, and that it spends.
JoinsSpendAnInvitation ==
  [][\A o \in Orgs, u \in Users :
       member[o][u] = "none" /\ member'[o][u] # "none" =>
         \/ org[o] = "absent"
         \/ \E i \in Invitations :
              /\ Usable(i) /\ invitation'[i].status = "accepted"
              /\ invitation[i].org = o /\ invitation[i].user = u
              /\ invitation[i].role = member'[o][u]]_vars

\* update-member and remove-member: whoever becomes an owner, or is one no more, was made so
\* by a request an owner began, though roles change between its checks and its write; or he
\* founded the organization, or his account or the organization goes away with it.
OnlyOwnersMoveOwnership ==
  [][\A o \in Orgs, u \in Users :
       (member[o][u] = "owner") # (member'[o][u] = "owner") =>
         \/ org[o] = "absent"
         \/ member'[o][u] = "none" /\ (account'[u] # "active" \/ org'[o] \in {"erased", "gone"})
         \/ \E r \in Requests :
              /\ tx[r].org = o /\ tx[r].target = u /\ tx[r].grant = member'[o][u]
              /\ tx[r].role = "owner" /\ tx'[r] # tx[r]]_vars
=============================================================================
