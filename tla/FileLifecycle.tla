---------------------------- MODULE FileLifecycle ----------------------------
(***************************************************************************)
(* What an uploaded file is to its user, without quarantine, candidates,   *)
(* leases, workers or crashes.  A file is reserved; what was confirmed of  *)
(* its upload is accepted, and served if it is clean or refused; then it   *)
(* is deleted and gone.  Nothing is ever served but what was confirmed,    *)
(* and a file is taken out of service only by a deletion or an erasure, or *)
(* when its object is missing.                                             *)
(***************************************************************************)
CONSTANTS Files, Contents, None, Clean

VARIABLES
  standing,   \* where the file stands
  confirmed,  \* the contents its user has confirmed
  object,     \* what is served
  replaced    \* given: files that have been, or are being, replaced in a slot or erased

lifecycleVars == <<standing, confirmed, object>>

LifecycleInit ==
  /\ standing = [f \in Files |-> "none"]
  /\ confirmed = [f \in Files |-> None]
  /\ object = [f \in Files |-> None]

Stands(f, s, c, o) == standing'[f] = s /\ confirmed'[f] = c /\ object'[f] = o

Same(f) == Stands(f, standing[f], confirmed[f], object[f])

Reserve(f) == standing[f] = "none" /\ Stands(f, "reserved", None, None)

Confirm(f) ==
  /\ standing[f] = "reserved"
  /\ \E c \in Contents : Stands(f, "accepted", c, None)

Refuse(f) ==
  /\ standing[f] \in {"reserved", "accepted"}
  /\ Stands(f, "refused", confirmed[f], None)

Serve(f) ==
  /\ standing[f] = "accepted"
  /\ confirmed[f] \in Clean
  /\ \/ Stands(f, "served", confirmed[f], confirmed[f])
     \/ f \in replaced /\ Stands(f, "served", confirmed[f], None)

\* Replacement and erasure delete the object before they are sure to end the file.
Lose(f) ==
  /\ standing[f] = "served"
  /\ f \in replaced
  /\ Stands(f, "served", confirmed[f], None)

Miss(f) ==
  /\ standing[f] = "served"
  /\ object[f] = None
  /\ Stands(f, "refused", confirmed[f], None)

Delete(f) ==
  /\ standing[f] \in {"reserved", "accepted", "served", "refused"}
  /\ Stands(f, "deleted", confirmed[f], None)

Purge(f) == standing[f] = "deleted" /\ Stands(f, "gone", None, None)

\* The erasure of a user or an organization marks nothing before.
Erase(f) ==
  /\ standing[f] \in {"reserved", "accepted", "served", "refused"}
  /\ f \in replaced
  /\ Stands(f, "gone", None, None)

LifecycleStep(f) ==
  \/ Reserve(f) \/ Confirm(f) \/ Refuse(f) \/ Serve(f) \/ Lose(f) \/ Miss(f)
  \/ Delete(f) \/ Purge(f) \/ Erase(f)

\* Files live side by side, and a replacement moves several at once.
LifecycleNext == \A f \in Files : Same(f) \/ LifecycleStep(f)

LifecycleSpec == LifecycleInit /\ [][LifecycleNext]_lifecycleVars
=============================================================================
