-------------------------- MODULE MCNotifications --------------------------
(***************************************************************************)
(* Small instances of Notifications for TLC: two batched sources and an    *)
(* immediate one, and as many windows as the batched sources can open.     *)
(***************************************************************************)
EXTENDS Notifications, TLC

Symmetry == Permutations(Senders) \union Permutations(Deliverers) \union Permutations(Digesters)
=============================================================================
