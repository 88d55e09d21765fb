----------------------------- MODULE MCTenancy -----------------------------
(* Tenancy on small sets of model values. *)
EXTENDS Tenancy, TLC

Symmetry == Permutations(Users) \union Permutations(Invitations) \union Permutations(Requests)
=============================================================================
