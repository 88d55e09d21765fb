------------------------------ MODULE MCFiles ------------------------------
(* Files on small sets: a user asks for a file in each of two organizations, *)
(* and uploads one of them.                                                  *)
EXTENDS Files, TLC

CONSTANTS u1, t1, t2, f1

MCUploader == [f \in Files |-> u1]
MCUploads == [f \in Files |-> IF f = f1 THEN Contents ELSE {}]
MCTenantOf == [f \in Files |-> IF f = f1 THEN t1 ELSE t2]
Symmetry == Permutations(Scanners) \union Permutations(Requests)
=============================================================================
