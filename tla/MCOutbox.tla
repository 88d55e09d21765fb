------------------------------ MODULE MCOutbox ------------------------------
(* Small instances of the outbox pipeline. *)
EXTENDS Outbox, TLC

\* Slots and relays are interchangeable; only for runs without temporal
\* properties.
Symmetry == Permutations(Workers) \union Permutations(Relays)

=============================================================================
