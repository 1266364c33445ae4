------------------------------ MODULE MCOutbox ------------------------------
(* Model-checking instances of Outbox; the bounds are in the .cfg files. *)
EXTENDS Outbox, TLC

\* Connections and relays are interchangeable.
Symmetry == Permutations(Writers) \cup Permutations(Relays)
=============================================================================
