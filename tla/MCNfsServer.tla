---------------------------- MODULE MCNfsServer -----------------------------
(* Instances of NfsServer for TLC. *)
EXTENDS NfsServer, TLC

\* Handlers and volumes are only compared, so permuting them is sound for the invariants.
Symmetry == Permutations(Handlers) \cup Permutations(Volumes)

=============================================================================
