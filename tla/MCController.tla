---------------------------- MODULE MCController ----------------------------
(* Instances of Controller for TLC. *)
EXTENDS Controller, TLC

\* Nodes are only compared, so permuting them is sound for the invariants.
NodeSymmetry == Permutations(Nodes)
=============================================================================
