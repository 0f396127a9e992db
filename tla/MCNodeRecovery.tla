--------------------------- MODULE MCNodeRecovery ---------------------------
(* Instances of NodeRecovery for TLC. *)
EXTENDS NodeRecovery, TLC

\* Nodes, volumes and recoveries are only compared.
Symmetry == Permutations(Nodes) \cup Permutations(Volumes) \cup Permutations(Recoveries)

\* MovedIsServed, Spread and AllMoved claim nothing once an unexport or a dump
\* reached a new server, no node was left or a volume was lost, nor after a
\* failure and an overlap of recoveries.  met and faults only grow, so the states
\* beyond need not be explored.
StillClaimed == met \subseteq (IF faults = 0 THEN {"overlap"} ELSE {})
=============================================================================
