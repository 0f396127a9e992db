--------------------------- MODULE MCNodeMonitor ----------------------------
(* Model-checking instance of NodeMonitor.                                   *)
EXTENDS NodeMonitor

CONSTANTS n1, n2
=============================================================================
