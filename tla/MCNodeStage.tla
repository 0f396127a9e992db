---------------------------- MODULE MCNodeStage -----------------------------
(* Model-checking instance of NodeStage.                                     *)
EXTENDS NodeStage, TLC

CONSTANTS v1, v2, p1, h1, h2

\* A volume that is staged and published more than once, and another that
\* competes with it for the mountMutex.
CallBounds == v1 :> 6 @@ v2 :> 1
=============================================================================
