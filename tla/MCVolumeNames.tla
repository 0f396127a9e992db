--------------------------- MODULE MCVolumeNames ----------------------------
(* Model-checking instance of VolumeNames.                                   *)
EXTENDS VolumeNames

Chars == {"a", "n", "A", "-", "_"}
ShortIDs == UNION {[1..l -> Chars] : l \in 1..3}
=============================================================================
