-------------------------- MODULE MCDeltaCacheFile --------------------------
(* Model values for DeltaCacheFile.                                        *)
EXTENDS DeltaCacheFile

CONSTANTS root, p1, p2
=============================================================================
