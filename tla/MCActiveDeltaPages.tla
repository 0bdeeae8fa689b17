-------------------------- MODULE MCActiveDeltaPages --------------------------
(* Instances of ActiveDeltaPages for TLC. *)
EXTENDS ActiveDeltaPages, TLC
CONSTANTS p1, p2, p3

(* An index page and two leaf pages. *)
Weights == (p1 :> 2) @@ (p2 :> 1) @@ (p3 :> 1)
=============================================================================
