----------------------------- MODULE MCPageTable -----------------------------
(* Instances of PageTable for TLC. *)
EXTENDS PageTable, TLC
CONSTANTS d1, d2

DataSymmetry == Permutations({d1, d2})

(* The root's pid is shorter than the pids below it. *)
ShortRoot == [p \in Pid |-> IF p = 0 THEN 3 ELSE 4]
=============================================================================
