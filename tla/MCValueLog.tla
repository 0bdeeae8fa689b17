------------------------------ MODULE MCValueLog ------------------------------
(* Instances of ValueLog for TLC. *)
EXTENDS ValueLog, TLC
CONSTANTS v1, v2

Sizes == (v1 :> 1) @@ (v2 :> 2)

(* No value has a newline. *)
WholeLines == (v1 :> v1) @@ (v2 :> v2)
=============================================================================
