--------------------------- MODULE MCLetusStorage ---------------------------
(* LetusStorage for TLC, with one value: a key holds it, or nothing. *)
EXTENDS LetusStorage

CONSTANT a

=============================================================================
