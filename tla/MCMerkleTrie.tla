---------------------------- MODULE MCMerkleTrie ----------------------------
(* MerkleTrie for TLC: two keys with a page each below one nibble, one of  *)
(* them with a nibble above 9, and a key with its leaf in the root page.   *)
EXTENDS MerkleTrie

CONSTANTS a, b

KeysOfBothKinds == {<<0, 0>>, <<0, 10>>, <<1>>}
Symmetry == Permutations(Value)
=============================================================================
