-------------------------- MODULE MCVersionedPages --------------------------
(* Instances of VersionedPages for TLC. *)
EXTENDS VersionedPages, TLC
CONSTANTS root, leaf, s1, s2, s3

(* One index page above one page of values. *)
TrieSlots == (root :> {s1, s2}) @@ (leaf :> {s1})
TrieChild == (root :> (s1 :> leaf @@ s2 :> None)) @@
             (leaf :> (s1 :> None @@ s2 :> None))
TrieWeight == (root :> 2) @@ (leaf :> 2)

(* A single page with three slots. *)
SoloSlots == root :> {s1, s2, s3}
SoloChild == root :> (s1 :> None @@ s2 :> None @@ s3 :> None)
SoloWeight == root :> 2
SlotSymmetry == Permutations({s1, s2, s3})
=============================================================================
