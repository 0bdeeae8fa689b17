----------------------------- MODULE MCDMMTrie -----------------------------
(* An instance of DMMTrie for TLC: two keys that part at the root, so that  *)
(* the root page has two index slots with the same first nibble.           *)
EXTENDS DMMTrie, TLC
CONSTANTS root, left, right, s1, s2, k1, k2

ForkSlots == (root :> {s1, s2}) @@ (left :> {s1}) @@ (right :> {s1})
ForkChild == (root :> (s1 :> left @@ s2 :> right)) @@
             (left :> (s1 :> None @@ s2 :> None)) @@
             (right :> (s1 :> None @@ s2 :> None))
ForkWeight == (root :> 2) @@ (left :> 1) @@ (right :> 1)
ForkNibble == (root :> (s1 :> 0 @@ s2 :> 0)) @@
              (left :> (s1 :> 0 @@ s2 :> 1)) @@
              (right :> (s1 :> 0 @@ s2 :> 1))
ForkPath == (k1 :> <<<<root, s1>>, <<left, s1>>>>) @@
            (k2 :> <<<<root, s2>>, <<right, s1>>>>)
=============================================================================
