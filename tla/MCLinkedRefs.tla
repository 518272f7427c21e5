---------------------------- MODULE MCLinkedRefs ----------------------------
(* Small instances of LinkedRefs for TLC. *)
EXTENDS LinkedRefs, TLC

Symmetry == Permutations(Context) \cup Permutations(Cell)
              \cup Permutations(Object \ Module)
=============================================================================
