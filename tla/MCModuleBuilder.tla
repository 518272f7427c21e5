-------------------------- MODULE MCModuleBuilder --------------------------
(* Small instances of ModuleBuilder for TLC. *)
EXTENDS ModuleBuilder, TLC

(* Sound for the action properties too: they mention no object by name. *)
Symmetry == Permutations(Fun) \cup Permutations(Block) \cup Permutations(Inst)
=============================================================================
