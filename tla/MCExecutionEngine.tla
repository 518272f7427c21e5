------------------------- MODULE MCExecutionEngine -------------------------
(* Small instances of ExecutionEngine, and of RunMain over it, for TLC. *)
EXTENDS RunMain, TLC

Symmetry == Permutations(Context) \cup Permutations(Cell)
              \cup Permutations(Engine)

(* Every list of parameters main may have, one parameter too many, and a   *)
(* wrong type at each place.                                               *)
SomeParamLists ==
  {SubSeq(<<I32, PPInt8Ty, PPInt8Ty, PPInt8Ty>>, 1, n) : n \in 0..4}
    \cup {<<PPInt8Ty>>, <<I32, I32>>, <<I32, PPInt8Ty, I32>>}

SomeArgLists == {<<>>, <<"a", "b">>}
SomeEnvLists == {<<"c">>}
=============================================================================
