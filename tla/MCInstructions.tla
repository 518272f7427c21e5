--------------------------- MODULE MCInstructions ---------------------------
(* Small instances of Instructions, and of ValueRefs over it, for TLC. *)
EXTENDS ValueRefs

(* Characters of one byte and of two. *)
SomeBytes == [a |-> 1, e |-> 2, NUL |-> 1]

(* Strings with a character that is not NUL. *)
SomeTexts == {<<"a">>, <<"e", "a">>, <<"NUL", "e">>, <<"a", "NUL">>}
=============================================================================
