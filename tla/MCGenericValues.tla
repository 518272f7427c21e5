-------------------------- MODULE MCGenericValues --------------------------
(* Small instances of GenericValues and IntegerConstants for TLC. *)
EXTENDS IntegerConstants

(* Around the sizes of an `int`, a word, and more than two words. *)
Numbers == {-300, -257, -256, -17, -16, -9, -8, -5, -4, -3, -1,
            0, 1, 3, 4, 7, 8, 15, 16, 31, 128, 255, 256, 300}

(* A double whose low half is zero, and others. *)
Doubles2 == {<<0, 0>>, <<1, 0>>, <<1, 1>>}
=============================================================================
