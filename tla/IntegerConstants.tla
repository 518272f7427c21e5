------------------------- MODULE IntegerConstants -------------------------
(***************************************************************************)
(* The arithmetic of Lean's pure integer types, which never asks LLVM: a   *)
(* program that builds masks from the one and constants from the other     *)
(* expects them to agree.                                                  *)
(***************************************************************************)
EXTENDS GenericValues

Word == Pow2[WordBits]

(* Shifts of a UInt64 take their distance modulo the size of the word. *)
ShiftRight(n, d) == (n % Word) \div Pow2[d % WordBits]
ShiftLeft(n, d) == ((n % Word) * Pow2[d % WordBits]) % Word

(* Variant with a bug: one bit more. *)
BitMaskWide(w) == ShiftRight(Word - 1, (WordBits - w - 1) % Word)

(* IntegerType.bitMask, a UInt64. *)
BitMask(w) == ShiftRight(Word - 1, (WordBits - w) % Word)

(* IntegerType.signBit, a UInt64. *)
SignBit(w) == ShiftLeft(1, (w - 1) % Word)

(* IntegerType.mask, a Nat. *)
Mask(w) == Pow2[w] - 1
-----------------------------------------------------------------------------
(* Bit i of the two's complement of n. *)
BitSet(n, i) == (n \div Pow2[i]) % 2 = 1

(* The masks of a type describe its constants: the bits of the constant    *)
(* LLVM has for a number are those of the number that the mask has too,    *)
(* whether it was made by ofNat, ofInt or as all ones, and the sign bit is *)
(* set in the negative ones.  The 64-bit masks are asked of types of up to *)
(* 64 bits: for wider ones bitMask is not "just every bit" (TypeBases.lean:*)
(* 32-51).                                                                 *)
MasksDescribeConstants ==
  LET w == ap.width
      Masked(m) == \A i \in 0 .. w + WordBits :
                     BitSet(ap.bits, i) <=> BitSet(meant, i) /\ BitSet(m, i)
  IN  /\ Masked(Mask(w))
      /\ w <= WordBits =>
           /\ Masked(BitMask(w))
           /\ Signed(meant, w) < 0 <=>
                \E i \in 0 .. w : BitSet(ap.bits, i) /\ BitSet(SignBit(w), i)
=============================================================================
