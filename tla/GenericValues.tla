--------------------------- MODULE GenericValues ---------------------------
(***************************************************************************)
(* Numbers and arrays on their way between Lean and LLVM: Nat and Int      *)
(* objects to APInt and back (constants and generic values share this      *)
(* code), Float and Array to GenericValue and back.                        *)
(*                                                                         *)
(* A Nat or Int object is a boxed machine number when it is small and a    *)
(* GMP number otherwise; an APInt is a sequence of words of which the      *)
(* unused high bits are clear.  The sizes of the machine are parameters,   *)
(* so that all cases of the code fit in a small instance.                  *)
(***************************************************************************)
EXTENDS Integers, Sequences

CONSTANTS
  WordBits,     \* the bits of an APInt word and of size_t (64)
  IntBits,      \* the bits of an `int` (32)
  Widths,       \* the widths of integer types programs use
  Literals,     \* the integers programs begin with
  Doubles,      \* the floats programs use: pairs of a high and a low half
  MaxLength     \* bound: the arrays that programs convert

ASSUME SizeAssumption ==
  /\ IntBits \in Nat \ {0, 1} /\ WordBits \in Nat /\ IntBits < WordBits
  /\ Widths \subseteq Nat \ {0}
ASSUME ValueAssumption == Literals \subseteq Int /\ MaxLength \in Nat

VARIABLES
  object,    \* the Lean number the program holds
  expected,  \* the integer it stands for by the documentation
  ap,        \* the APInt of the constant or generic value it has made
  meant,     \* the integer that was to be made to fit there
  union,     \* GenericValue: the bytes that FloatVal and DoubleVal share
  given,     \* what was given to LLVM last: a float or an array's length
  elements   \* GenericValue: the length of AggregateVal

vars == <<object, expected, ap, meant, union, given, elements>>

(* The powers of two, as a function so that one can prove facts about them. *)
Pow2[n \in Nat] == IF n = 0 THEN 1 ELSE 2 * Pow2[n - 1]

(* Signed reading of the low `w` bits of n. *)
Signed(n, w) ==
  LET u == n % Pow2[w] IN IF u < Pow2[w - 1] THEN u ELSE u - Pow2[w]

Magnitude(n) == IF n < 0 THEN -n ELSE n

(* The least number of bits that hold n >= 0 (at least one). *)
SizeInBase2(n) == CHOOSE k \in 1 .. n + 1 :
                    n < Pow2[k] /\ (k = 1 \/ n >= Pow2[k - 1])
-----------------------------------------------------------------------------
(* Lean's own objects: a Nat is small up to one bit less than a word, an   *)
(* Int is small if it is an `int`, and then boxed as an unsigned number.   *)
LeanNat(n) == IF n < Pow2[WordBits - 1] THEN [type |-> "nat", big |-> FALSE, raw |-> n]
              ELSE [type |-> "nat", big |-> TRUE, raw |-> n]

LeanInt(n) ==
  IF n \in -(Pow2[IntBits - 1]) .. Pow2[IntBits - 1] - 1
  THEN [type |-> "int", big |-> FALSE, raw |-> n % Pow2[IntBits]]
  ELSE [type |-> "int", big |-> TRUE, raw |-> n]

(* What an object stands for. *)
Value(o) == IF o.type = "int" /\ ~o.big THEN Signed(o.raw, IntBits) ELSE o.raw

(* Variant with a bug: one bit less. *)
SmallNatBitsLess == WordBits - 2

(* LEAN_SMALL_NAT_BITS and LEAN_SMALL_INT_BITS *)
SmallNatBits == WordBits - 1
SmallIntBits == IntBits - 1

(* Variant with a bug: the word is never sign-extended. *)
ApOfWordUnsigned(w, val, isSigned) == [width |-> w, bits |-> val % Pow2[w]]

(* APInt(numBits, val, isSigned) for a machine word val. *)
ApOfWord(w, val, isSigned) ==
  [width |-> w,
   bits |-> (IF isSigned THEN Signed(val, WordBits) ELSE val) % Pow2[w]]

(* mpz_export, then APInt(numBits, words): the words of the magnitude, of  *)
(* which those that fit are kept.                                          *)
ApNatOfMpz(w, n) ==
  LET size == (SizeInBase2(Magnitude(n)) + WordBits - 1) \div WordBits
      kept == (w + WordBits - 1) \div WordBits
      have == IF size < kept THEN size ELSE kept
  IN  [width |-> w,
       bits |-> (Magnitude(n) % Pow2[have * WordBits]) % Pow2[w]]

(* Variant with a bug: the negation of zero does not fit. *)
NegateUnreduced(a) == [a EXCEPT !.bits = Pow2[a.width] - @]

(* The negation of an APInt. *)
Negate(a) == [a EXCEPT !.bits = (-@) % Pow2[a.width]]

(* apOfNat *)
ApOfNat(w, o) ==
  IF o.big THEN ApNatOfMpz(w, o.raw) ELSE ApOfWord(w, o.raw, FALSE)

(* apOfInt *)
ApOfInt(w, o) ==
  IF ~o.big THEN ApOfWord(w, Value(o) % Pow2[WordBits], TRUE)
  ELSE IF o.raw < 0 THEN Negate(ApNatOfMpz(w, o.raw))
  ELSE ApNatOfMpz(w, o.raw)

(* mkNatFromAP *)
MkNatFromAP(a) ==
  IF a.bits = 0 \/ SizeInBase2(a.bits) <= SmallNatBits
  THEN [type |-> "nat", big |-> FALSE, raw |-> a.bits]
  ELSE [type |-> "nat", big |-> TRUE, raw |-> a.bits]

(* APInt::getMinSignedBits: a magnitude and a sign. *)
MinSignedBits(a) ==
  LET n == Signed(a.bits, a.width)
  IN  IF n < 0 THEN (IF n = -1 THEN 1 ELSE SizeInBase2(-n - 1) + 1)
      ELSE IF n = 0 THEN 1 ELSE SizeInBase2(n) + 1

(* Variant with a bug: a negative number stays as it is. *)
ApAbsNone(a) == a

(* APInt::abs, whose bits are then read as a magnitude. *)
ApAbs(a) == IF Signed(a.bits, a.width) < 0 THEN Negate(a) ELSE a

(* mkIntFromAP *)
MkIntFromAP(a) ==
  LET negative == Signed(a.bits, a.width) < 0
  IN  IF MinSignedBits(a) <= SmallIntBits
      THEN [type |-> "int", big |-> FALSE, raw |-> Signed(a.bits, a.width) % Pow2[IntBits]]
      ELSE [type |-> "int", big |-> TRUE,
            raw |-> IF negative THEN -ApAbs(a).bits ELSE a.bits]
-----------------------------------------------------------------------------
Init ==
  /\ object = LeanNat(0) /\ expected = 0
  /\ ap = [width |-> 1, bits |-> 0] /\ meant = 0
  /\ union = <<0, 0>> /\ given = <<"nothing", 0>> /\ elements = 0

(* The program begins with a number of its own. *)
Literal(n) ==
  /\ object' \in {LeanInt(n)} \cup {LeanNat(m) : m \in {n} \cap Nat}
  /\ expected' = n
  /\ UNCHANGED <<ap, meant, union, given, elements>>

(* GenericValueRef.ofNat, ConstantIntRef.ofNat, getConstantNat *)
OfNat(w) ==
  /\ object.type = "nat"
  /\ ap' = ApOfNat(w, object)
  /\ meant' = expected
  /\ UNCHANGED <<object, expected, union, given, elements>>

(* GenericValueRef.ofInt, ConstantIntRef.ofInt, getConstantInt *)
OfInt(w) ==
  /\ object.type = "int"
  /\ ap' = ApOfInt(w, object)
  /\ meant' = expected
  /\ UNCHANGED <<object, expected, union, given, elements>>

(* GenericValueRef.toNat, ConstantIntRef.getNatValue *)
ToNat ==
  /\ object' = MkNatFromAP(ap)
  /\ expected' = meant % Pow2[ap.width]
  /\ UNCHANGED <<ap, meant, union, given, elements>>

(* GenericValueRef.toInt, ConstantIntRef.getIntValue *)
ToInt ==
  /\ object' = MkIntFromAP(ap)
  /\ expected' = Signed(meant, ap.width)
  /\ UNCHANGED <<ap, meant, union, given, elements>>

(* A constant is made: LLVM holds a, which is to stand for n. *)
MakeConstant(a, n) ==
  /\ ap' = a
  /\ meant' = n
  /\ UNCHANGED <<object, expected, union, given, elements>>

(* getNullConstant *)
NullConstant(w) == MakeConstant([width |-> w, bits |-> 0], 0)

(* getAllOnesConstant *)
AllOnesConstant(w) == MakeConstant([width |-> w, bits |-> Pow2[w] - 1], -1)

(* ofBool, ofUInt8 ... ofUInt64: the number is a UIntw. *)
OfUInt(w, n) ==
  /\ w <= WordBits /\ n < Pow2[w]
  /\ MakeConstant(ApOfWord(w, n, FALSE), n)

(* GenericValueRef.ofFloat: writes DoubleVal. *)
OfFloat(x) ==
  /\ union' = x
  /\ given' = <<"float", x>>
  /\ UNCHANGED <<object, expected, ap, meant, elements>>

(* GenericValueRef.ofArray: reserves room in AggregateVal, whose length    *)
(* stays what it was, and writes behind its end.                           *)
OfArray(n) ==
  /\ given' = <<"array", n>>
  /\ elements' = 0
  /\ UNCHANGED <<object, expected, ap, meant, union>>

Next ==
  \/ \E n \in Literals : Literal(n)
  \/ \E w \in Widths : OfNat(w) \/ OfInt(w) \/ NullConstant(w) \/ AllOnesConstant(w)
  \/ \E w \in Widths, n \in Literals \cap Nat : OfUInt(w, n)
  \/ ToNat
  \/ ToInt
  \/ \E x \in Doubles : OfFloat(x)
  \/ \E n \in 1 .. MaxLength : OfArray(n)

Spec == Init /\ [][Next]_vars

(* GenericValueRef.toFloat: reads FloatVal, which shares its bytes with    *)
(* the low half of DoubleVal, and widens it to a double whose low half is  *)
(* clear.                                                                  *)
Widen(half) == <<half, 0>>
ToFloat == Widen(union[2])

(* GenericValueRef.toArray: as long as AggregateVal. *)
ToArrayLength == elements
-----------------------------------------------------------------------------
(* The types of the variables: the bits of an APInt are within its width,  *)
(* as LLVM requires of its unused high bits (adt.cpp:77-110).              *)
TypeOK ==
  /\ object \in [type : {"nat", "int"}, big : BOOLEAN, raw : Int]
  /\ object.type = "nat" => object.raw \in Nat
  /\ expected \in Int /\ meant \in Int
  /\ ap \in [width : Nat \ {0}, bits : Nat] /\ ap.bits < Pow2[ap.width]

(* Whatever numbers go through whichever widths, and however they are      *)
(* boxed on the way, LLVM holds the number that was given, made to fit by  *)
(* truncation or extension (GenericValueRef.lean:20-36,                    *)
(* ConstantRefs.lean:111-123).                                             *)
TruncatedToFit == ap.bits = meant % Pow2[ap.width]

(* A number that was read back stands for the bits read as unsigned or as  *)
(* signed, also at the least signed number and at word boundaries          *)
(* (GenericValueRef.lean:27-40, ConstantRefs.lean:91-103).                 *)
ReadsBack == Value(object) = expected

(* Nat objects are canonical, as the Lean runtime expects when it compares *)
(* two of them: a number that fits in a box is in a box (adt.cpp:48-61).   *)
NatsAreCanonical ==
  object.type = "nat" => object = LeanNat(object.raw)

(* What was put into a generic value is read back: "Get the `double` value *)
(* of this generic as a `Float`", "Get the aggregate value of this generic *)
(* as an `Array`" (GenericValueRef.lean:46 and 54).                        *)
PayloadReadsBack ==
  /\ given[1] = "float" => ToFloat = given[2]
  /\ given[1] = "array" => ToArrayLength = given[2]
=============================================================================
