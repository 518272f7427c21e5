--------------------------- MODULE ValueRefsProofs ---------------------------
(***************************************************************************)
(* Instructions, functions and the references to them, for any blocks,     *)
(* values, numbers of operands, scopes and collectors.                     *)
(***************************************************************************)
EXTENDS ValueRefs, SequenceTheorems, FiniteSetTheorems, WellFoundedInduction, TLAPS

(* The alignment fits its field: LLVM has none greater than 2^29. *)
AlignsFit == ShiftVal \subseteq 0 .. 31
(* CallingConvention.maxVal is 1023; the open enumeration admits more. *)
ConventionsFit == Conventions \subseteq 0 .. 1023

(* The branches, operands and attributes an instruction has are those that *)
(* were asked for.                                                         *)
BranchKept ==
  /\ kind = "condBr" =>
       \E t, f \in Block, c \in Value :
         /\ operands = <<c, f, t>>
         /\ asked = [cond |-> c, ifTrue |-> t, ifFalse |-> f]
  /\ kind = "br" =>
       \E b \in Block : operands = <<b>> /\ asked = [ifTrue |-> b]

OperandsKept ==
  /\ kind = "ret" =>
       \E v \in Value \cup {None} :
         /\ operands = IF v = None THEN << >> ELSE <<v>>
         /\ asked = [value |-> v]
  /\ kind = "getelementptr" =>
       \E p \in Value, is \in Values :
         /\ operands = IndexedBy(p, is)
         /\ asked = [ptr |-> p, indices |-> is, inbounds |-> inbounds]

Holds(p, v, a, o) ==
  /\ Field(p, Volatile) = Bit(v)
  /\ Field(p, Alignment) = a
  /\ Field(p, Ordering) = o

AccessKept ==
  kind \in {"load", "store"} =>
    \E v \in BOOLEAN, a \in ShiftVal, o \in AtomicOrdering :
      /\ asked = [ops |-> operands, volatile |-> v, align |-> a, ordering |-> o,
                  ssid |-> ssid]
      /\ AlignsFit => Holds(packed, v, a, o)

InstructionInv == TypeOK /\ BranchKept /\ OperandsKept /\ AccessKept
-----------------------------------------------------------------------------
(* The fields of packed numbers, and how many values each has. *)
PackedField == {Volatile, Alignment, Ordering, CallingConv}
Size(f) == 2 ^ (f.last - f.first + 1)

LEMMA Powers ==
  /\ 2 ^ 0 = 1 /\ 2 ^ 1 = 2 /\ 2 ^ 2 = 4 /\ 2 ^ 3 = 8 /\ 2 ^ 4 = 16
  /\ 2 ^ 5 = 32 /\ 2 ^ 6 = 64 /\ 2 ^ 7 = 128 /\ 2 ^ 8 = 256 /\ 2 ^ 9 = 512
  /\ 2 ^ 10 = 1024 /\ 2 ^ 11 = 2048 /\ 2 ^ 12 = 4096 /\ 2 ^ 13 = 8192
  /\ 2 ^ 14 = 16384 /\ 2 ^ 15 = 32768
OBVIOUS

LEMMA Fields ==
  ASSUME NEW f \in PackedField
  PROVE  \/ f = Volatile /\ f.first = 0 /\ f.last = 0 /\ Size(f) = 2
         \/ f = Alignment /\ f.first = 1 /\ f.last = 5 /\ Size(f) = 32
         \/ f = Ordering /\ f.first = 6 /\ f.last = 8 /\ Size(f) = 8
         \/ f = CallingConv /\ f.first = 4 /\ f.last = 13 /\ Size(f) = 1024
<1>1. /\ Size(Volatile) = 2 ^ 1 /\ Size(Alignment) = 2 ^ 5
      /\ Size(Ordering) = 2 ^ 3 /\ Size(CallingConv) = 2 ^ 10
  BY DEF Volatile, Alignment, Ordering, CallingConv, Size
<1>2. /\ Volatile.first = 0 /\ Volatile.last = 0
      /\ Alignment.first = 1 /\ Alignment.last = 5
      /\ Ordering.first = 6 /\ Ordering.last = 8
      /\ CallingConv.first = 4 /\ CallingConv.last = 13
  BY DEF Volatile, Alignment, Ordering, CallingConv
<1>. QED
  BY <1>1, <1>2, Powers DEF PackedField

PowerOf(i, p) ==
  /\ p = 2 ^ i /\ p > 0
  /\ i >= 1 => p >= 2
  /\ i >= 3 => p >= 8
  /\ i >= 5 => p >= 32
  /\ i >= 10 => p >= 1024

LEMMA PowersGrow ==
  ASSUME NEW i \in 0 .. 15
  PROVE  \E p \in Nat : PowerOf(i, p)
<1>. USE DEF PowerOf
<1>1. CASE i = 0 BY <1>1, Powers
<1>2. CASE i = 1 BY <1>2, Powers
<1>3. CASE i = 2 BY <1>3, Powers
<1>4. CASE i = 3 BY <1>4, Powers
<1>5. CASE i = 4 BY <1>5, Powers
<1>6. CASE i = 5 BY <1>6, Powers
<1>7. CASE i = 6 BY <1>7, Powers
<1>8. CASE i = 7 BY <1>8, Powers
<1>9. CASE i = 8 BY <1>9, Powers
<1>10. CASE i = 9 BY <1>10, Powers
<1>11. CASE i = 10 BY <1>11, Powers
<1>12. CASE i = 11 BY <1>12, Powers
<1>13. CASE i = 12 BY <1>13, Powers
<1>14. CASE i = 13 BY <1>14, Powers
<1>15. CASE i = 14 BY <1>15, Powers
<1>16. CASE i = 15 BY <1>16, Powers
<1>. QED
  BY <1>1, <1>2, <1>3, <1>4, <1>5, <1>6, <1>7, <1>8,
     <1>9, <1>10, <1>11, <1>12, <1>13, <1>14, <1>15, <1>16

(* A number sets no bit beyond its width. *)
LEMMA BitsFit ==
  ASSUME NEW x \in Nat
  PROVE  /\ x < 2 => BitsOf(x) \subseteq 0 .. 0
         /\ x < 8 => BitsOf(x) \subseteq 0 .. 2
         /\ x < 32 => BitsOf(x) \subseteq 0 .. 4
         /\ x < 1024 => BitsOf(x) \subseteq 0 .. 9
<1>1. ASSUME NEW p \in Nat, x < p
      PROVE  x \div p = 0
  BY <1>1
<1>2. ASSUME NEW i \in BitsOf(x)
      PROVE  i \in 0 .. 15 /\ ~ (x < 2 ^ i)
  <2>1. i \in 0 .. 15 /\ (x \div 2 ^ i) % 2 = 1
    BY DEF BitsOf, SubclassData
  <2>2. PICK p \in Nat : PowerOf(i, p)
    BY <2>1, PowersGrow
  <2>. QED
    BY <1>1, <2>1, <2>2 DEF PowerOf
<1>3. ASSUME NEW i \in BitsOf(x)
      PROVE  /\ i \in 0 .. 15
             /\ x < 2 => i < 1 
             /\ x < 8 => i < 3 
             /\ x < 32 => i < 5
             /\ x < 1024 => i < 10
  <2>1. i \in 0 .. 15
    BY <1>2
  <2>2. PICK p \in Nat : PowerOf(i, p)
    BY <2>1, PowersGrow
  <2>3. ~ (x < p)
    BY <1>2, <2>2 DEF PowerOf
  <2>. QED
    BY <2>1, <2>2, <2>3 DEF PowerOf
<1>. QED
  BY <1>3

(* A number of ten bits is known by its bits. *)
TenBits == 0 .. 1023

LEMMA BitsDiffer ==
  ASSUME NEW x \in TenBits, NEW y \in TenBits, BitsOf(x) = BitsOf(y)
  PROVE  x = y
<1>. USE DEF TenBits
<1>1. \A i \in 0 .. 15 : (x \div 2 ^ i) % 2 = 1 <=> (y \div 2 ^ i) % 2 = 1
  BY ZenonT(40) DEF BitsOf, SubclassData
<1>2. ASSUME NEW v \in 0 .. 31, NEW w \in 0 .. 31,
             v % 2 = 1 <=> w % 2 = 1,
             (v \div 2) % 2 = 1 <=> (w \div 2) % 2 = 1,
             (v \div 4) % 2 = 1 <=> (w \div 4) % 2 = 1,
             (v \div 8) % 2 = 1 <=> (w \div 8) % 2 = 1,
             (v \div 16) % 2 = 1 <=> (w \div 16) % 2 = 1
      PROVE  v = w
  BY <1>2
<1>3. ASSUME NEW q \in 0 .. 31, NEW r \in 0 .. 31, NEW z \in Nat, z = 32 * q + r
      PROVE  /\ z % 2 = r % 2
             /\ (z \div 2) % 2 = (r \div 2) % 2
             /\ (z \div 4) % 2 = (r \div 4) % 2
             /\ (z \div 8) % 2 = (r \div 8) % 2
             /\ (z \div 16) % 2 = (r \div 16) % 2
  <2>1. z % 2 = r % 2
    BY <1>3
  <2>2. (z \div 2) % 2 = (r \div 2) % 2
    BY <1>3
  <2>3. (z \div 4) % 2 = (r \div 4) % 2
    BY <1>3
  <2>4. (z \div 8) % 2 = (r \div 8) % 2
    BY <1>3
  <2>5. (z \div 16) % 2 = (r \div 16) % 2
    BY <1>3
  <2>. QED
    BY <2>1, <2>2, <2>3, <2>4, <2>5
<1>4. ASSUME NEW q \in 0 .. 31, NEW r \in 0 .. 31, NEW z \in Nat, z = 32 * q + r
      PROVE  /\ z \div 32 = q
             /\ z \div 64 = q \div 2
             /\ z \div 128 = q \div 4
             /\ z \div 256 = q \div 8
             /\ z \div 512 = q \div 16
  <2>1. z \div 32 = q
    BY <1>4
  <2>2. z \div 64 = q \div 2
    BY <1>4
  <2>3. z \div 128 = q \div 4
    BY <1>4
  <2>4. z \div 256 = q \div 8
    BY <1>4
  <2>5. z \div 512 = q \div 16
    BY <1>4
  <2>. QED
    BY <2>1, <2>2, <2>3, <2>4, <2>5
<1>5. ASSUME NEW z \in 0 .. 1023
      PROVE  \E q \in 0 .. 31, r \in 0 .. 31 : z = 32 * q + r
  <2>1. z \div 32 \in 0 .. 31 /\ z % 32 \in 0 .. 31
    OBVIOUS
  <2>2. z = 32 * (z \div 32) + (z % 32)
    OBVIOUS
  <2>. QED
    BY <2>1, <2>2
<1>6. PICK q \in 0 .. 31, r \in 0 .. 31 : x = 32 * q + r
  BY <1>5
<1>7. PICK s \in 0 .. 31, t \in 0 .. 31 : y = 32 * s + t
  BY <1>5
<1>8. r = t
  <2>1. /\ x % 2 = 1 <=> y % 2 = 1
        /\ (x \div 2) % 2 = 1 <=> (y \div 2) % 2 = 1
        /\ (x \div 4) % 2 = 1 <=> (y \div 4) % 2 = 1
        /\ (x \div 8) % 2 = 1 <=> (y \div 8) % 2 = 1
        /\ (x \div 16) % 2 = 1 <=> (y \div 16) % 2 = 1
    BY <1>1, Powers
  <2>2. x % 2 = r % 2 /\ y % 2 = t % 2
    BY <1>3, <1>6, <1>7, SMTT(30)
  <2>3. (x \div 2) % 2 = (r \div 2) % 2 /\ (y \div 2) % 2 = (t \div 2) % 2
    <3>1. (x \div 2) % 2 = (r \div 2) % 2
      BY <1>3, <1>6, SMTT(30)
    <3>2. (y \div 2) % 2 = (t \div 2) % 2
      BY <1>3, <1>7, SMTT(30)
    <3>. QED
      BY <3>1, <3>2
  <2>4. (x \div 4) % 2 = (r \div 4) % 2 /\ (y \div 4) % 2 = (t \div 4) % 2
    BY <1>3, <1>6, <1>7, SMTT(30)
  <2>5. (x \div 8) % 2 = (r \div 8) % 2 /\ (y \div 8) % 2 = (t \div 8) % 2
    BY <1>3, <1>6, <1>7, SMTT(30)
  <2>6. (x \div 16) % 2 = (r \div 16) % 2 /\ (y \div 16) % 2 = (t \div 16) % 2
    BY <1>3, <1>6, <1>7, SMTT(30)
  <2>7. /\ r % 2 = 1 <=> t % 2 = 1
        /\ (r \div 2) % 2 = 1 <=> (t \div 2) % 2 = 1
        /\ (r \div 4) % 2 = 1 <=> (t \div 4) % 2 = 1
        /\ (r \div 8) % 2 = 1 <=> (t \div 8) % 2 = 1
        /\ (r \div 16) % 2 = 1 <=> (t \div 16) % 2 = 1
    BY <2>1, <2>2, <2>3, <2>4, <2>5, <2>6, ZenonT(30)
  <2>. QED
    BY <1>2, <2>7, SMTT(30)
<1>9. q = s
  <2>1. /\ (x \div 32) % 2 = 1 <=> (y \div 32) % 2 = 1
        /\ (x \div 64) % 2 = 1 <=> (y \div 64) % 2 = 1
        /\ (x \div 128) % 2 = 1 <=> (y \div 128) % 2 = 1
        /\ (x \div 256) % 2 = 1 <=> (y \div 256) % 2 = 1
        /\ (x \div 512) % 2 = 1 <=> (y \div 512) % 2 = 1
    BY <1>1, Powers
  <2>2. /\ x \div 32 = q /\ y \div 32 = s
        /\ x \div 64 = q \div 2 /\ y \div 64 = s \div 2
        /\ x \div 128 = q \div 4 /\ y \div 128 = s \div 4
        /\ x \div 256 = q \div 8 /\ y \div 256 = s \div 8
        /\ x \div 512 = q \div 16 /\ y \div 512 = s \div 16
    BY <1>4, <1>6, <1>7, SMTT(30)
  <2>. QED
    BY <1>2, <2>1, <2>2, SMTT(30)
<1>. QED
  BY <1>6, <1>7, <1>8, <1>9
(* A value that fits its field sets no bit outside, and another value sets *)
(* other bits.                                                             *)
LEMMA ShiftedFits ==
  ASSUME NEW f \in PackedField, NEW x \in 0 .. Size(f) - 1
  PROVE  /\ x \in TenBits
         /\ Shifted(x, f) = {f.first + i : i \in BitsOf(x)}
         /\ Shifted(x, f) \subseteq Positions(f)
         /\ Shifted(x, f) \subseteq SubclassData
<1>1. x \in TenBits
  BY Fields DEF TenBits
<1>2. \A i \in BitsOf(x) : i \in 0 .. 15 /\ f.first + i \in f.first .. f.last
  <2>1. x \in Nat
    BY <1>1 DEF TenBits
  <2>. QED
    BY <2>1, Fields, BitsFit
<1>3. /\ f.first \in 0 .. 15 /\ f.last \in 0 .. 15
  BY Fields
<1>4. \A i \in BitsOf(x) : f.first + i \in 0 .. 15
  BY <1>2, <1>3
<1>5. Shifted(x, f) = {f.first + i : i \in BitsOf(x)}
  BY <1>4 DEF Shifted, SubclassData
<1>6. \A j \in Shifted(x, f) : j \in Positions(f) /\ j \in SubclassData
  BY <1>2, <1>4, <1>5 DEF Positions, SubclassData
<1>. QED
  BY <1>1, <1>5, <1>6

LEMMA ShiftedDiffer ==
  ASSUME NEW f \in PackedField,
         NEW x \in 0 .. Size(f) - 1, NEW y \in 0 .. Size(f) - 1,
         Shifted(x, f) = Shifted(y, f)
  PROVE  x = y
<1>1. PICK n \in 0 .. 15 : n = f.first
  BY Fields
<1>2. /\ x \in TenBits /\ Shifted(x, f) = {n + i : i \in BitsOf(x)}
      /\ y \in TenBits /\ Shifted(y, f) = {n + i : i \in BitsOf(y)}
  BY <1>1, ShiftedFits
<1>3. BitsOf(x) \subseteq Int /\ BitsOf(y) \subseteq Int
  BY DEF BitsOf, SubclassData
<1>4. ASSUME NEW A \in SUBSET Int, NEW B \in SUBSET Int,
             {n + i : i \in A} = {n + i : i \in B}
      PROVE  A \subseteq B
  <2>1. SUFFICES ASSUME NEW i \in A PROVE i \in B
    OBVIOUS
  <2>2. n + i \in {n + j : j \in A}
    OBVIOUS
  <2>3. n + i \in {n + j : j \in B}
    BY <1>4, <2>2
  <2>4. PICK j \in B : n + i = n + j
    BY <2>3
  <2>. QED
    BY <2>4
<1>5. {n + i : i \in BitsOf(x)} = {n + i : i \in BitsOf(y)}
  BY <1>2
<1>6. BitsOf(x) \subseteq BitsOf(y)
  BY <1>3, <1>4, <1>5
<1>7. BitsOf(y) \subseteq BitsOf(x)
  BY <1>3, <1>4, <1>5
<1>8. BitsOf(x) = BitsOf(y)
  BY <1>6, <1>7
<1>9. x \in TenBits /\ y \in TenBits
  BY <1>2
<1>. QED
  BY <1>8, <1>9, BitsDiffer

(* A field reads as the value whose bits it holds. *)
LEMMA FieldReads ==
  ASSUME NEW p \in SUBSET SubclassData, NEW f \in PackedField,
         NEW x \in 0 .. Size(f) - 1, p \cap Positions(f) = Shifted(x, f)
  PROVE  Field(p, f) = x
<1>1. Field(p, f) = CHOOSE y \in 0 .. Size(f) - 1 : Shifted(y, f) = Shifted(x, f)
  BY DEF Field, Size
<1>2. \A y \in 0 .. Size(f) - 1 : Shifted(y, f) = Shifted(x, f) => y = x
  BY ShiftedDiffer
<1>. QED
  BY <1>1, <1>2

(* Bitfield::set is undone by Bitfield::get. *)
LEMMA FieldSet ==
  ASSUME NEW p \in SUBSET SubclassData, NEW f \in PackedField,
         NEW x \in 0 .. Size(f) - 1
  PROVE  /\ SetField(p, f, x) \in SUBSET SubclassData
         /\ Field(SetField(p, f, x), f) = x
         /\ SetField(p, f, x) \subseteq p \cup Positions(f)
         /\ p \subseteq SetField(p, f, x) \cup Positions(f)
<1>1. SetField(p, f, x) = (p \ Positions(f)) \cup Shifted(x, f)
  BY DEF SetField
<1>2. Shifted(x, f) \subseteq Positions(f) /\ Shifted(x, f) \subseteq SubclassData
  BY ShiftedFits
<1>3. PICK q \in SUBSET SubclassData : q = SetField(p, f, x)
  BY <1>1, <1>2
<1>4. q \cap Positions(f) = Shifted(x, f)
  BY <1>1, <1>2, <1>3
<1>5. Field(q, f) = x
  BY <1>4, FieldReads
<1>. QED
  BY <1>1, <1>2, <1>3, <1>5

(* It leaves the other fields alone. *)
LEMMA FieldKept ==
  ASSUME NEW p \in SUBSET SubclassData, NEW f \in PackedField,
         NEW x \in 0 .. Size(f) - 1, NEW g \in PackedField,
         Positions(f) \cap Positions(g) = {}
  PROVE  Field(SetField(p, f, x), g) = Field(p, g)
<1>1. SetField(p, f, x) \cap Positions(g) = p \cap Positions(g)
  BY FieldSet
<1>. QED
  BY <1>1 DEF Field

(* The three fields of a load or store do not overlap. *)
LEMMA FieldsApart ==
  /\ {Volatile, Alignment, Ordering, CallingConv} \subseteq PackedField
  /\ Positions(Volatile) \cap Positions(Alignment) = {}
  /\ Positions(Volatile) \cap Positions(Ordering) = {}
  /\ Positions(Alignment) \cap Positions(Ordering) = {}
<1>1. {Volatile, Alignment, Ordering, CallingConv} \subseteq PackedField
  BY DEF PackedField
<1>2. Positions(Volatile) = 0 .. 0
  BY DEF Positions, Volatile
<1>3. Positions(Alignment) = 1 .. 5
  BY DEF Positions, Alignment
<1>4. Positions(Ordering) = 6 .. 8
  BY DEF Positions, Ordering
<1>. QED
  BY <1>1, <1>2, <1>3, <1>4
-----------------------------------------------------------------------------
LEMMA Shapes ==
  /\ Shape("none") = {<< >>}
  /\ Shape("ret") = {<< >>} \cup {<<v>> : v \in Value}
  /\ Shape("br") = {<<b>> : b \in Block}
  /\ Shape("condBr") = Value \X Block \X Block
  /\ Shape("load") = {<<v>> : v \in Value}
  /\ Shape("store") = Value \X Value
  /\ Shape("getelementptr") = {IndexedBy(v, is) : v \in Value, is \in Values}
  /\ Shape("call") = {CallOf(f, args) : f \in Value, args \in Values}
BY DEF Shape

LEMMA ValuesAreSeqs == Values \subseteq Seq(Value)
BY DEF Values

(* Setting a field, whether or not the value fits, gives a packed number. *)
LEMMA SetFieldType ==
  ASSUME NEW p \in SUBSET SubclassData, NEW f, NEW x
  PROVE  SetField(p, f, x) \in SUBSET SubclassData
BY DEF SetField, Shifted

(* Each attribute of a load or store is set without disturbing the others. *)
LEMMA AccessSet ==
  ASSUME NEW p \in SUBSET SubclassData, NEW v, NEW a, NEW o, Holds(p, v, a, o)
  PROVE  /\ \A w \in BOOLEAN : Holds(SetField(p, Volatile, Bit(w)), w, a, o)
         /\ \A b \in 0 .. 31 : Holds(SetField(p, Alignment, b), v, b, o)
         /\ \A q \in AtomicOrdering : Holds(SetField(p, Ordering, q), v, a, q)
<1>1. /\ \A w \in BOOLEAN : Bit(w) \in 0 .. Size(Volatile) - 1
      /\ \A b \in 0 .. 31 : b \in 0 .. Size(Alignment) - 1
      /\ \A q \in AtomicOrdering : q \in 0 .. Size(Ordering) - 1
  <2>1. Size(Volatile) = 2 /\ Size(Alignment) = 32 /\ Size(Ordering) = 8
    BY Powers DEF Size, Volatile, Alignment, Ordering
  <2>. QED
    BY <2>1 DEF Bit, AtomicOrdering
<1>2. ASSUME NEW w \in BOOLEAN PROVE Holds(SetField(p, Volatile, Bit(w)), w, a, o)
  BY <1>1, FieldsApart, FieldSet, FieldKept DEF Holds
<1>3. ASSUME NEW b \in 0 .. 31 PROVE Holds(SetField(p, Alignment, b), v, b, o)
  BY <1>1, FieldsApart, FieldSet, FieldKept DEF Holds
<1>4. ASSUME NEW q \in AtomicOrdering PROVE Holds(SetField(p, Ordering, q), v, a, q)
  BY <1>1, FieldsApart, FieldSet, FieldKept DEF Holds
<1>. QED
  BY <1>2, <1>3, <1>4

(* No bit is set: every field is zero. *)
LEMMA NothingSet ==
  ASSUME NEW f \in PackedField
  PROVE  Field({}, f) = 0
<1>1. Shifted(0, f) = {}
  <2>1. ASSUME NEW i \in 0 .. 15 PROVE ~ ((0 \div 2 ^ i) % 2 = 1)
    <3>1. PICK p \in Nat : PowerOf(i, p)
      BY <2>1, PowersGrow
    <3>2. p = 2 ^ i /\ p > 0
      BY <3>1 DEF PowerOf
    <3>3. 0 \div p = 0
      BY <3>2
    <3>. QED
      BY <3>2, <3>3
  <2>2. BitsOf(0) = {}
    BY <2>1 DEF BitsOf, SubclassData
  <2>. QED
    BY <2>2 DEF Shifted
<1>2. 0 \in 0 .. Size(f) - 1
  BY Fields
<1>. QED
  BY <1>1, <1>2, FieldReads

LEMMA NewHolds == Holds({}, FALSE, 0, 0)
BY NothingSet, FieldsApart DEF Holds, Bit
-----------------------------------------------------------------------------
(* Instructions: each constructor and each setter. *)
LEMMA InstructionInit ==
  ASSUME Init
  PROVE  InstructionInv
<1>1. TypeOK
  BY Shapes, ScopeAssumption DEF Init, TypeOK
<1>. QED
  BY <1>1 DEF Init, InstructionInv, BranchKept, OperandsKept, AccessKept

(* The constructors of all but loads and stores. *)
LEMMA MakePreserves ==
  ASSUME InstructionInv,
         \/ \E v \in Value \cup {None} : CreateRet(v)
         \/ \E t, f \in Block, c \in Value : CreateCondBr(t, f, c)
         \/ \E b \in Block : CreateBr(b)
         \/ \E p \in Value, vs \in Values :
              CreateCall(p, vs) \/ \E flag \in BOOLEAN : CreateGetElementPtr(p, vs, flag)
  PROVE  InstructionInv' /\ kind = "none" /\ kind' # "none"
<1>1. ssid \notin ScopeId \/ kind # "none"
  BY DEF InstructionInv, TypeOK
<1>2. packed \in SUBSET SubclassData /\ inbounds \in BOOLEAN
  BY DEF InstructionInv, TypeOK
<1>3. ASSUME NEW v \in Value \cup {None}, CreateRet(v)
      PROVE  InstructionInv' /\ kind = "none" /\ kind' # "none"
  <2>1. /\ kind = "none" /\ kind' = "ret" /\ operands' = IF v = None THEN << >> ELSE <<v>>
        /\ asked' = [value |-> v] /\ UNCHANGED <<packed, ssid, inbounds>>
    BY <1>3 DEF CreateRet, Make
  <2>2. operands' \in Shape("ret")
    BY <2>1, Shapes
  <2>3. TypeOK'
    BY <1>1, <1>2, <2>1, <2>2 DEF TypeOK
  <2>. QED
    BY <2>1, <2>3 DEF InstructionInv, BranchKept, OperandsKept, AccessKept
<1>4. ASSUME NEW t \in Block, NEW f \in Block, NEW c \in Value, CreateCondBr(t, f, c)
      PROVE  InstructionInv' /\ kind = "none" /\ kind' # "none"
  <2>1. /\ kind = "none" /\ kind' = "condBr" /\ operands' = <<c, f, t>>
        /\ asked' = [cond |-> c, ifTrue |-> t, ifFalse |-> f]
        /\ UNCHANGED <<packed, ssid, inbounds>>
    BY <1>4 DEF CreateCondBr, Make
  <2>2. operands' \in Shape("condBr")
    BY <2>1, Shapes
  <2>3. TypeOK'
    BY <1>1, <1>2, <2>1, <2>2 DEF TypeOK
  <2>. QED
    BY <2>1, <2>3 DEF InstructionInv, BranchKept, OperandsKept, AccessKept
<1>5. ASSUME NEW b \in Block, CreateBr(b)
      PROVE  InstructionInv' /\ kind = "none" /\ kind' # "none"
  <2>1. /\ kind = "none" /\ kind' = "br" /\ operands' = <<b>>
        /\ asked' = [ifTrue |-> b] /\ UNCHANGED <<packed, ssid, inbounds>>
    BY <1>5 DEF CreateBr, Make
  <2>2. operands' \in Shape("br")
    BY <2>1, Shapes
  <2>3. TypeOK'
    BY <1>1, <1>2, <2>1, <2>2 DEF TypeOK
  <2>. QED
    BY <2>1, <2>3 DEF InstructionInv, BranchKept, OperandsKept, AccessKept
<1>6. ASSUME NEW p \in Value, NEW vs \in Values, CreateCall(p, vs)
      PROVE  InstructionInv' /\ kind = "none" /\ kind' # "none"
  <2>1. /\ kind = "none" /\ kind' = "call" /\ operands' = CallOf(p, vs)
        /\ UNCHANGED <<packed, ssid, inbounds>>
    BY <1>6 DEF CreateCall, Make
  <2>2. operands' \in Shape("call")
    BY <2>1, Shapes
  <2>3. TypeOK'
    BY <1>1, <1>2, <2>1, <2>2 DEF TypeOK
  <2>. QED
    BY <2>1, <2>3 DEF InstructionInv, BranchKept, OperandsKept, AccessKept
<1>7. ASSUME NEW p \in Value, NEW vs \in Values, NEW flag \in BOOLEAN,
             CreateGetElementPtr(p, vs, flag)
      PROVE  InstructionInv' /\ kind = "none" /\ kind' # "none"
  <2>1. /\ kind = "none" /\ kind' = "getelementptr" /\ operands' = IndexedBy(p, vs)
        /\ asked' = [ptr |-> p, indices |-> vs, inbounds |-> inbounds']
        /\ inbounds' \in BOOLEAN /\ UNCHANGED <<packed, ssid>>
    BY <1>7 DEF CreateGetElementPtr, Make
  <2>2. operands' \in Shape("getelementptr")
    BY <2>1, Shapes
  <2>3. TypeOK'
    BY <1>1, <1>2, <2>1, <2>2 DEF TypeOK
  <2>. QED
    BY <2>1, <2>3 DEF InstructionInv, BranchKept, OperandsKept, AccessKept
<1>. QED
  BY <1>3, <1>4, <1>5, <1>6, <1>7
(* The setters of branches, and the flag of a getelementptr. *)
LEMMA SetPreserves ==
  ASSUME InstructionInv,
         \/ \E c \in Value : SetCondition(c)
         \/ \E b \in Block : SetIfTrue(b) \/ SetIfFalse(b)
         \/ SwapSuccessors
         \/ \E v \in BOOLEAN : SetInbounds(v)
  PROVE  InstructionInv' /\ kind # "none" /\ kind' = kind
<1>1. TypeOK
  BY DEF InstructionInv
<1>2. ASSUME NEW t \in Block, NEW f \in Block, NEW c \in Value, kind = "condBr",
             kind' = kind, operands' = <<c, f, t>>,
             asked' = [cond |-> c, ifTrue |-> t, ifFalse |-> f],
             UNCHANGED <<packed, ssid, inbounds>>
      PROVE  InstructionInv'
  <2>1. operands' \in Shape("condBr")
    BY <1>2, Shapes
  <2>2. TypeOK'
    BY <1>1, <1>2, <2>1 DEF TypeOK
  <2>. QED
    BY <1>2, <2>2 DEF InstructionInv, BranchKept, OperandsKept, AccessKept
<1>3. ASSUME kind = "condBr"
      PROVE  \E t, f \in Block, c \in Value :
               /\ operands = <<c, f, t>>
               /\ asked = [cond |-> c, ifTrue |-> t, ifFalse |-> f]
  BY <1>3 DEF InstructionInv, BranchKept
<1>4. ASSUME NEW d \in Value, SetCondition(d)
      PROVE  InstructionInv' /\ kind # "none" /\ kind' = kind
  <2>1. kind = "condBr"
    BY <1>4 DEF SetCondition
  <2>2. PICK t \in Block, f \in Block, c \in Value :
               /\ operands = <<c, f, t>>
               /\ asked = [cond |-> c, ifTrue |-> t, ifFalse |-> f]
    BY <1>3, <2>1
  <2>3. /\ operands' = <<d, f, t>>
        /\ asked' = [cond |-> d, ifTrue |-> t, ifFalse |-> f]
        /\ UNCHANGED <<kind, packed, ssid, inbounds>>
    BY <1>4, <2>2 DEF SetCondition, SetOperands
  <2>. QED
    BY <1>2, <2>1, <2>3
<1>5. ASSUME NEW b \in Block, SetIfTrue(b)
      PROVE  InstructionInv' /\ kind # "none" /\ kind' = kind
  <2>1. CASE kind = "condBr"
    <3>1. PICK t \in Block, f \in Block, c \in Value :
                 /\ operands = <<c, f, t>>
                 /\ asked = [cond |-> c, ifTrue |-> t, ifFalse |-> f]
      BY <1>3, <2>1
    <3>2. /\ operands' = <<c, f, b>>
          /\ asked' = [cond |-> c, ifTrue |-> b, ifFalse |-> f]
          /\ UNCHANGED <<kind, packed, ssid, inbounds>>
      BY <1>5, <3>1 DEF SetIfTrue, SetOperands
    <3>. QED
      BY <1>2, <2>1, <3>2
  <2>2. CASE kind = "br"
    <3>1. PICK t \in Block : operands = <<t>> /\ asked = [ifTrue |-> t]
      BY <2>2 DEF InstructionInv, BranchKept
    <3>2. /\ operands' = <<b>> /\ asked' = [ifTrue |-> b]
          /\ UNCHANGED <<kind, packed, ssid, inbounds>>
      BY <1>5, <3>1 DEF SetIfTrue, SetOperands
    <3>3. operands' \in Shape("br")
      BY <3>2, Shapes
    <3>4. TypeOK'
      BY <1>1, <2>2, <3>2, <3>3 DEF TypeOK
    <3>. QED
      BY <2>2, <3>2, <3>4 DEF InstructionInv, BranchKept, OperandsKept, AccessKept
  <2>. QED
    BY <1>5, <2>1, <2>2 DEF SetIfTrue
<1>6. ASSUME NEW b \in Block, SetIfFalse(b)
      PROVE  InstructionInv' /\ kind # "none" /\ kind' = kind
  <2>1. kind = "condBr"
    BY <1>6 DEF SetIfFalse
  <2>2. PICK t \in Block, f \in Block, c \in Value :
               /\ operands = <<c, f, t>>
               /\ asked = [cond |-> c, ifTrue |-> t, ifFalse |-> f]
    BY <1>3, <2>1
  <2>3. /\ operands' = <<c, b, t>>
        /\ asked' = [cond |-> c, ifTrue |-> t, ifFalse |-> b]
        /\ UNCHANGED <<kind, packed, ssid, inbounds>>
    BY <1>6, <2>2 DEF SetIfFalse, SetOperands
  <2>. QED
    BY <1>2, <2>1, <2>3
<1>7. ASSUME SwapSuccessors
      PROVE  InstructionInv' /\ kind # "none" /\ kind' = kind
  <2>1. kind = "condBr"
    BY <1>7 DEF SwapSuccessors
  <2>2. PICK t \in Block, f \in Block, c \in Value :
               /\ operands = <<c, f, t>>
               /\ asked = [cond |-> c, ifTrue |-> t, ifFalse |-> f]
    BY <1>3, <2>1
  <2>3. /\ operands' = <<c, t, f>>
        /\ asked' = [cond |-> c, ifTrue |-> f, ifFalse |-> t]
        /\ UNCHANGED <<kind, packed, ssid, inbounds>>
    <3>1. /\ operands[2] = f /\ operands[3] = t
          /\ asked.ifTrue = t /\ asked.ifFalse = f
      BY <2>2
    <3>2. /\ operands' = [operands EXCEPT ![3] = f, ![2] = t]
          /\ asked' = [asked EXCEPT !.ifTrue = f, !.ifFalse = t]
          /\ UNCHANGED <<kind, packed, ssid, inbounds>>
      BY <1>7, <3>1 DEF SwapSuccessors, SetOperands
    <3>3. operands' = <<c, t, f>>
      BY <2>2, <3>2
    <3>4. asked' = [cond |-> c, ifTrue |-> f, ifFalse |-> t]
      BY <2>2, <3>2
    <3>. QED
      BY <3>2, <3>3, <3>4
  <2>. QED
    BY <1>2, <2>1, <2>3
<1>8. ASSUME NEW flag \in BOOLEAN, SetInbounds(flag)
      PROVE  InstructionInv' /\ kind # "none" /\ kind' = kind
  <2>1. /\ kind = "getelementptr" /\ inbounds' = flag
        /\ asked' = [asked EXCEPT !.inbounds = flag]
        /\ UNCHANGED <<kind, operands, packed, ssid>>
    BY <1>8 DEF SetInbounds
  <2>2. PICK p \in Value, is \in Values :
               /\ operands = IndexedBy(p, is)
               /\ asked = [ptr |-> p, indices |-> is, inbounds |-> inbounds]
    BY <2>1 DEF InstructionInv, OperandsKept
  <2>3. asked' = [ptr |-> p, indices |-> is, inbounds |-> inbounds']
    BY <2>1, <2>2
  <2>4. TypeOK'
    BY <1>1, <2>1 DEF TypeOK
  <2>. QED
    BY <2>1, <2>2, <2>3, <2>4
    DEF InstructionInv, BranchKept, OperandsKept, AccessKept
<1>. QED
  BY <1>4, <1>5, <1>6, <1>7, <1>8
(* A new load or store. *)
LEMMA AccessCreated ==
  ASSUME InstructionInv, NEW ops \in Shape("load") \cup Shape("store"),
         NEW v \in BOOLEAN, NEW a \in ShiftVal, NEW o \in AtomicOrdering,
         NEW s \in ScopeId, CreateAccess(ops, v, a, o, s)
  PROVE  InstructionInv' /\ kind = "none" /\ kind' # "none"
<1>1. PICK one \in SUBSET SubclassData : one = SetField({}, Volatile, Bit(v))
  BY SetFieldType
<1>2. PICK two \in SUBSET SubclassData : two = SetField(one, Alignment, a)
  BY SetFieldType
<1>3. /\ kind = "none"
      /\ kind' = IF Len(ops) = 1 THEN "load" ELSE "store"
      /\ operands' = ops
      /\ asked' = [ops |-> ops, volatile |-> v, align |-> a, ordering |-> o, ssid |-> s]
      /\ packed' = SetField(two, Ordering, o)
      /\ ssid' = s /\ inbounds' = inbounds
  BY <1>1, <1>2 DEF CreateAccess, Make
<1>4. packed' \in SUBSET SubclassData
  BY <1>3, SetFieldType
<1>5. kind' \in {"load", "store"} /\ operands' \in Shape(kind')
  <2>1. CASE ops \in Shape("load")
    <3>1. Len(ops) = 1
      BY <2>1, Shapes
    <3>. QED
      BY <1>3, <2>1, <3>1
  <2>2. CASE ops \in Shape("store")
    <3>1. Len(ops) = 2
      BY <2>2, Shapes
    <3>. QED
      BY <1>3, <2>2, <3>1
  <2>. QED
    BY <2>1, <2>2
<1>6. TypeOK'
  BY <1>3, <1>4, <1>5 DEF InstructionInv, TypeOK
<1>7. AlignsFit => Holds(packed', v, a, o)
  <2>1. SUFFICES ASSUME AlignsFit PROVE Holds(packed', v, a, o)
    OBVIOUS
  <2>2. a \in 0 .. 31
    BY <2>1 DEF AlignsFit
  <2>3. Holds(one, v, 0, 0)
    BY <1>1, NewHolds, AccessSet
  <2>4. Holds(two, v, a, 0)
    BY <1>2, <2>2, <2>3, AccessSet
  <2>. QED
    BY <1>3, <2>4, AccessSet
<1>8. AccessKept'
  BY <1>3, <1>7 DEF AccessKept
<1>. QED
  BY <1>3, <1>5, <1>6, <1>8 DEF InstructionInv, BranchKept, OperandsKept

(* The setters of loads and stores. *)
LEMMA AccessPreserves ==
  ASSUME InstructionInv,
         \/ \E v \in BOOLEAN : SetVolatile(v)
         \/ \E a \in ShiftVal : SetAlign(a)
         \/ \E o \in AtomicOrdering : SetOrdering(o)
         \/ \E s \in ScopeId : SetSyncScopeID(s)
         \/ \E o \in AtomicOrdering, s \in ScopeId : SetAtomic(o, s)
  PROVE  InstructionInv' /\ kind # "none" /\ kind' = kind
<1>1. PICK p, s, wish : SetAccess(p, s, wish)
  BY DEF SetVolatile, SetAlign, SetOrdering, SetSyncScopeID, SetAtomic
<1>2. /\ kind \in {"load", "store"}
      /\ UNCHANGED <<kind, operands, inbounds>>
  BY <1>1 DEF SetAccess
<1>3. PICK v \in BOOLEAN, a \in ShiftVal, o \in AtomicOrdering :
        /\ asked = [ops |-> operands, volatile |-> v, align |-> a, ordering |-> o,
                    ssid |-> ssid]
        /\ AlignsFit => Holds(packed, v, a, o)
  BY <1>2 DEF InstructionInv, AccessKept
<1>4. TypeOK /\ packed \in SUBSET SubclassData
  BY DEF InstructionInv, TypeOK
<1>5. ASSUME NEW w \in BOOLEAN, NEW b \in ShiftVal, NEW q \in AtomicOrdering,
             packed' \in SUBSET SubclassData, ssid' \in ScopeId,
             asked' = [ops |-> operands, volatile |-> w, align |-> b, ordering |-> q,
                       ssid |-> ssid'],
             AlignsFit => Holds(packed', w, b, q)
      PROVE  InstructionInv'
  <2>1. TypeOK'
    BY <1>2, <1>4, <1>5 DEF TypeOK
  <2>2. AccessKept'
    BY <1>2, <1>5 DEF AccessKept
  <2>. QED
    BY <1>2, <2>1, <2>2 DEF InstructionInv, BranchKept, OperandsKept
<1>6. ssid \in ScopeId
  BY <1>2, <1>4 DEF TypeOK
<1>7. ASSUME NEW w \in BOOLEAN, SetVolatile(w) PROVE InstructionInv'
  <2>1. /\ packed' = SetField(packed, Volatile, Bit(w)) /\ ssid' = ssid
        /\ asked' = [ops |-> operands, volatile |-> w, align |-> a, ordering |-> o,
                     ssid |-> ssid]
    BY <1>3, <1>7 DEF SetVolatile, SetAccess
  <2>2. packed' \in SUBSET SubclassData
    BY <1>4, <2>1, SetFieldType
  <2>3. AlignsFit => Holds(packed', w, a, o)
    BY <1>3, <1>4, <2>1, AccessSet
  <2>. QED
    BY <1>5, <1>6, <2>1, <2>2, <2>3
<1>8. ASSUME NEW b \in ShiftVal, SetAlign(b) PROVE InstructionInv'
  <2>1. /\ packed' = SetField(packed, Alignment, b) /\ ssid' = ssid
        /\ asked' = [ops |-> operands, volatile |-> v, align |-> b, ordering |-> o,
                     ssid |-> ssid]
    BY <1>3, <1>8 DEF SetAlign, SetAccess
  <2>2. packed' \in SUBSET SubclassData
    BY <1>4, <2>1, SetFieldType
  <2>3. AlignsFit => Holds(packed', v, b, o)
    BY <1>3, <1>4, <2>1, AccessSet DEF AlignsFit
  <2>. QED
    BY <1>5, <1>6, <2>1, <2>2, <2>3
<1>9. ASSUME NEW q \in AtomicOrdering, SetOrdering(q) PROVE InstructionInv'
  <2>1. /\ packed' = SetField(packed, Ordering, q) /\ ssid' = ssid
        /\ asked' = [ops |-> operands, volatile |-> v, align |-> a, ordering |-> q,
                     ssid |-> ssid]
    BY <1>3, <1>9 DEF SetOrdering, SetAccess
  <2>2. packed' \in SUBSET SubclassData
    BY <1>4, <2>1, SetFieldType
  <2>3. AlignsFit => Holds(packed', v, a, q)
    BY <1>3, <1>4, <2>1, AccessSet
  <2>. QED
    BY <1>5, <1>6, <2>1, <2>2, <2>3
<1>10. ASSUME NEW t \in ScopeId, SetSyncScopeID(t) PROVE InstructionInv'
  <2>1. /\ packed' = packed /\ ssid' = t
        /\ asked' = [ops |-> operands, volatile |-> v, align |-> a, ordering |-> o,
                     ssid |-> t]
    BY <1>3, <1>10 DEF SetSyncScopeID, SetAccess
  <2>. QED
    BY <1>3, <1>4, <1>5, <2>1
<1>11. ASSUME NEW q \in AtomicOrdering, NEW t \in ScopeId, SetAtomic(q, t)
       PROVE  InstructionInv'
  <2>1. /\ packed' = SetField(packed, Ordering, q) /\ ssid' = t
        /\ asked' = [ops |-> operands, volatile |-> v, align |-> a, ordering |-> q,
                     ssid |-> t]
    BY <1>3, <1>11 DEF SetAtomic, SetAccess
  <2>2. packed' \in SUBSET SubclassData
    BY <1>4, <2>1, SetFieldType
  <2>3. AlignsFit => Holds(packed', v, a, q)
    BY <1>3, <1>4, <2>1, AccessSet
  <2>. QED
    BY <1>5, <2>1, <2>2, <2>3
<1>. QED
  BY <1>2, <1>7, <1>8, <1>9, <1>10, <1>11

LEMMA InstructionStep ==
  ASSUME InstructionInv, Next
  PROVE  InstructionInv' /\ kind' # "none" /\ kind \in {"none", kind'}
BY MakePreserves, SetPreserves, AccessCreated, AccessPreserves DEF Next
-----------------------------------------------------------------------------
(* No string is empty or all NUL: such a constant is of another class than *)
(* the type of its reference says (ConstantRefs.lean:179).                 *)
TextsHaveBytes == \A s \in Texts : \E i \in DOMAIN Utf8(s) : Utf8(s)[i] # Nul

ClassKept ==
  /\ class \in {"none"} \cup DOMAIN ClassID
  /\ class # "none" => kind = "none"

(* A reference is of a type of its value, but for those strings. *)
RefKept ==
  /\ ~Exists => ref = "ValueRef" /\ packed = {} /\ gc = NoGC
  /\ Exists => \/ ref \in TypesOfValue
               \/ class = "ConstantAggregateZero" /\ ref = "ConstantDataArrayRef"
  /\ TextsHaveBytes => class # "ConstantAggregateZero"

(* The attributes of a function are those that were asked for. *)
FunctionKept ==
  class = "Function" =>
    \E cc \in Conventions \cup {0}, g \in GCNames \cup {NoGC} :
      /\ asked = [cc |-> cc, gc |-> g]
      /\ ConventionsFit => /\ GetCallingConv = cc
                           /\ (HasGC <=> g # NoGC)
                           /\ HasGC => gc = g

RefInv == InstructionInv /\ ClassKept /\ RefKept /\ FunctionKept

-----------------------------------------------------------------------------
(* What the numbers of LLVM are decoded to. *)
LEMMA ClassesDecoded ==
  /\ OfValueID(ClassID["Function"]) = "function"
  /\ OfValueID(ClassID["GlobalVariable"]) = "globalVariable"
  /\ OfValueID(ClassID["ConstantExpr"]) = "constantExpr"
  /\ OfValueID(ClassID["ConstantAggregateZero"]) = "constantAggregateZero"
  /\ OfValueID(ClassID["ConstantDataArray"]) = "constantDataArray"
  /\ OfValueID(ClassID["ConstantInt"]) = "constantInt"
  /\ OfValueID(ClassID["Argument"]) = "argument"
  /\ OfValueID(ClassID["BasicBlock"]) = "basicBlock"
BY DEF OfValueID, ClassID, ValueKind

LEMMA OpcodesDecoded ==
  /\ OfOpcode(Opcode["ret"]) = "ret"
  /\ OfOpcode(Opcode["br"]) = "branch" /\ OfOpcode(Opcode["condBr"]) = "branch"
  /\ OfOpcode(Opcode["load"]) = "load" /\ OfOpcode(Opcode["store"]) = "store"
  /\ OfOpcode(Opcode["getelementptr"]) = "getElementPtr"
  /\ OfOpcode(Opcode["call"]) = "call"
BY DEF OfOpcode, Opcode, InstructionKind

LEMMA InstructionsDecoded ==
  ASSUME NEW k \in {"ret", "br", "condBr", "load", "store", "getelementptr", "call"}
  PROVE  /\ OfValueID(26 + Opcode[k]) = "instruction"
         /\ OpcodeOf(26 + Opcode[k]) = Opcode[k]
<1>1. PICK n \in 1 .. 66 : n = Opcode[k]
  BY DEF Opcode
<1>2. (26 + n) - 26 = n /\ (26 + n) % 256 = 26 + n
  OBVIOUS
<1>3. OfValueID(26 + n) = "instruction"
  BY <1>2 DEF OfValueID, ValueKind
<1>. QED
  BY <1>1, <1>2, <1>3 DEF OpcodeOf
(* Exactly the types that are right for a value can be decided of it. *)
LEMMA DecidedIsRight ==
  ASSUME InstructionInv, ClassKept, Exists, NEW t
  PROVE  Decided(t) <=> t \in TypesOfValue
<1>1. CASE class # "none"
  <2>1. class \in DOMAIN ClassID /\ ValueID = ClassID[class]
    BY <1>1 DEF ClassKept, ValueID
  <2>2. OfValueID(ValueID) # "instruction"
    BY <2>1, ClassesDecoded DEF ClassID
  <2>3. Decided(t) <=> \/ t = "ValueRef"
                       \/ t \in DOMAIN KindOfRef /\ OfValueID(ValueID) = KindOfRef[t]
    BY <2>2 DEF Decided, KindsAgree, KindOfRef
  <2>4. t \in TypesOfValue <=> \/ t = "ValueRef"
                               \/ class \in DOMAIN RefOfClass /\ t = RefOfClass[class]
    BY <1>1 DEF TypesOfValue
  <2>5. ASSUME NEW k, NEW r, k = OfValueID(ValueID), class \in DOMAIN RefOfClass,
               r = RefOfClass[class], r \in DOMAIN KindOfRef, k = KindOfRef[r],
               \A q \in DOMAIN KindOfRef : KindOfRef[q] = k => q = r
        PROVE  Decided(t) <=> t \in TypesOfValue
    BY <2>3, <2>4, <2>5
  <2>6. CASE class = "Function"
    BY <2>1, <2>5, <2>6, ClassesDecoded DEF KindOfRef, RefOfClass
  <2>7. CASE class = "GlobalVariable"
    BY <2>1, <2>5, <2>7, ClassesDecoded DEF KindOfRef, RefOfClass
  <2>8. CASE class = "ConstantExpr"
    BY <2>1, <2>5, <2>8, ClassesDecoded DEF KindOfRef, RefOfClass
  <2>9. CASE class = "ConstantAggregateZero"
    BY <2>1, <2>3, <2>4, <2>9, ClassesDecoded DEF KindOfRef, RefOfClass
  <2>10. CASE class = "ConstantDataArray"
    BY <2>1, <2>5, <2>10, ClassesDecoded DEF KindOfRef, RefOfClass
  <2>11. CASE class = "ConstantInt"
    BY <2>1, <2>5, <2>11, ClassesDecoded DEF KindOfRef, RefOfClass
  <2>12. CASE class = "Argument"
    BY <2>1, <2>5, <2>12, ClassesDecoded DEF KindOfRef, RefOfClass
  <2>13. CASE class = "BasicBlock"
    BY <2>1, <2>5, <2>13, ClassesDecoded DEF KindOfRef, RefOfClass
  <2>. QED
    BY <2>1, <2>6, <2>7, <2>8, <2>9, <2>10, <2>11, <2>12, <2>13 DEF ClassID
<1>2. CASE class = "none"
  <2>1. kind \in {"ret", "br", "condBr", "load", "store", "getelementptr", "call"}
    BY <1>2 DEF InstructionInv, TypeOK, Exists
  <2>2. /\ OfValueID(ValueID) = "instruction"
        /\ OpcodeOf(ValueID) = Opcode[kind]
    BY <1>2, <2>1, InstructionsDecoded DEF ValueID
  <2>3. KindsAgree(t) <=> \/ t \in {"ValueRef", "InstructionRef"}
                          \/ /\ t \in DOMAIN InstructionOfRef
                             /\ OfOpcode(Opcode[kind]) = InstructionOfRef[t]
    BY <2>2 DEF KindsAgree, KindOfRef
  <2>4. t \in TypesOfValue <=> \/ t \in {"ValueRef", "InstructionRef"}
                               \/ t = RefOfKind[kind]
                               \/ kind \in {"br", "condBr"} /\ t = "BranchInstRef"
    BY <1>2 DEF TypesOfValue
  <2>5. CASE kind = "condBr"
    <3>1. IsConditional
      BY <2>5 DEF InstructionInv, BranchKept, IsConditional
    <3>. QED
      BY <2>3, <2>4, <2>5, <3>1, OpcodesDecoded DEF Decided, InstructionOfRef, RefOfKind
  <2>6. CASE kind = "br"
    <3>1. ~ IsConditional
      BY <2>6 DEF InstructionInv, BranchKept, IsConditional
    <3>. QED
      BY <2>3, <2>4, <2>6, <3>1, OpcodesDecoded DEF Decided, InstructionOfRef, RefOfKind
  <2>7. CASE kind \notin {"br", "condBr"}
    <3>1. /\ t = "CondBrInstRef" => ~ KindsAgree(t)
          /\ t = "BrInstRef" => ~ KindsAgree(t)
      BY <2>1, <2>3, <2>7, OpcodesDecoded DEF InstructionOfRef
    <3>2. KindsAgree(t) <=> t \in TypesOfValue
      BY <2>1, <2>3, <2>4, <2>7, OpcodesDecoded DEF InstructionOfRef, RefOfKind
    <3>. QED
      BY <3>1, <3>2 DEF Decided
  <2>. QED
    BY <2>5, <2>6, <2>7
<1>. QED
  BY <1>1, <1>2
LEMMA RefsInit ==
  ASSUME RefInit
  PROVE  RefInv
<1>1. InstructionInv
  BY InstructionInit DEF RefInit
<1>2. ~ Exists
  BY DEF RefInit, Init, Exists
<1>. QED
  BY <1>1, <1>2 DEF RefInit, Init, RefInv, ClassKept, RefKept, FunctionKept

(* A constructor or a setter of an instruction. *)
LEMMA StepKept ==
  ASSUME RefInv, StepOfInstruction
  PROVE  RefInv'
<1>1. InstructionInv' /\ kind' # "none"
  BY InstructionStep DEF RefInv, StepOfInstruction
<1>2. class' = "none" /\ ref' = RefOfKind[kind']
  BY DEF StepOfInstruction
<1>3. ref' \in TypesOfValue'
  BY <1>2 DEF TypesOfValue
<1>4. Exists'
  BY <1>1 DEF Exists
<1>. QED
  BY <1>1, <1>2, <1>3, <1>4 DEF RefInv, ClassKept, RefKept, FunctionKept

(* A step that changes no variable of the instruction but what is asked of *)
(* something else.                                                         *)
LEMMA InstructionAlone ==
  ASSUME InstructionInv, kind = "none", packed' \in SUBSET SubclassData,
         UNCHANGED <<kind, operands, ssid, inbounds>>
  PROVE  InstructionInv'
<1>1. TypeOK'
  BY DEF InstructionInv, TypeOK
<1>. QED
  BY <1>1 DEF InstructionInv, BranchKept, OperandsKept, AccessKept

LEMMA InstructionSame ==
  ASSUME InstructionInv, UNCHANGED vars
  PROVE  InstructionInv'
<1>1. TypeOK'
  BY DEF InstructionInv, TypeOK, vars
<1>2. BranchKept' /\ OperandsKept' /\ AccessKept'
  BY DEF InstructionInv, vars, BranchKept, OperandsKept, AccessKept
<1>. QED
  BY <1>1, <1>2 DEF InstructionInv

LEMMA NewValueKept ==
  ASSUME RefInv, NEW c \in DOMAIN RefOfClass \ {"ConstantDataArray"}, NewValue(c)
  PROVE  RefInv'
<1>1. /\ kind = "none" /\ class = "none" /\ packed = {} /\ gc = NoGC
  BY DEF RefInv, RefKept, NewValue, Exists
<1>2. /\ class' = c /\ ref' = RefOfClass[c] /\ asked' = [cc |-> 0, gc |-> NoGC]
      /\ UNCHANGED <<kind, operands, packed, ssid, inbounds, gc>>
  BY DEF NewValue
<1>3. InstructionInv'
  BY <1>1, <1>2, InstructionAlone DEF RefInv, InstructionInv, TypeOK
<1>4. c \in DOMAIN ClassID /\ c # "none" /\ c # "ConstantAggregateZero"
  BY DEF RefOfClass, ClassID
<1>5. ClassKept'
  BY <1>1, <1>2, <1>4 DEF ClassKept
<1>6. RefKept'
  <2>1. ref' \in TypesOfValue'
    BY <1>2, <1>4 DEF TypesOfValue
  <2>. QED
    BY <1>2, <1>4, <2>1 DEF RefKept, Exists
<1>7. FunctionKept'
  <2>1. GetCallingConv' = 0
    BY <1>1, <1>2, NothingSet, FieldsApart DEF GetCallingConv
  <2>2. HasGC' = FALSE
    BY <1>1, <1>2 DEF HasGC
  <2>. QED
    BY <1>1, <1>2, <2>1, <2>2 DEF FunctionKept
<1>. QED
  BY <1>3, <1>5, <1>6, <1>7 DEF RefInv

-----------------------------------------------------------------------------
(* Strings and their bytes, by induction over the characters. *)
LEMMA LeastNumber ==
  ASSUME NEW T \in SUBSET Nat, T # {}
  PROVE  \E x \in T : \A y \in T : x <= y
<1>1. PICK x \in T : \A y \in T : ~ (<<y, x>> \in OpToRel(<, Nat))
  BY NatLessThanWellFounded, WFMin
<1>2. \A y \in T : y \in Nat /\ x \in Nat /\ ~(y < x)
  BY <1>1 DEF OpToRel
<1>. QED
  BY <1>2

LEMMA BytesOfChar ==
  ASSUME NEW c \in Char
  PROVE  /\ BytesOf(c) \in Seq(Char \X Nat) /\ Len(BytesOf(c)) >= 1
         /\ \A j \in 1 .. Len(BytesOf(c)) : BytesOf(c)[j] = <<c, j>>
<1>1. Bytes[c] \in Nat \ {0}
  BY BytesAssumption DEF Char
<1>. QED
  BY <1>1 DEF BytesOf

(* g has the bytes of the first characters of s, for up to n of them. *)
BytesUpTo(s, n, g) ==
  /\ g[0] = << >>
  /\ \A i \in 1 .. n : g[i] = g[i - 1] \o BytesOf(s[i])

LEMMA BytesStep ==
  ASSUME NEW s, NEW n \in Nat, NEW g, BytesUpTo(s, n, g), NEW i \in 1 .. n
  PROVE  g[i] = g[i - 1] \o BytesOf(s[i])
BY DEF BytesUpTo

LEMMA BytesOfFewer ==
  ASSUME NEW s, NEW n \in Nat, NEW g, BytesUpTo(s, n + 1, g)
  PROVE  BytesUpTo(s, n, g)
<1>1. \A i \in 1 .. n : i \in 1 .. n + 1
  OBVIOUS
<1>. QED
  BY <1>1 DEF BytesUpTo

LEMMA BytesExist ==
  ASSUME NEW s, NEW n \in Nat
  PROVE  \E g : BytesUpTo(s, n, g)
<1>. DEFINE T == {k \in Nat : ~ \E g : BytesUpTo(s, k, g)}
<1>1. SUFFICES ASSUME T # {} PROVE FALSE
  OBVIOUS
<1>2. PICK k \in T : \A y \in T : k <= y
  <2>. HIDE DEF T
  <2>1. T \in SUBSET Nat
    BY DEF T
  <2>. QED
    BY <1>1, <2>1, LeastNumber
<1>3. CASE k = 0
  <2>1. BytesUpTo(s, 0, [i \in 0 .. 0 |-> << >>])
    BY DEF BytesUpTo
  <2>. QED
    BY <1>3, <2>1
<1>4. CASE k > 0
  <2>1. k \in Nat /\ k - 1 \in Nat /\ k - 1 \notin T
    BY <1>2, <1>4
  <2>2. PICK g : BytesUpTo(s, k - 1, g)
    BY <2>1
  <2>. DEFINE b == g[k - 1] \o BytesOf(s[k])
              h == [i \in 0 .. k |-> IF i = k THEN b ELSE g[i]]
  <2>3. BytesUpTo(s, k, h)
    <3>. HIDE DEF b
    <3>1. h[0] = << >>
      BY <2>1, <2>2, <1>4 DEF BytesUpTo
    <3>2. ASSUME NEW i \in 1 .. k PROVE h[i] = h[i - 1] \o BytesOf(s[i])
      <4>1. CASE i = k
        BY <2>1, <3>2, <4>1 DEF b
      <4>2. CASE i # k
        BY <2>1, <2>2, <3>2, <4>2 DEF BytesUpTo
      <4>. QED
        BY <4>1, <4>2
    <3>. QED
      BY <3>1, <3>2 DEF BytesUpTo
  <2>. QED
    BY <2>1, <2>3
<1>. QED
  BY <1>3, <1>4

LEMMA BytesAgree ==
  ASSUME NEW s, NEW t, NEW n \in Nat, NEW g, NEW h,
         BytesUpTo(s, n, g), BytesUpTo(t, n, h),
         \A i \in 1 .. n : s[i] = t[i],
         NEW j \in 0 .. n
  PROVE  g[j] = h[j]
<1>. DEFINE T == {k \in Nat : k <= n /\ g[k] # h[k]}
<1>1. SUFFICES ASSUME T # {} PROVE FALSE
  OBVIOUS
<1>2. PICK k \in T : \A y \in T : k <= y
  <2>. HIDE DEF T
  <2>1. T \in SUBSET Nat
    BY DEF T
  <2>. QED
    BY <1>1, <2>1, LeastNumber
<1>3. CASE k = 0
  BY <1>3, <1>2 DEF BytesUpTo
<1>4. CASE k > 0
  <2>1. k \in Nat /\ k - 1 \in Nat /\ k - 1 \notin T /\ k \in 1 .. n
    BY <1>2, <1>4
  <2>2. g[k - 1] = h[k - 1] /\ s[k] = t[k]
    BY <2>1, <1>4
  <2>3. g[k] = g[k - 1] \o BytesOf(s[k]) /\ h[k] = h[k - 1] \o BytesOf(t[k])
    BY <2>1, <1>4 DEF BytesUpTo
  <2>. QED
    BY <2>2, <2>3, <1>2
<1>. QED
  BY <1>3, <1>4

LEMMA BytesOfString ==
  ASSUME NEW s \in Seq(Char)
  PROVE  \E g : BytesUpTo(s, Len(s), g) /\ Utf8(s) = g[Len(s)]
<1>. DEFINE F(p) == [n \in 0 .. Len(s) |->
                      IF n = 0 THEN << >> ELSE p[n - 1] \o BytesOf(s[n])]
            f == CHOOSE p : p = F(p)
<1>1. PICK g : BytesUpTo(s, Len(s), g)
  BY BytesExist
<1>2. PICK h : h = [i \in 0 .. Len(s) |-> g[i]]
  OBVIOUS
<1>3. h = F(h)
  <2>1. \A n \in 0 .. Len(s) : h[n] = F(h)[n]
    BY <1>1, <1>2 DEF BytesUpTo
  <2>. QED
    BY <1>2, <2>1
<1>4. f = F(f)
  <2>. HIDE DEF F
  <2>. QED
    BY <1>3
<1>5. BytesUpTo(s, Len(s), f)
  <2>. HIDE DEF f
  <2>. QED
    BY <1>4 DEF BytesUpTo
<1>6. Utf8(s) = f[Len(s)]
  BY DEF Utf8
<1>. QED
  BY <1>5, <1>6

(* Each character adds one first byte. *)
LEMMA CharAdded ==
  ASSUME NEW u \in Seq(Char \X Nat), NEW c \in Char,
         IsFiniteSet(Firsts(u))
  PROVE  /\ u \o BytesOf(c) \in Seq(Char \X Nat)
         /\ IsFiniteSet(Firsts(u \o BytesOf(c)))
         /\ Cardinality(Firsts(u \o BytesOf(c))) = Cardinality(Firsts(u)) + 1
<1>1. PICK b \in Seq(Char \X Nat) : b = BytesOf(c) /\ Len(b) >= 1
  BY BytesOfChar
<1>2. ASSUME NEW j \in 1 .. Len(b) PROVE b[j][2] = j
  <2>1. b[j] = <<c, j>>
    BY <1>1, BytesOfChar
  <2>. QED
    BY <2>1
<1>. DEFINE v == u \o b
<1>3. /\ v \in Seq(Char \X Nat) /\ Len(v) = Len(u) + Len(b)
      /\ \A i \in 1 .. Len(u) : v[i] = u[i]
      /\ \A j \in 1 .. Len(b) : v[Len(u) + j] = b[j]
  OBVIOUS
<1>. HIDE DEF v
<1>4. Firsts(v) = Firsts(u) \cup {Len(u) + 1}
  <2>1. ASSUME NEW i \in Firsts(v) PROVE i \in Firsts(u) \cup {Len(u) + 1}
    <3>1. i \in 1 .. Len(v) /\ v[i][2] = 1
      BY <1>3, <2>1 DEF Firsts
    <3>2. CASE i <= Len(u)
      BY <1>3, <3>1, <3>2 DEF Firsts
    <3>3. CASE i > Len(u)
      <4>1. i - Len(u) \in 1 .. Len(b) /\ i = Len(u) + (i - Len(u))
        BY <1>1, <1>3, <3>1, <3>3
      <4>2. v[i] = b[i - Len(u)]
        BY <1>3, <4>1
      <4>3. i - Len(u) = 1
        BY <1>2, <3>1, <4>1, <4>2
      <4>. QED
        BY <4>1, <4>3
    <3>. QED
      BY <3>1, <3>2, <3>3
  <2>2. ASSUME NEW i \in Firsts(u) PROVE i \in Firsts(v)
    <3>1. i \in 1 .. Len(u) /\ u[i][2] = 1
      BY <2>2 DEF Firsts
    <3>2. i \in 1 .. Len(v) /\ v[i] = u[i]
      BY <1>3, <3>1
    <3>. QED
      BY <1>3, <3>1, <3>2 DEF Firsts
  <2>3. Len(u) + 1 \in Firsts(v)
    <3>1. 1 \in 1 .. Len(b) /\ Len(u) + 1 \in 1 .. Len(v)
      BY <1>1, <1>3
    <3>2. v[Len(u) + 1][2] = 1
      BY <1>2, <1>3, <3>1
    <3>. QED
      BY <1>3, <3>1, <3>2 DEF Firsts
  <2>. QED
    BY <2>1, <2>2, <2>3
<1>5. Len(u) + 1 \notin Firsts(u)
  BY DEF Firsts
<1>6. /\ IsFiniteSet(Firsts(v))
      /\ Cardinality(Firsts(v)) = Cardinality(Firsts(u)) + 1
  BY <1>4, <1>5, FS_AddElement
<1>. QED
  BY <1>1, <1>3, <1>6 DEF v

LEMMA StringsHaveBytes ==
  ASSUME NEW s \in Seq(Char)
  PROVE  /\ Utf8(s) \in Seq(Char \X Nat)
         /\ Cardinality(Firsts(Utf8(s))) = Len(s)
<1>1. PICK g : BytesUpTo(s, Len(s), g) /\ Utf8(s) = g[Len(s)]
  BY BytesOfString
<1>. DEFINE Counted(k) == /\ g[k] \in Seq(Char \X Nat)
                          /\ IsFiniteSet(Firsts(g[k]))
                          /\ Cardinality(Firsts(g[k])) = k
            T == {k \in Nat : k <= Len(s) /\ ~ Counted(k)}
<1>2. SUFFICES ASSUME T # {} PROVE FALSE
  BY <1>1
<1>3. PICK k \in T : \A y \in T : k <= y
  <2>. HIDE DEF T
  <2>1. T \in SUBSET Nat
    BY DEF T
  <2>. QED
    BY <1>2, <2>1, LeastNumber
<1>4. CASE k = 0
  <2>1. g[0] = << >>
    BY <1>1 DEF BytesUpTo
  <2>2. Firsts(<< >>) = {} /\ << >> \in Seq(Char \X Nat)
    BY DEF Firsts
  <2>3. Counted(0)
    BY <2>1, <2>2, FS_EmptySet
  <2>. QED
    BY <1>3, <1>4, <2>3
<1>5. CASE k > 0
  <2>1. k \in Nat /\ k - 1 \in Nat /\ k - 1 \notin T /\ k \in 1 .. Len(s)
    BY <1>3, <1>5
  <2>2. Counted(k - 1)
    BY <2>1
  <2>3. s[k] \in Char
    BY <2>1
  <2>6. g[k] = g[k - 1] \o BytesOf(s[k])
    <3>1. PICK n \in Nat : n = Len(s)
      OBVIOUS
    <3>. QED
      BY <1>1, <2>1, <3>1, BytesStep
  <2>4. PICK u : u = g[k - 1]
    OBVIOUS
  <2>5. Counted(k)
    BY <2>1, <2>2, <2>3, <2>4, <2>6, CharAdded
  <2>. QED
    BY <1>3, <2>5
<1>. QED
  BY <1>4, <1>5

LEMMA StringExtended ==
  ASSUME NEW s \in Seq(Char), NEW c \in Char
  PROVE  Utf8(Append(s, c)) = Utf8(s) \o BytesOf(c)
<1>1. PICK n \in Nat : n = Len(s)
  OBVIOUS
<1>2. PICK t : t \in Seq(Char) /\ t = Append(s, c)
  <2>1. Append(s, c) \in Seq(Char)
    OBVIOUS
  <2>. QED
    BY <2>1
<1>3. Len(t) = n + 1 /\ t[n + 1] = c
  BY <1>1, <1>2
<1>4. \A i \in 1 .. n : s[i] = t[i]
  BY <1>1, <1>2
<1>5. PICK g : BytesUpTo(s, n, g) /\ Utf8(s) = g[n]
  BY <1>1, BytesOfString
<1>6. PICK h : BytesUpTo(t, n + 1, h) /\ Utf8(t) = h[n + 1]
  BY <1>2, <1>3, BytesOfString
<1>7. n \in 0 .. n /\ n + 1 \in 0 .. n + 1 /\ n + 1 # 0 /\ (n + 1) - 1 = n
  OBVIOUS
<1>8. BytesUpTo(t, n, h)
  BY <1>6, BytesOfFewer
<1>9. g[n] = h[n]
  BY <1>1, <1>3, <1>4, <1>5, <1>7, <1>8, BytesAgree
<1>10. h[n + 1] = h[(n + 1) - 1] \o BytesOf(t[n + 1])
  <2>1. PICK m \in Nat : m = n + 1
    OBVIOUS
  <2>2. m \in 1 .. m /\ BytesUpTo(t, m, h)
    BY <1>6, <2>1
  <2>3. h[m] = h[m - 1] \o BytesOf(t[m])
    BY <2>2, BytesStep
  <2>. QED
    BY <2>1, <2>3
<1>. QED
  BY <1>2, <1>3, <1>5, <1>6, <1>7, <1>9, <1>10

LEMMA OfStringKept ==
  ASSUME RefInv, NEW s \in Texts, NEW withNull \in BOOLEAN, OfString(s, withNull)
  PROVE  RefInv'
<1>1. kind = "none" /\ class = "none"
  BY DEF RefInv, OfString, Exists
<1>2. PICK u \in Seq(Char \X Nat) : u = Utf8(s)
  BY TextsAssumption, StringsHaveBytes
<1>3. PICK array : array = IF withNull THEN RefOfStringWithNull(LeanString(s))
                                       ELSE RefOfString(LeanString(s))
  OBVIOUS
<1>4. array = IF withNull THEN u \o <<Nul>>
                          ELSE SubSeq(u \o <<Nul>>, 1, Len(u \o <<Nul>>) - 1)
  BY <1>2, <1>3 DEF RefOfStringWithNull, RefOfString, LeanString
<1>5. /\ class' = IF \A i \in DOMAIN array : array[i] = Nul
                  THEN "ConstantAggregateZero" ELSE "ConstantDataArray"
      /\ ref' = "ConstantDataArrayRef"
      /\ UNCHANGED <<kind, operands, packed, ssid, inbounds, gc>>
  BY <1>3 DEF OfString
<1>6. InstructionInv'
  BY <1>1, <1>5, InstructionAlone DEF RefInv, InstructionInv, TypeOK
<1>7. ClassKept'
  BY <1>1, <1>5 DEF ClassKept, ClassID
<1>8. FunctionKept'
  BY <1>5 DEF FunctionKept
<1>9. TextsHaveBytes => class' = "ConstantDataArray"
  <2>1. SUFFICES ASSUME TextsHaveBytes PROVE class' = "ConstantDataArray"
    OBVIOUS
  <2>2. PICK i \in 1 .. Len(u) : u[i] # Nul
    BY <1>2, <2>1 DEF TextsHaveBytes
  <2>3. Nul \in Char \X Nat
    BY BytesAssumption DEF Nul, Char
  <2>4. /\ u \o <<Nul>> \in Seq(Char \X Nat)
        /\ Len(u \o <<Nul>>) = Len(u) + 1
        /\ (u \o <<Nul>>)[i] = u[i]
    BY <2>2, <2>3
  <2>5. i \in DOMAIN array /\ array[i] = u[i]
    <3>1. CASE withNull
      BY <1>4, <2>2, <2>4, <3>1
    <3>2. CASE ~ withNull
      BY <1>4, <2>2, <2>4, <3>2
    <3>. QED
      BY <3>1, <3>2
  <2>. QED
    BY <1>5, <2>2, <2>5
<1>10. RefKept'
  <2>1. /\ "ConstantDataArray" \in DOMAIN RefOfClass
        /\ RefOfClass["ConstantDataArray"] = "ConstantDataArrayRef"
    BY DEF RefOfClass
  <2>2. ASSUME class' = "ConstantDataArray" PROVE ref' \in TypesOfValue'
    BY <1>5, <2>1, <2>2 DEF TypesOfValue
  <2>. QED
    BY <1>5, <1>9, <2>2 DEF RefKept, Exists
<1>. QED
  BY <1>6, <1>7, <1>8, <1>10 DEF RefInv
(* A reference whose type is forgotten, or decided again. *)
LEMMA TypeChangedKept ==
  ASSUME RefInv, Exists, ref' \in TypesOfValue,
         UNCHANGED <<vars, class, gc, bytes, text>>
  PROVE  RefInv'
<1>1. InstructionInv'
  BY InstructionSame DEF RefInv
<1>2. TypesOfValue' = TypesOfValue /\ (Exists' <=> Exists)
  BY DEF TypesOfValue, Exists, vars
<1>3. ClassKept' /\ FunctionKept'
  BY DEF RefInv, ClassKept, FunctionKept, GetCallingConv, HasGC, vars
<1>4. RefKept'
  BY <1>2 DEF RefInv, RefKept
<1>. QED
  BY <1>1, <1>3, <1>4 DEF RefInv

(* A setter of a function is called on a reference to a function. *)
LEMMA FunctionChanged ==
  ASSUME RefInv, NEW p, NEW g, NEW wish, SetFunction(p, g, wish)
  PROVE  /\ class = "Function" /\ kind = "none"
         /\ class' = class /\ Exists'
         /\ p \in SUBSET SubclassData /\ FunctionKept' => RefInv'
<1>1. /\ ref = "FunctionRef" /\ packed' = p
      /\ UNCHANGED <<kind, operands, ssid, inbounds, class, ref>>
  BY DEF SetFunction
<1>2. Exists /\ ref \in TypesOfValue
  BY <1>1 DEF RefInv, RefKept
<1>3. class = "Function" /\ kind = "none"
  <2>1. CASE class = "none"
    <3>1. kind \in {"ret", "br", "condBr", "load", "store", "getelementptr", "call"}
      BY <1>2, <2>1 DEF RefInv, InstructionInv, TypeOK, Exists
    <3>2. "FunctionRef" # RefOfKind[kind]
      BY <3>1 DEF RefOfKind
    <3>. QED
      BY <1>1, <1>2, <2>1, <3>2 DEF TypesOfValue
  <2>2. CASE class # "none"
    <3>1. class \in DOMAIN RefOfClass /\ RefOfClass[class] = "FunctionRef"
      BY <1>1, <1>2, <2>2 DEF TypesOfValue
    <3>2. class = "Function"
      BY <3>1 DEF RefOfClass
    <3>. QED
      BY <2>2, <3>2 DEF RefInv, ClassKept
  <2>. QED
    BY <2>1, <2>2
<1>4. Exists' /\ TypesOfValue' = TypesOfValue
  BY <1>1, <1>2 DEF Exists, TypesOfValue
<1>5. ASSUME p \in SUBSET SubclassData, FunctionKept'
      PROVE  RefInv'
  <2>1. InstructionInv'
    BY <1>1, <1>3, <1>5, InstructionAlone DEF RefInv
  <2>2. ClassKept' /\ RefKept'
    BY <1>1, <1>2, <1>4 DEF RefInv, ClassKept, RefKept
  <2>. QED
    BY <1>5, <2>1, <2>2 DEF RefInv
<1>. QED
  BY <1>1, <1>3, <1>4, <1>5

LEMMA ConventionKept ==
  ASSUME RefInv, NEW cc \in Conventions, SetCallingConvention(cc)
  PROVE  RefInv'
<1>1. PICK q : q = SetField(packed, CallingConv, cc)
  OBVIOUS
<1>2. SetFunction(q, gc, [asked EXCEPT !.cc = cc])
  BY <1>1 DEF SetCallingConvention
<1>3. /\ class = "Function" /\ class' = class
      /\ q \in SUBSET SubclassData /\ FunctionKept' => RefInv'
  BY <1>2, FunctionChanged
<1>4. packed \in SUBSET SubclassData
  BY DEF RefInv, InstructionInv, TypeOK
<1>5. q \in SUBSET SubclassData
  BY <1>1, <1>4, SetFieldType
<1>6. PICK c \in Conventions \cup {0}, g \in GCNames \cup {NoGC} :
        /\ asked = [cc |-> c, gc |-> g]
        /\ ConventionsFit => /\ GetCallingConv = c
                             /\ (HasGC <=> g # NoGC)
                             /\ HasGC => gc = g
  BY <1>3 DEF RefInv, FunctionKept
<1>7. asked' = [cc |-> cc, gc |-> g] /\ gc' = gc /\ packed' = q
  BY <1>2, <1>6 DEF SetFunction
<1>8. ASSUME ConventionsFit
      PROVE  GetCallingConv' = cc /\ (HasGC' <=> HasGC)
  <2>1. Size(CallingConv) = 1024
    BY Powers DEF Size, CallingConv
  <2>2. cc \in 0 .. Size(CallingConv) - 1
    BY <1>8, <2>1 DEF ConventionsFit
  <2>3. /\ Field(q, CallingConv) = cc
        /\ q \subseteq packed \cup Positions(CallingConv)
        /\ packed \subseteq q \cup Positions(CallingConv)
    <3>1. CallingConv \in PackedField
      BY FieldsApart
    <3>. QED
      BY <1>1, <1>4, <2>2, <3>1, FieldSet
  <2>4. 14 \notin Positions(CallingConv)
    BY DEF Positions, CallingConv
  <2>. QED
    BY <1>7, <2>3, <2>4 DEF GetCallingConv, HasGC
<1>9. FunctionKept'
  BY <1>6, <1>7, <1>8 DEF FunctionKept
<1>. QED
  BY <1>3, <1>5, <1>9

(* The note that a function has a collector is not in the convention. *)
LEMMA NoteSet ==
  ASSUME packed \in SUBSET SubclassData, NEW on \in BOOLEAN
  PROVE  /\ SetHasGC(on) \in SUBSET SubclassData
         /\ 14 \in SetHasGC(on) <=> on
         /\ Field(SetHasGC(on), CallingConv) = Field(packed, CallingConv)
<1>1. SetHasGC(on) \in SUBSET SubclassData
  BY DEF SetHasGC, SubclassData
<1>2. 14 \in SetHasGC(on) <=> on
  BY DEF SetHasGC
<1>3. 14 \notin Positions(CallingConv)
  BY DEF Positions, CallingConv
<1>4. SetHasGC(on) \cap Positions(CallingConv) = packed \cap Positions(CallingConv)
  BY <1>3 DEF SetHasGC
<1>. QED
  BY <1>1, <1>2, <1>4 DEF Field

(* setGC and clearGC *)
LEMMA CollectorKept ==
  ASSUME RefInv, NEW g \in GCNames \cup {NoGC}, NEW h,
         SetFunction(SetHasGC(g # NoGC), h, [asked EXCEPT !.gc = g]),
         g # NoGC => h = g
  PROVE  RefInv'
<1>1. PICK on \in BOOLEAN : on = (g # NoGC)
  OBVIOUS
<1>2. PICK q : q = SetHasGC(on)
  OBVIOUS
<1>3. SetFunction(q, h, [asked EXCEPT !.gc = g])
  BY <1>1, <1>2
<1>4. /\ class = "Function" /\ class' = class
      /\ q \in SUBSET SubclassData /\ FunctionKept' => RefInv'
  BY <1>3, FunctionChanged
<1>5. packed \in SUBSET SubclassData
  BY DEF RefInv, InstructionInv, TypeOK
<1>6. /\ q \in SUBSET SubclassData
      /\ 14 \in q <=> on
      /\ Field(q, CallingConv) = Field(packed, CallingConv)
  BY <1>2, <1>5, NoteSet
<1>7. PICK c \in Conventions \cup {0}, f \in GCNames \cup {NoGC} :
        /\ asked = [cc |-> c, gc |-> f]
        /\ ConventionsFit => GetCallingConv = c
  BY <1>4 DEF RefInv, FunctionKept
<1>8. asked' = [cc |-> c, gc |-> g] /\ gc' = h /\ packed' = q
  BY <1>3, <1>7 DEF SetFunction
<1>9. /\ ConventionsFit => GetCallingConv' = c
      /\ (HasGC' <=> g # NoGC)
      /\ HasGC' => gc' = g
  <2>1. ConventionsFit => GetCallingConv' = c
    BY <1>6, <1>7, <1>8 DEF GetCallingConv
  <2>2. HasGC' <=> g # NoGC
    BY <1>1, <1>6, <1>8 DEF HasGC
  <2>. QED
    BY <1>8, <2>1, <2>2
<1>10. FunctionKept'
  BY <1>7, <1>8, <1>9 DEF FunctionKept
<1>. QED
  BY <1>4, <1>6, <1>10
-----------------------------------------------------------------------------
LEMMA RefsNext ==
  ASSUME RefInv, [RefNext]_<<vars, refVars>>
  PROVE  RefInv'
<1>1. CASE UNCHANGED <<vars, refVars>>
  <2>1. UNCHANGED <<vars, class, ref, gc, bytes, text>>
    BY <1>1 DEF refVars
  <2>2. InstructionInv'
    BY <2>1, InstructionSame DEF RefInv
  <2>3. TypesOfValue' = TypesOfValue /\ (Exists' <=> Exists)
    BY <2>1 DEF TypesOfValue, Exists, vars
  <2>4. ClassKept' /\ FunctionKept' /\ RefKept'
    BY <2>1, <2>3
    DEF RefInv, ClassKept, FunctionKept, RefKept, GetCallingConv, HasGC, vars
  <2>. QED
    BY <2>2, <2>4 DEF RefInv
<1>2. CASE StepOfInstruction
  BY <1>2, StepKept
<1>3. ASSUME NEW c \in DOMAIN RefOfClass \ {"ConstantDataArray"}, NewValue(c)
      PROVE  RefInv'
  BY <1>3, NewValueKept
<1>4. ASSUME NEW s \in Texts, NEW withNull \in BOOLEAN, OfString(s, withNull)
      PROVE  RefInv'
  BY <1>4, OfStringKept
<1>5. CASE GetAsString
  <2>1. UNCHANGED <<vars, class, ref, gc, bytes>>
    BY <1>5 DEF GetAsString
  <2>2. InstructionInv'
    BY <2>1, InstructionSame DEF RefInv
  <2>3. TypesOfValue' = TypesOfValue /\ (Exists' <=> Exists)
    BY <2>1 DEF TypesOfValue, Exists, vars
  <2>4. ClassKept' /\ FunctionKept' /\ RefKept'
    BY <2>1, <2>3
    DEF RefInv, ClassKept, FunctionKept, RefKept, GetCallingConv, HasGC, vars
  <2>. QED
    BY <2>2, <2>4 DEF RefInv
<1>6. CASE Forget
  <2>1. Exists /\ UNCHANGED <<vars, class, gc, bytes, text>>
    BY <1>6 DEF Forget
  <2>2. ref' \in TypesOfValue
    BY <1>6 DEF Forget, TypesOfValue
  <2>. QED
    BY <2>1, <2>2, TypeChangedKept
<1>7. ASSUME NEW t \in RefType, Cast(t)
      PROVE  RefInv'
  <2>1. Exists /\ Decided(t) /\ ref' = t /\ UNCHANGED <<vars, class, gc, bytes, text>>
    BY <1>7 DEF Cast
  <2>2. t \in TypesOfValue
    BY <2>1, DecidedIsRight DEF RefInv
  <2>. QED
    BY <2>1, <2>2, TypeChangedKept
<1>8. ASSUME NEW cc \in Conventions, SetCallingConvention(cc)
      PROVE  RefInv'
  BY <1>8, ConventionKept
<1>9. ASSUME NEW g \in GCNames \cup {NoGC}, SetGC(g)
      PROVE  RefInv'
  BY <1>9, CollectorKept DEF SetGC
<1>10. CASE ClearGC
  <2>1. PICK g \in GCNames \cup {NoGC} : g = NoGC
    OBVIOUS
  <2>2. SetHasGC(FALSE) = SetHasGC(g # NoGC)
    BY <2>1 DEF SetHasGC
  <2>3. \E h : SetFunction(SetHasGC(g # NoGC), h, [asked EXCEPT !.gc = g])
    BY <1>10, <2>1, <2>2 DEF ClearGC
  <2>. QED
    BY <2>1, <2>3, CollectorKept
<1>. QED
  BY <1>1, <1>2, <1>3, <1>4, <1>5, <1>6, <1>7, <1>8, <1>9, <1>10 DEF RefNext

(* The inductive invariant of a value and the reference to it. *)
THEOREM RefsInvariance == RefSpec => []RefInv
BY RefsInit, RefsNext, PTL DEF RefSpec
-----------------------------------------------------------------------------
(* An instruction has the operands of its kind, and packed attributes are  *)
(* bits of a short (instruction.cpp:20-440).                               *)
THEOREM TypeCorrect == RefSpec => []TypeOK
<1>1. RefInv => TypeOK
  BY DEF RefInv, InstructionInv
<1>. QED
  BY <1>1, RefsInvariance, PTL

(* A branch goes where it was last sent, in any mix of setters and swaps,  *)
(* through references whose type was forgotten and decided again           *)
(* (instruction.cpp:56-151).                                               *)
THEOREM BranchesGoAsAsked == RefSpec => []BranchesAsAsked
<1>1. RefInv => BranchesAsAsked
  <2>1. SUFFICES ASSUME BranchKept PROVE BranchesAsAsked
    BY DEF RefInv, InstructionInv
  <2>2. CASE kind = "condBr"
    <3>1. PICK t \in Block, f \in Block, c \in Value :
                 /\ operands = <<c, f, t>>
                 /\ asked = [cond |-> c, ifTrue |-> t, ifFalse |-> f]
      BY <2>1, <2>2 DEF BranchKept
    <3>2. Len(operands) = 3
      BY <3>1
    <3>3. GetSuccessor(0) = t /\ GetSuccessor(1) = f /\ GetCondition = c
      BY <3>1, <3>2 DEF GetSuccessor, GetCondition
    <3>4. asked.ifTrue = t /\ asked.ifFalse = f /\ asked.cond = c
      BY <3>1
    <3>5. GetSuccessors = <<t, f>>
      BY <3>2, <3>3 DEF GetSuccessors, IsConditional
    <3>. QED
      BY <2>2, <3>3, <3>4, <3>5 DEF BranchesAsAsked
  <2>3. CASE kind = "br"
    <3>1. PICK b \in Block : operands = <<b>> /\ asked = [ifTrue |-> b]
      BY <2>1, <2>3 DEF BranchKept
    <3>2. Len(operands) = 1 /\ operands[1] = b /\ asked.ifTrue = b
      BY <3>1
    <3>3. GetSuccessors = <<b>>
      BY <3>2 DEF GetSuccessors, GetSuccessor, IsConditional
    <3>. QED
      BY <2>3, <3>2, <3>3 DEF BranchesAsAsked
  <2>. QED
    BY <2>2, <2>3 DEF BranchesAsAsked
<1>. QED
  BY <1>1, RefsInvariance, PTL

(* The operands of the others are where the constructor put them, for any  *)
(* number of them (instruction.cpp:25-45, 258-282, 362-404).               *)
THEOREM OperandsFound == RefSpec => []OperandsAsAsked
<1>1. ASSUME InstructionInv, kind = "ret"
      PROVE  GetReturnValue = asked.value
  BY <1>1 DEF InstructionInv, OperandsKept, GetReturnValue
<1>2. ASSUME InstructionInv, kind = "load"
      PROVE  <<GetPointerOperand>> = asked.ops
  <2>1. PICK v \in Value : operands = <<v>>
    BY <1>2, Shapes DEF InstructionInv, TypeOK
  <2>2. asked.ops = operands
    BY <1>2 DEF InstructionInv, AccessKept
  <2>. QED
    BY <1>2, <2>1, <2>2 DEF GetPointerOperand
<1>3. ASSUME InstructionInv, kind = "store"
      PROVE  <<GetValueOperand, GetPointerOperand>> = asked.ops
  <2>1. PICK v \in Value, p \in Value : operands = <<v, p>>
    BY <1>3, Shapes DEF InstructionInv, TypeOK
  <2>2. asked.ops = operands
    BY <1>3 DEF InstructionInv, AccessKept
  <2>. QED
    BY <1>3, <2>1, <2>2 DEF GetPointerOperand, GetValueOperand
<1>4. ASSUME InstructionInv, kind = "getelementptr"
      PROVE  /\ GetPointerOperand = asked.ptr /\ GetIndices = asked.indices
             /\ inbounds = asked.inbounds
  <2>1. PICK p \in Value, is \in Values :
               /\ operands = <<p>> \o is
               /\ asked = [ptr |-> p, indices |-> is, inbounds |-> inbounds]
    BY <1>4 DEF InstructionInv, OperandsKept, IndexedBy
  <2>2. is \in Seq(Value)
    BY ValuesAreSeqs
  <2>3. operands[1] = p /\ Tail(operands) = is
    BY <2>1, <2>2, HeadTailProperties
  <2>. QED
    BY <1>4, <2>1, <2>3 DEF GetPointerOperand, GetIndices
<1>5. RefInv => OperandsAsAsked
  BY <1>1, <1>2, <1>3, <1>4 DEF RefInv, OperandsAsAsked
<1>. QED
  BY <1>5, RefsInvariance, PTL

(* The attributes of a load or store are independent of each other, if the *)
(* alignments are ones that LLVM has (instruction.cpp:180-256, 284-351).   *)
THEOREM AccessFound ==
  ASSUME AlignsFit
  PROVE  RefSpec => []AccessAsAsked
<1>1. RefInv => AccessAsAsked
  <2>1. SUFFICES ASSUME AccessKept, kind \in {"load", "store"}
                 PROVE  AccessAsAsked
    BY DEF RefInv, InstructionInv, AccessAsAsked
  <2>2. PICK v \in BOOLEAN, a \in ShiftVal, o \in AtomicOrdering :
          /\ asked = [ops |-> operands, volatile |-> v, align |-> a, ordering |-> o,
                      ssid |-> ssid]
          /\ Holds(packed, v, a, o)
    BY <2>1 DEF AccessKept
  <2>3. /\ GetVolatile = v
        /\ GetAlign = a /\ GetOrdering = o
    BY <2>2 DEF Holds, Bit, GetVolatile, GetAlign, GetOrdering
  <2>. QED
    BY <2>2, <2>3 DEF AccessAsAsked
<1>. QED
  BY <1>1, RefsInvariance, PTL

(* A reference never has the type of another class of values, if no string *)
(* is empty or all NUL (ValueRef.lean:55, InstructionRef.lean:12-21).      *)
THEOREM ReferencesRight ==
  ASSUME TextsHaveBytes
  PROVE  RefSpec => []ReferencesAreOfTheirClass
<1>1. RefInv => ReferencesAreOfTheirClass
  BY DEF RefInv, RefKept, ReferencesAreOfTheirClass
<1>. QED
  BY <1>1, RefsInvariance, PTL

(* Every type that is right for a value can be decided of it               *)
(* (ValueKind.lean:40-48, InstructionKind.lean:88-96).                     *)
THEOREM TypesFound == RefSpec => []EveryTypeIsFoundAgain
<1>1. RefInv => EveryTypeIsFoundAgain
  BY DecidedIsRight DEF RefInv, EveryTypeIsFoundAgain
<1>. QED
  BY <1>1, RefsInvariance, PTL

(* Convention and collector of a function do not disturb each other, for   *)
(* conventions up to the greatest LLVM has (function.cpp:71-115).          *)
THEOREM FunctionAttributesFound ==
  ASSUME ConventionsFit
  PROVE  RefSpec => []FunctionAttributesAsAsked
<1>1. RefInv => FunctionAttributesAsAsked
  <2>1. SUFFICES ASSUME FunctionKept, class = "Function"
                 PROVE  FunctionAttributesAsAsked
    BY DEF RefInv, FunctionAttributesAsAsked
  <2>2. PICK cc \in Conventions \cup {0}, g \in GCNames \cup {NoGC} :
          /\ asked = [cc |-> cc, gc |-> g]
          /\ GetCallingConv = cc
          /\ HasGC <=> g # NoGC
          /\ HasGC => gc = g
    BY <2>1 DEF FunctionKept
  <2>. QED
    BY <2>2 DEF FunctionAttributesAsAsked, HasGC
<1>. QED
  BY <1>1, RefsInvariance, PTL
-----------------------------------------------------------------------------
(* The bytes of a string constant are those of the characters that were    *)
(* asked for, and what was read from it are these characters.              *)
StringClass == {"ConstantDataArray", "ConstantAggregateZero"}
TextKept ==
  /\ class \in StringClass =>
       \E chars \in Seq(Char) : /\ asked = [chars |-> chars]
                                /\ bytes = Utf8(chars)
                                /\ text = None \/ text = LeanString(chars)
  /\ class \notin StringClass => text = None

LEMMA TextInit == RefInit => TextKept
BY DEF RefInit, TextKept, StringClass

(* The array has the characters that were given, and the NUL that ends the *)
(* object only if it was asked for.                                        *)
LEMMA BytesTaken ==
  ASSUME NEW s \in Seq(Char), NEW withNull \in BOOLEAN
  PROVE  (IF withNull THEN RefOfStringWithNull(LeanString(s))
                      ELSE RefOfString(LeanString(s)))
           = Utf8(IF withNull THEN Append(s, "NUL") ELSE s)
<1>1. PICK u \in Seq(Char \X Nat) : u = Utf8(s)
  BY StringsHaveBytes
<1>2. "NUL" \in Char /\ Nul \in Char \X Nat
  BY BytesAssumption DEF Char, Nul
<1>3. BytesOf("NUL") = <<Nul>>
  <2>1. \A j \in 1 .. 1 : <<"NUL", j>> = Nul
    BY DEF Nul
  <2>. QED
    BY <2>1, BytesAssumption DEF BytesOf
<1>4. CASE withNull
  BY <1>2, <1>3, <1>4, StringExtended DEF RefOfStringWithNull, LeanString
<1>5. CASE ~ withNull
  <2>1. SubSeq(u \o <<Nul>>, 1, Len(u \o <<Nul>>) - 1) = u
    BY <1>2
  <2>. QED
    BY <1>1, <1>5, <2>1 DEF RefOfString, LeanString
<1>. QED
  BY <1>4, <1>5

LEMMA OfStringRead ==
  ASSUME TextKept, NEW s \in Texts, NEW withNull \in BOOLEAN, OfString(s, withNull)
  PROVE  TextKept'
<1>1. s \in Seq(Char)
  BY TextsAssumption
<1>2. PICK chars : chars = IF withNull THEN Append(s, "NUL") ELSE s
  OBVIOUS
<1>3. chars \in Seq(Char)
  <2>1. "NUL" \in Char
    BY BytesAssumption DEF Char
  <2>2. Append(s, "NUL") \in Seq(Char)
    BY <1>1, <2>1
  <2>. QED
    BY <1>1, <1>2, <2>2
<1>4. bytes' = Utf8(chars) /\ asked' = [chars |-> chars] /\ text' = text
  BY <1>1, <1>2, BytesTaken DEF OfString
<1>5. text = None
  BY DEF TextKept, OfString, Exists, StringClass
<1>6. class' \in StringClass
  BY DEF OfString, StringClass
<1>. QED
  BY <1>3, <1>4, <1>5, <1>6 DEF TextKept

LEMMA GetAsStringRead ==
  ASSUME TextsHaveBytes, RefInv, TextKept, GetAsString
  PROVE  TextKept'
<1>1. /\ ref = "ConstantDataArrayRef"
      /\ asked' = asked /\ class' = class /\ bytes' = bytes
  BY DEF GetAsString, vars
<1>2. class = "ConstantDataArray"
  <2>1. Exists /\ ref \in TypesOfValue
    BY <1>1 DEF RefInv, RefKept
  <2>2. CASE class = "none"
    <3>1. kind \in {"ret", "br", "condBr", "load", "store", "getelementptr", "call"}
      BY <2>1, <2>2 DEF RefInv, InstructionInv, TypeOK, Exists
    <3>2. "ConstantDataArrayRef" # RefOfKind[kind]
      BY <3>1 DEF RefOfKind
    <3>. QED
      BY <1>1, <2>1, <2>2, <3>2 DEF TypesOfValue
  <2>3. CASE class # "none"
    <3>1. class \in DOMAIN RefOfClass /\ RefOfClass[class] = "ConstantDataArrayRef"
      BY <1>1, <2>1, <2>3 DEF TypesOfValue
    <3>. QED
      BY <3>1 DEF RefOfClass
  <2>. QED
    BY <2>2, <2>3
<1>3. PICK chars \in Seq(Char) : asked = [chars |-> chars] /\ bytes = Utf8(chars)
  BY <1>2 DEF TextKept, StringClass
<1>4. text' = MkStringFromSized(bytes)
  BY <1>2 DEF GetAsString, RawDataValues
<1>5. text' = LeanString(chars)
  BY <1>3, <1>4, StringsHaveBytes DEF MkStringFromSized, LeanString
<1>. QED
  BY <1>1, <1>2, <1>3, <1>5 DEF TextKept, StringClass

LEMMA TextNext ==
  ASSUME TextsHaveBytes, RefInv, TextKept, [RefNext]_<<vars, refVars>>
  PROVE  TextKept'
<1>1. ASSUME UNCHANGED <<asked, class, bytes, text>> PROVE TextKept'
  BY <1>1 DEF TextKept
<1>2. CASE UNCHANGED <<vars, refVars>>
  BY <1>1, <1>2 DEF vars, refVars
<1>3. CASE StepOfInstruction
  BY <1>3 DEF StepOfInstruction, TextKept, StringClass
<1>4. ASSUME NEW c \in DOMAIN RefOfClass \ {"ConstantDataArray"}, NewValue(c)
      PROVE  TextKept'
  <2>1. class = "none" /\ class' = c /\ text' = text
    BY <1>4 DEF NewValue, Exists
  <2>2. c \notin StringClass
    BY <1>4 DEF RefOfClass, StringClass
  <2>. QED
    BY <2>1, <2>2 DEF TextKept, StringClass
<1>5. ASSUME NEW s \in Texts, NEW withNull \in BOOLEAN, OfString(s, withNull)
      PROVE  TextKept'
  BY <1>5, OfStringRead
<1>6. CASE GetAsString
  BY <1>6, GetAsStringRead
<1>7. CASE Forget
  BY <1>1, <1>7 DEF Forget, vars
<1>8. ASSUME NEW t \in RefType, Cast(t)
      PROVE  TextKept'
  BY <1>1, <1>8 DEF Cast, vars
<1>9. ASSUME NEW p, NEW g, NEW wish, SetFunction(p, g, wish)
      PROVE  TextKept'
  <2>1. class = "Function" /\ class' = class /\ text' = text
    BY <1>9, FunctionChanged DEF SetFunction
  <2>. QED
    BY <2>1 DEF TextKept, StringClass
<1>10. ASSUME NEW cc \in Conventions, SetCallingConvention(cc)
       PROVE  TextKept'
  BY <1>9, <1>10 DEF SetCallingConvention
<1>11. ASSUME NEW g \in GCNames \cup {NoGC}, SetGC(g)
       PROVE  TextKept'
  BY <1>9, <1>11 DEF SetGC
<1>12. CASE ClearGC
  BY <1>9, <1>12 DEF ClearGC
<1>. QED
  BY <1>2, <1>3, <1>4, <1>5, <1>6, <1>7, <1>8, <1>10, <1>11, <1>12 DEF RefNext

(* A string constant is read back as it was given, however many bytes its  *)
(* characters have (adt.cpp:15-45, constant.cpp:175-190), if no string is  *)
(* empty or all NUL: of such a constant getAsString reads no array at all. *)
THEOREM StringsRead ==
  ASSUME TextsHaveBytes
  PROVE  RefSpec => []StringsReadBack
<1>1. TextKept => StringsReadBack
  BY DEF TextKept, StringsReadBack
<1>2. RefInv /\ TextKept /\ [RefNext]_<<vars, refVars>> => TextKept'
  BY TextNext
<1>. QED
  BY <1>1, <1>2, TextInit, RefsInvariance, PTL DEF RefSpec
=============================================================================
