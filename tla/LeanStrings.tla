---------------------------- MODULE LeanStrings ----------------------------
(***************************************************************************)
(* Lean strings and LLVM strings.  A Lean string object keeps the UTF-8    *)
(* bytes with a NUL behind them, which its size counts, and the number of  *)
(* its characters.  A StringRef is a sequence of bytes.  A byte is a pair  *)
(* of a character and an index: the first byte of each is marked in UTF-8. *)
(***************************************************************************)
EXTENDS Integers, Sequences, FiniteSets

CONSTANTS
  Bytes   \* how many bytes each character has

(* NUL is a character of one byte. *)
ASSUME BytesAssumption ==
  /\ Bytes \in [DOMAIN Bytes -> Nat \ {0}]
  /\ "NUL" \in DOMAIN Bytes /\ Bytes["NUL"] = 1

Char == DOMAIN Bytes
Nul == <<"NUL", 1>>

(* The bytes of a character, and those of a string. *)
BytesOf(c) == [j \in 1 .. Bytes[c] |-> <<c, j>>]
Utf8(chars) ==
  LET upTo[n \in 0 .. Len(chars)] ==
        IF n = 0 THEN << >> ELSE upTo[n - 1] \o BytesOf(chars[n])
  IN  upTo[Len(chars)]

(* A string of Lean. *)
LeanString(chars) == [data |-> Utf8(chars) \o <<Nul>>, length |-> Len(chars)]

(* Variant with a bug: the NUL that ends the object is taken along. *)
RefOfWholeObject(str) == str.data

(* refOfString, stdOfString *)
RefOfString(str) == SubSeq(str.data, 1, Len(str.data) - 1)

(* refOfStringWithNull *)
RefOfStringWithNull(str) == str.data

(* The bytes with which a character begins. *)
Firsts(bytes) == {i \in DOMAIN bytes : bytes[i][2] = 1}

(* mkStringFromSized: a NUL is added, and lean_utf8_n_strlen counts the    *)
(* characters.                                                             *)
MkStringFromSized(bytes) ==
  [data |-> bytes \o <<Nul>>,
   length |-> Cardinality(Firsts(bytes))]
=============================================================================
