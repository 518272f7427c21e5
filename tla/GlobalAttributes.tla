-------------------------- MODULE GlobalAttributes --------------------------
(***************************************************************************)
(* The attributes of a global variable, as its GlobalVariableRef shows     *)
(* them to Lean code.                                                      *)
(*                                                                         *)
(* A constructor of a Lean enumeration reaches C++ as its index, and is    *)
(* cast or switched to an LLVM enumeration; `attr` is what LLVM stores.    *)
(* `asked` is what the program last asked for, by the documented meaning   *)
(* of the operation it called.                                             *)
(***************************************************************************)
EXTENDS Integers

CONSTANTS
  NoInit,       \* no initializer
  Initializer,  \* constants
  Section,      \* names of linker sections, the empty one included
  Alignment,    \* alignments programs give: 0 or a power of two
  Misfits       \* the operations programs call of those whose Lean
                \* declaration does not fit what they do

ASSUME InitializerAssumption == NoInit \notin Initializer

NoSection == ""   \* the section of a variable that was given none

ASSUME SectionAssumption == NoSection \in Section
ASSUME AlignmentAssumption ==
  {0, 1} \subseteq Alignment /\ Alignment \subseteq {0} \cup {2 ^ k : k \in 0 .. 29}
ASSUME MisfitAssumption ==
  Misfits \subseteq {"setThreadLocalMode", "removeInitializer", "ofConstant"}

(* The constructors of the Lean enumerations, by index. *)
Linkage == 0 .. 10          \* external ... internal = 7, private = 8 ...
Visibility == 0 .. 2        \* default, hidden, protected
DLLStorageClass == 0 .. 2   \* default, dllImport, dllExport
ThreadLocalMode == 0 .. 4   \* notLocal, generalDynamic, localDynamic, ...
AddressSignificance == 0 .. 2   \* total, external, none

(* GlobalValue::isLocalLinkage: internal and private. *)
LocalLinkage == {7, 8}

(* The linkages that programs use, one of each kind. *)
UsedLinkage == {0, 3, 7, 8}

VARIABLES
  made,     \* whether the variable exists
  attr,     \* what LLVM stores
  asked,    \* what the program asked for
  crashed   \* a call read an argument it was not given

vars == <<made, attr, asked, crashed>>

Attributes ==
  [linkage : Linkage, visibility : Visibility, dllStorageClass : 0 .. 3,
   threadLocalMode : ThreadLocalMode,
   addressSignificance : {"None", "Local", "Global"},
   constant : BOOLEAN, externallyInitialized : BOOLEAN,
   initializer : Initializer \cup {NoInit}, section : Section, alignment : 0 .. 31]

Wishes ==
  [linkage : Linkage, visibility : Visibility, dllStorageClass : DLLStorageClass,
   threadLocalMode : ThreadLocalMode, addressSignificance : AddressSignificance,
   constant : BOOLEAN, externallyInitialized : BOOLEAN,
   initializer : Initializer \cup {NoInit}, section : Section, alignment : Alignment]

(* The types of the variables: what LLVM stores fits the fields it has,    *)
(* and what is asked for is a constructor of its enumeration.              *)
TypeOK ==
  /\ made \in BOOLEAN /\ crashed \in BOOLEAN
  /\ attr \in Attributes
  /\ asked \in Wishes

-----------------------------------------------------------------------------
(* The switches of papyrus_global_value_set/get_address_significance. *)
UnnamedAddr(tag) == IF tag = 1 THEN "Local" ELSE IF tag = 2 THEN "Global" ELSE "None"
(* Variant with a bug: two cases of the switch are exchanged. *)
SignificanceTagExchanged(kind) ==
  IF kind = "Local" THEN 2 ELSE IF kind = "Global" THEN 1 ELSE 0

SignificanceTag(kind) == IF kind = "Local" THEN 1 ELSE IF kind = "Global" THEN 2 ELSE 0

(* Variant with a bug: the alignment is stored where its exponent goes. *)
EncodeAlignRaw(a) == a

(* How LLVM stores an alignment in five bits: 0 for none, else one more    *)
(* than the exponent.                                                      *)
EncodeAlign(a) ==
  IF a = 0 THEN 0 ELSE 1 + CHOOSE k \in 0 .. 29 : 2 ^ k = a
DecodeAlign(e) == IF e = 0 THEN 0 ELSE 2 ^ (e - 1)

(* The getters. *)
GetVisibility == attr.visibility
GetAddressSignificance == SignificanceTag(attr.addressSignificance)
GetRawAlignment == DecodeAlign(attr.alignment)
GetDLLStorageClass == attr.dllStorageClass

(* getThreadLocalMode is declared with the getter of the storage class. *)
GetThreadLocalMode == attr.dllStorageClass

(* A new GlobalVariable: what its constructor is not given has defaults. *)
NewVariable(constant, linkage, init, tlm, extInit) ==
  [linkage |-> linkage, visibility |-> 0, dllStorageClass |-> 0,
   threadLocalMode |-> tlm, addressSignificance |-> "None",
   constant |-> constant, externallyInitialized |-> extInit,
   initializer |-> init, section |-> NoSection, alignment |-> 0]

(* What was asked for when a variable with these arguments was asked for.  *)
Wish(constant, linkage, init, tlm, extInit) ==
  [NewVariable(constant, linkage, init, tlm, extInit)
     EXCEPT !.addressSignificance = 0]

Init ==
  /\ made = FALSE /\ crashed = FALSE
  /\ attr = NewVariable(FALSE, 0, NoInit, 0, FALSE)
  /\ asked = Wish(FALSE, 0, NoInit, 0, FALSE)
-----------------------------------------------------------------------------
(* GlobalVariableRef.new and newWithInit *)
New(constant, linkage, init, tlm, extInit) ==
  /\ ~made
  /\ made' = TRUE
  /\ attr' = NewVariable(constant, linkage, init, tlm, extInit)
  /\ asked' = Wish(constant, linkage, init, tlm, extInit)
  /\ UNCHANGED crashed

(* GlobalVariableRef.ofConstant passes `true` for its argument isConstant. *)
OfConstant(constant, linkage, init, tlm) ==
  /\ ~made
  /\ init # NoInit
  /\ constant \/ "ofConstant" \in Misfits
  /\ made' = TRUE
  /\ attr' = NewVariable(TRUE, linkage, init, tlm, FALSE)
  /\ asked' = Wish(constant, linkage, init, tlm, FALSE)
  /\ UNCHANGED crashed

(* GlobalVariableRef.ofString: a private constant of single-byte alignment *)
(* whose address is insignificant.                                         *)
OfString(init) ==
  /\ ~made
  /\ init # NoInit
  /\ made' = TRUE
  /\ attr' = [NewVariable(TRUE, 8, init, 0, FALSE)
                EXCEPT !.addressSignificance = UnnamedAddr(2),
                       !.alignment = EncodeAlign(1)]
  /\ asked' = [Wish(TRUE, 8, init, 0, FALSE)
                 EXCEPT !.addressSignificance = 2, !.alignment = 1]
  /\ UNCHANGED crashed

(* Variant with a bug: the visibility is left as it is. *)
SetLinkageAlone(x) ==
  /\ attr' = [attr EXCEPT !.linkage = x]
  /\ asked' = [asked EXCEPT !.linkage = x]
  /\ UNCHANGED crashed

(* setLinkage: a local global has default visibility. *)
SetLinkage(x) ==
  /\ attr' = [attr EXCEPT !.linkage = x,
                          !.visibility = IF x \in LocalLinkage THEN 0 ELSE @]
  /\ asked' = [asked EXCEPT !.linkage = x]
  /\ UNCHANGED crashed

(* setVisibility.  LLVM asks that a local global keeps the default. *)
SetVisibility(x) ==
  /\ attr.linkage \in LocalLinkage => x = 0
  /\ attr' = [attr EXCEPT !.visibility = x]
  /\ asked' = [asked EXCEPT !.visibility = x]
  /\ UNCHANGED crashed

SetDLLStorageClass(x) ==
  /\ attr' = [attr EXCEPT !.dllStorageClass = x]
  /\ asked' = [asked EXCEPT !.dllStorageClass = x]
  /\ UNCHANGED crashed

(* setThreadLocalMode is declared with the setter of the storage class,    *)
(* which LLVM keeps in two bits.                                           *)
SetThreadLocalMode(x) ==
  /\ "setThreadLocalMode" \in Misfits
  /\ attr' = [attr EXCEPT !.dllStorageClass = x % 4]
  /\ asked' = [asked EXCEPT !.threadLocalMode = x]
  /\ UNCHANGED crashed

SetAddressSignificance(x) ==
  /\ attr' = [attr EXCEPT !.addressSignificance = UnnamedAddr(x)]
  /\ asked' = [asked EXCEPT !.addressSignificance = x]
  /\ UNCHANGED crashed

SetSection(x) ==
  /\ attr' = [attr EXCEPT !.section = x]
  /\ asked' = [asked EXCEPT !.section = x]
  /\ UNCHANGED crashed

SetRawAlignment(x) ==
  /\ attr' = [attr EXCEPT !.alignment = EncodeAlign(x)]
  /\ asked' = [asked EXCEPT !.alignment = x]
  /\ UNCHANGED crashed

SetConstant(x) ==
  /\ attr' = [attr EXCEPT !.constant = x]
  /\ asked' = [asked EXCEPT !.constant = x]
  /\ UNCHANGED crashed

SetExternallyInitialized(x) ==
  /\ attr' = [attr EXCEPT !.externallyInitialized = x]
  /\ asked' = [asked EXCEPT !.externallyInitialized = x]
  /\ UNCHANGED crashed

SetInitializer(x) ==
  /\ attr' = [attr EXCEPT !.initializer = x]
  /\ asked' = [asked EXCEPT !.initializer = x]
  /\ UNCHANGED crashed

(* removeInitializer: Lean passes the variable and the world; the function *)
(* takes an initializer before the variable, so that it reads the world,   *)
(* which is no object, as the variable.                                    *)
RemoveInitializer ==
  /\ "removeInitializer" \in Misfits
  /\ crashed' = TRUE
  /\ asked' = [asked EXCEPT !.initializer = NoInit]
  /\ UNCHANGED attr

Create ==
  \E linkage \in UsedLinkage, tlm \in ThreadLocalMode :
    \E constant \in BOOLEAN, init \in Initializer \cup {NoInit} :
      \/ \E extInit \in BOOLEAN : New(constant, linkage, init, tlm, extInit)
      \/ OfConstant(constant, linkage, init, tlm)
      \/ OfString(init)

Change ==
  /\ made /\ ~crashed
  /\ UNCHANGED made
  /\ \/ \E x \in UsedLinkage : SetLinkage(x)
     \/ \E x \in Visibility : SetVisibility(x)
     \/ \E x \in DLLStorageClass : SetDLLStorageClass(x)
     \/ \E x \in ThreadLocalMode : SetThreadLocalMode(x)
     \/ \E x \in AddressSignificance : SetAddressSignificance(x)
     \/ \E x \in Section : SetSection(x)
     \/ \E x \in Alignment : SetRawAlignment(x)
     \/ \E x \in BOOLEAN : SetConstant(x) \/ SetExternallyInitialized(x)
     \/ \E x \in Initializer : SetInitializer(x)
     \/ RemoveInitializer

Next == Create \/ Change

Spec == Init /\ [][Next]_vars
-----------------------------------------------------------------------------
(* An attribute reads as what was last asked for, whatever else was set in *)
(* between and by which constructor the variable was made, but for         *)
(* ofConstant asked for a variable that is not constant: it makes a        *)
(* constant all the same (GlobalVariableRef.lean:44), and programs ask for *)
(* that only if Misfits names it.  The encodings of the C++ side and of    *)
(* LLVM are undone by the getters, and no operation disturbs the attribute *)
(* of another (global.cpp:29-182, global_variable.cpp:41-103).             *)
ReadsLastWrite ==
  /\ attr.linkage = asked.linkage
  /\ GetAddressSignificance = asked.addressSignificance
  /\ attr.section = asked.section
  /\ GetRawAlignment = asked.alignment
  /\ attr.constant = asked.constant
  /\ attr.externallyInitialized = asked.externallyInitialized
  /\ crashed \/ attr.initializer = asked.initializer

(* Visibility is the one attribute another setter changes: what was asked  *)
(* for, or the default; and always the default for a local global          *)
(* (global.cpp:34-55).                                                     *)
VisibilityFollowsLinkage ==
  /\ GetVisibility \in {0, asked.visibility}
  /\ attr.linkage \in LocalLinkage => GetVisibility = 0

(* "Get the thread local mode of this global" (GlobalRefs.lean:62). *)
ThreadLocalModeAsAsked == GetThreadLocalMode = asked.threadLocalMode
=============================================================================
