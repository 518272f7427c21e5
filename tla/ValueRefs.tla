----------------------------- MODULE ValueRefs -----------------------------
(***************************************************************************)
(* One LLVM value, an instruction or another, and the Lean type of the     *)
(* reference a program holds to it.                                        *)
(*                                                                         *)
(* The type of a reference carries a proof of what LLVM says of the value: *)
(* its kind, for an instruction its opcode, for a branch whether it is     *)
(* conditional.  A program may forget the type and win it back by deciding *)
(* the same question.  The C++ functions trust the type.                   *)
(***************************************************************************)
EXTENDS Instructions, LeanStrings

CONSTANTS
  Conventions,  \* the calling conventions programs ask for
  GCNames,      \* the garbage collectors they ask for
  NoGC,         \* the empty name of a collector
  Texts         \* the strings constants are made of, as characters

ASSUME TextsAssumption == Texts \subseteq Seq(Char)

VARIABLES
  class,  \* the llvm class of the value, "none" for an instruction
  ref,    \* the Lean type of the reference to it
  gc,     \* the collector that LLVM notes for a function
  bytes,  \* the elements of a constant data array
  text    \* the Lean string that was read from it last

refVars == <<class, ref, gc, bytes, text>>

(* The numbers that LLVM gives to the classes of its values, and to the    *)
(* instructions after them.                                                *)
ClassID ==
  [Function |-> 0, GlobalVariable |-> 3, ConstantExpr |-> 5, ConstantAggregateZero |-> 12,
   ConstantDataArray |-> 13, ConstantInt |-> 15, Argument |-> 19, BasicBlock |-> 20]
Opcode ==
  [ret |-> 1, br |-> 2, condBr |-> 2, load |-> 32, store |-> 33,
   getelementptr |-> 34, call |-> 56]

(* papyrus_value_id *)
ValueID == IF class = "none" THEN 26 + Opcode[kind] ELSE ClassID[class]

(* The tags of Lean, in their order. *)
ValueKind ==
  <<"function", "globalAlias", "globalIFunc", "globalVariable", "blockAddress",
    "constantExpr", "dsoLocalEquivalent", "constantArray", "constantStruct",
    "constantVector", "undef", "poison", "constantAggregateZero",
    "constantDataArray", "constantDataVector", "constantInt", "constantFP",
    "constantPointerNull", "constantTokenNone", "argument", "basicBlock",
    "metadataAsValue", "inlineAsm", "memoryUse", "memoryDef", "memoryPhi",
    "instruction">>
InstructionKind ==
  <<"ret", "branch", "switch", "indirectBr", "invoke", "resume", "unreachable",
    "cleanupRet", "catchRet", "catchSwitch", "callBr", "fneg", "add", "fadd",
    "sub", "fsub", "mul", "fmul", "udiv", "sdiv", "fdiv", "urem", "srem",
    "frem", "shl", "lshr", "ashr", "and", "or", "xor", "alloca", "load",
    "store", "getElementPtr", "fence", "atomicCmpXchg", "atomicRMW", "trunc",
    "zext", "sext", "fpToUI", "fpToSI", "uiToFP", "siToFP", "fpTrunc", "fpExt",
    "ptrToInt", "intToPtr", "bitcast", "addrSpaceCast", "cleanupPad",
    "catchPad", "icmp", "fcmp", "phi", "call", "select", "userOp1", "userOp2",
    "vaarg", "extractElement", "insertElement", "shuffleVector",
    "extractValue", "insertValue", "landingPad", "freeze">>

(* The type of references for each class of values. *)
RefOfClass ==
  [Function |-> "FunctionRef", GlobalVariable |-> "GlobalVariableRef",
   ConstantExpr |-> "ConstantExprRef", ConstantDataArray |-> "ConstantDataArrayRef",
   ConstantInt |-> "ConstantIntRef", Argument |-> "ArgumentRef",
   BasicBlock |-> "BasicBlockRef"]
RefOfKind ==
  [ret |-> "ReturnInstRef", br |-> "BrInstRef", condBr |-> "CondBrInstRef",
   load |-> "LoadInstRef", store |-> "StoreInstRef",
   getelementptr |-> "GetElementPtrInstRef", call |-> "CallInstRef"]

(* What a reference of a type says of its value. *)
KindOfRef ==
  [FunctionRef |-> "function", GlobalVariableRef |-> "globalVariable",
   ConstantExprRef |-> "constantExpr", ConstantDataArrayRef |-> "constantDataArray",
   ConstantIntRef |-> "constantInt", ArgumentRef |-> "argument",
   BasicBlockRef |-> "basicBlock"]
InstructionOfRef ==
  [ReturnInstRef |-> "ret", BranchInstRef |-> "branch", BrInstRef |-> "branch",
   CondBrInstRef |-> "branch", LoadInstRef |-> "load", StoreInstRef |-> "store",
   GetElementPtrInstRef |-> "getElementPtr", CallInstRef |-> "call"]

RefType == {"ValueRef", "InstructionRef"}
             \cup DOMAIN KindOfRef \cup DOMAIN InstructionOfRef

RefInit ==
  /\ Init
  /\ class = "none" /\ ref = "ValueRef" /\ gc = NoGC
  /\ bytes = << >> /\ text = None
-----------------------------------------------------------------------------
(* ValueKind.ofValueID: what is no other kind is an instruction. *)
OfValueID(id) ==
  LET i == id % 256
  IN  IF i <= 26 THEN ValueKind[i + 1] ELSE "instruction"

(* Variant with a bug: opcodes are taken to start at 0. *)
OfOpcodeFromZero(opcode) ==
  LET i == opcode % 256
  IN  IF i <= 66 THEN InstructionKind[i + 1] ELSE "freeze"

(* InstructionKind.ofOpcode!: opcodes start at 1; a panic continues with   *)
(* the default, the last tag.                                              *)
OfOpcode(opcode) ==
  LET i == (opcode - 1) % 256
  IN  IF i <= 66 THEN InstructionKind[i + 1] ELSE "freeze"

(* InstructionRef.opcode *)
OpcodeOf(id) == id - 26

(* What kinds say of a cast to t. *)
KindsAgree(t) ==
  \/ t = "ValueRef"
  \/ t \in DOMAIN KindOfRef /\ OfValueID(ValueID) = KindOfRef[t]
  \/ t = "InstructionRef" /\ OfValueID(ValueID) = "instruction"
  \/ /\ t \in DOMAIN InstructionOfRef
     /\ OfValueID(ValueID) = "instruction"
     /\ OfOpcode(OpcodeOf(ValueID)) = InstructionOfRef[t]

(* Variant with a bug: both types of branches are open to every branch. *)
DecidedForBranches(t) == KindsAgree(t)

(* What a program can decide of its value, and so cast it to t. *)
Decided(t) ==
  /\ KindsAgree(t)
  /\ t = "CondBrInstRef" => IsConditional
  /\ t = "BrInstRef" => ~IsConditional

Exists == kind # "none" \/ class # "none"

(* create, getArg, getFunctions, getConstantInt...: a value that is no     *)
(* instruction, with a reference of its type.                              *)
NewValue(c) ==
  /\ ~Exists
  /\ class' = c
  /\ ref' = RefOfClass[c]
  /\ asked' = [cc |-> 0, gc |-> NoGC]
  /\ UNCHANGED <<kind, operands, packed, ssid, inbounds, gc, bytes, text>>

(* ConstantDataArrayRef.ofString: LLVM keeps an array of zeros in another  *)
(* form, which the type of the reference does not say.                     *)
OfString(chars, withNull) ==
  LET str == LeanString(chars)
      array == IF withNull THEN RefOfStringWithNull(str) ELSE RefOfString(str)
  IN  /\ ~Exists
      /\ class' = IF \A i \in DOMAIN array : array[i] = Nul
                  THEN "ConstantAggregateZero" ELSE "ConstantDataArray"
      /\ ref' = "ConstantDataArrayRef"
      /\ bytes' = array
      /\ asked' = [chars |-> IF withNull THEN Append(chars, "NUL") ELSE chars]
      /\ UNCHANGED <<kind, operands, packed, ssid, inbounds, gc, text>>

(* getRawDataValues: the elements.  An array of zeros keeps none: asked    *)
(* through the wrong cast, it answers with as many bytes of other memory.  *)
RawDataValues ==
  IF class = "ConstantDataArray"
  THEN {bytes}
  ELSE [DOMAIN bytes -> UNION {{<<c, j>> : j \in 1 .. Bytes[c]} : c \in Char}]

(* getAsString: all the elements, a NUL at the end like any other. *)
GetAsString ==
  /\ ref = "ConstantDataArrayRef"
  /\ \E data \in RawDataValues : text' = MkStringFromSized(data)
  /\ UNCHANGED <<vars, class, ref, gc, bytes>>

(* A new instruction, or a setter called on a reference of its type.       *)
StepOfInstruction ==
  /\ class = "none"
  /\ kind # "none" => ref = RefOfKind[kind]
  /\ Next
  /\ ref' = RefOfKind[kind']
  /\ UNCHANGED <<class, gc, bytes, text>>

(* The value is met again: as an operand, or in a list of instructions. *)
Forget ==
  /\ Exists
  /\ ref' \in IF class = "none" THEN {"ValueRef", "InstructionRef"} ELSE {"ValueRef"}
  /\ UNCHANGED <<vars, class, gc, bytes, text>>

(* cast, castInst *)
Cast(t) ==
  /\ Exists /\ Decided(t)
  /\ ref' = t
  /\ UNCHANGED <<vars, class, gc, bytes, text>>
-----------------------------------------------------------------------------
(* A function keeps its calling convention in bits 4 to 13 of its          *)
(* SubclassData, and in bit 14 whether LLVM notes a collector for it.      *)
CallingConv == [first |-> 4, last |-> 13]
HasGC == 14 \in packed
GetCallingConv == Field(packed, CallingConv)
SetHasGC(on) == (packed \ {14}) \cup (IF on THEN {14} ELSE {})

SetFunction(p, g, wish) ==
  /\ ref = "FunctionRef"
  /\ packed' = p
  /\ gc' = g
  /\ asked' = wish
  /\ UNCHANGED <<kind, operands, ssid, inbounds, class, ref, bytes, text>>

(* Variant with a bug: the bits of the old convention stay. *)
SetCallingConventionUncleared(cc) ==
  SetFunction(SetFieldUncleared(packed, CallingConv, cc), gc, [asked EXCEPT !.cc = cc])

(* setCallingConvention: the mask keeps bits 0 to 3, 14 and 15. *)
SetCallingConvention(cc) ==
  SetFunction(SetField(packed, CallingConv, cc), gc, [asked EXCEPT !.cc = cc])

(* setGC *)
SetGC(g) == SetFunction(SetHasGC(g # NoGC), g, [asked EXCEPT !.gc = g])

(* clearGC *)
ClearGC ==
  SetFunction(SetHasGC(FALSE), IF HasGC THEN NoGC ELSE gc, [asked EXCEPT !.gc = NoGC])

RefNext ==
  \/ StepOfInstruction
  \/ \E c \in DOMAIN RefOfClass \ {"ConstantDataArray"} : NewValue(c)
  \/ \E s \in Texts, withNull \in BOOLEAN : OfString(s, withNull)
  \/ GetAsString
  \/ Forget
  \/ \E t \in RefType : Cast(t)
  \/ \E cc \in Conventions : SetCallingConvention(cc)
  \/ \E g \in GCNames \cup {NoGC} : SetGC(g)
  \/ ClearGC

RefSpec == RefInit /\ [][RefNext]_<<vars, refVars>>
-----------------------------------------------------------------------------
(* The types whose functions LLVM may be called with on this value. *)
TypesOfValue ==
  IF class # "none"
  THEN {"ValueRef"} \cup {RefOfClass[c] : c \in DOMAIN RefOfClass \cap {class}}
  ELSE {"ValueRef", "InstructionRef", RefOfKind[kind]}
         \cup (IF kind \in {"br", "condBr"} THEN {"BranchInstRef"} ELSE {})

(* A reference does not have the type of another class of values, over any *)
(* mix of constructors, setters, forgetting and casts: the C++ functions   *)
(* cast without a check in release builds (InstructionRefs.lean:35, 88,    *)
(* 114, 152; constant.cpp:49, 164).  It holds of texts with a character    *)
(* that is not NUL; ofString of an empty string, or of one that is all     *)
(* NUL, breaks it (constant.cpp:184-189): with such a string in Texts this *)
(* fails after one step.                                                   *)
ReferencesAreOfTheirClass == Exists => ref \in TypesOfValue

(* Every value can be cast to every type that is right for it, after its   *)
(* type was forgotten (ValueKind.lean:41-46, InstructionKind.lean:85-90,   *)
(* InstructionRef.lean:23-28).                                             *)
EveryTypeIsFoundAgain == Exists => \A t \in TypesOfValue : Decided(t)

(* The attributes of a function do not disturb each other, though they     *)
(* share a number, and there is a collector to ask for when hasGC says so  *)
(* (FunctionRef.lean:70-93).                                               *)
FunctionAttributesAsAsked ==
  class = "Function" =>
    /\ GetCallingConv = asked.cc
    /\ HasGC = (asked.gc # NoGC)
    /\ HasGC => gc = asked.gc

(* A string constant is read back as it was given, with the NUL character  *)
(* that withNull asks for and no other, and as an object that Lean's own   *)
(* functions accept: its size counts the last NUL, its length characters   *)
(* and not bytes (adt.cpp:15-45, constant.cpp:175-190).  This too is about *)
(* texts with a character that is not NUL: of the others there is no data  *)
(* to read.                                                                *)
StringsReadBack == text # None => text = LeanString(asked.chars)
=============================================================================
