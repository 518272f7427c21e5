---------------------------- MODULE Instructions ----------------------------
(***************************************************************************)
(* One instruction, as the accessors of its InstructionRef show and change *)
(* it.  LLVM keeps its operands in a list whose order depends on the kind  *)
(* of instruction (those of a branch are read from the end), and packs the *)
(* attributes of a load or store into the bits of one number.              *)
(*                                                                         *)
(* `asked` is what the program last asked for, by the documented meaning   *)
(* of the operation it called.                                             *)
(***************************************************************************)
EXTENDS Integers, Sequences

CONSTANTS
  Block,       \* basic blocks
  Value,       \* other values: conditions, pointers, indices, arguments
  None,        \* no operand
  MaxOperands, \* bound: indices of a getelementptr, arguments of a call
  ShiftVal,    \* the Align objects programs use, by their shiftVal
  ScopeId      \* synchronization scopes

ASSUME ShiftAssumption == ShiftVal \subseteq 0 .. 63
ASSUME ScopeAssumption == None \notin ScopeId

VARIABLES
  kind,        \* what the instruction is
  operands,    \* the operands as LLVM keeps them
  packed,      \* the bits of Value's SubclassData that are set
  ssid,        \* load, store: the synchronization scope
  inbounds,    \* getelementptr: the flag
  asked        \* what the program asked for

vars == <<kind, operands, packed, ssid, inbounds, asked>>

(* The bits of an unsigned short. *)
SubclassData == 0 .. 15

(* AtomicOrdering, by index: notAtomic ... sequentiallyConsistent *)
AtomicOrdering == 0 .. 7

Values == UNION {[1 .. n -> Value] : n \in 0 .. MaxOperands}

(* The operands of a getelementptr, and those of a call. *)
IndexedBy(ptr, indices) == <<ptr>> \o indices
CallOf(fn, args) == args \o <<fn>>

(* The operands that instructions of each kind have. *)
Shape(k) ==
  CASE k = "none" -> {<< >>}
    [] k = "ret" -> {<< >>} \cup {<<v>> : v \in Value}
    [] k = "br" -> {<<b>> : b \in Block}
    [] k = "condBr" -> Value \X Block \X Block
    [] k = "load" -> {<<v>> : v \in Value}
    [] k = "store" -> Value \X Value
    [] k = "getelementptr" -> {IndexedBy(v, is) : v \in Value, is \in Values}
    [] k = "call" -> {CallOf(f, args) : f \in Value, args \in Values}

(* The types of the variables: an instruction has the operands of its      *)
(* kind, and only a load or a store has a synchronization scope.           *)
TypeOK ==
  /\ kind \in {"none", "ret", "br", "condBr", "load", "store", "getelementptr", "call"}
  /\ operands \in Shape(kind)
  /\ packed \subseteq SubclassData /\ inbounds \in BOOLEAN
  /\ ssid \in ScopeId <=> kind \in {"load", "store"}

Init ==
  /\ kind = "none"
  /\ operands = << >>
  /\ packed = {} /\ ssid = None /\ inbounds = FALSE
  /\ asked = << >>
-----------------------------------------------------------------------------
(* The fields of the packed number, by their first and last bit: volatile, *)
(* the exponent of the alignment, the ordering.                            *)
Volatile == [first |-> 0, last |-> 0]
Alignment == [first |-> 1, last |-> 5]
Ordering == [first |-> 6, last |-> 8]

Positions(f) == f.first .. f.last

(* The bits that x sets when it is shifted to its place. *)
BitsOf(x) == {i \in SubclassData : (x \div 2 ^ i) % 2 = 1}
Shifted(x, f) == {f.first + i : i \in BitsOf(x)} \cap SubclassData

(* Bitfield::get: the number whose bits the field holds. *)
Field(p, f) ==
  CHOOSE x \in 0 .. 2 ^ (f.last - f.first + 1) - 1 :
    Shifted(x, f) = p \cap Positions(f)

(* Variant with a bug: the old value of the field is not cleared. *)
SetFieldUncleared(p, f, x) == p \cup Shifted(x, f)

(* Bitfield::set: the field is cleared, then the value is put in place.    *)
(* That it fits is only asserted, in builds of LLVM with assertions.       *)
SetField(p, f, x) == (p \ Positions(f)) \cup Shifted(x, f)

Bit(v) == IF v THEN 1 ELSE 0

(* The accessors of branches: successors are counted from the end. *)
GetSuccessor(i) == operands[Len(operands) - i]
IsConditional == Len(operands) = 3
GetSuccessors ==
  IF IsConditional THEN <<GetSuccessor(0), GetSuccessor(1)>> ELSE <<GetSuccessor(0)>>
GetCondition == operands[Len(operands) - 2]

(* The accessors of the others. *)
GetReturnValue == IF operands = << >> THEN None ELSE operands[1]
GetValueOperand == operands[1]
GetPointerOperand == IF kind = "store" THEN operands[2] ELSE operands[1]
GetIndices == Tail(operands)
GetVolatile == Field(packed, Volatile) = 1
GetAlign == Field(packed, Alignment)
GetOrdering == Field(packed, Ordering)
-----------------------------------------------------------------------------
(* A new instruction of kind k. *)
Make(k, ops, wish) ==
  /\ kind = "none"
  /\ kind' = k
  /\ operands' = ops
  /\ asked' = wish

(* Variant with a bug: createVoid gives the instruction a null operand. *)
CreateRetOfNull(v) ==
  /\ Make("ret", <<v>>, [value |-> v])
  /\ UNCHANGED <<packed, ssid, inbounds>>

(* ReturnInstRef.create and createVoid *)
CreateRet(v) ==
  /\ Make("ret", IF v = None THEN << >> ELSE <<v>>, [value |-> v])
  /\ UNCHANGED <<packed, ssid, inbounds>>

(* CondBrInstRef.create *)
CreateCondBr(t, f, c) ==
  /\ Make("condBr", <<c, f, t>>, [cond |-> c, ifTrue |-> t, ifFalse |-> f])
  /\ UNCHANGED <<packed, ssid, inbounds>>

(* BrInstRef.create *)
CreateBr(b) ==
  /\ Make("br", <<b>>, [ifTrue |-> b])
  /\ UNCHANGED <<packed, ssid, inbounds>>

(* A change of one operand, or of several. *)
SetOperands(ops, wish) ==
  /\ operands' = ops
  /\ asked' = wish
  /\ UNCHANGED <<kind, packed, ssid, inbounds>>

SetCondition(c) ==
  /\ kind = "condBr"
  /\ SetOperands([operands EXCEPT ![Len(operands) - 2] = c], [asked EXCEPT !.cond = c])

(* setIfTrue of a conditional branch, setSuccessor of another *)
SetIfTrue(b) ==
  /\ kind \in {"condBr", "br"}
  /\ SetOperands([operands EXCEPT ![Len(operands)] = b], [asked EXCEPT !.ifTrue = b])

SetIfFalse(b) ==
  /\ kind = "condBr"
  /\ SetOperands([operands EXCEPT ![Len(operands) - 1] = b], [asked EXCEPT !.ifFalse = b])

(* Variant with a bug: one successor is overwritten before it is read. *)
SwapSuccessorsInOrder ==
  /\ kind = "condBr"
  /\ SetOperands([operands EXCEPT ![3] = operands[2]],
                 [asked EXCEPT !.ifTrue = asked.ifFalse, !.ifFalse = asked.ifTrue])

SwapSuccessors ==
  /\ kind = "condBr"
  /\ SetOperands([operands EXCEPT ![3] = operands[2], ![2] = operands[3]],
                 [asked EXCEPT !.ifTrue = asked.ifFalse, !.ifFalse = asked.ifTrue])

(* Variant with a bug: the operands of a store are exchanged. *)
CreateAccessExchanged(ops, v, a, o, s) ==
  /\ Make(IF Len(ops) = 1 THEN "load" ELSE "store", <<ops[Len(ops)]>> \o Tail(ops),
          [ops |-> ops, volatile |-> v, align |-> a, ordering |-> o, ssid |-> s])
  /\ packed' = SetField(SetField(SetField({}, Volatile, Bit(v)), Alignment, a), Ordering, o)
  /\ ssid' = s
  /\ UNCHANGED inbounds

(* LoadInstRef.create of a pointer, StoreInstRef.create of a value and a   *)
(* pointer                                                                 *)
CreateAccess(ops, v, a, o, s) ==
  /\ Make(IF Len(ops) = 1 THEN "load" ELSE "store", ops,
          [ops |-> ops, volatile |-> v, align |-> a, ordering |-> o, ssid |-> s])
  /\ packed' = SetField(SetField(SetField({}, Volatile, Bit(v)), Alignment, a), Ordering, o)
  /\ ssid' = s
  /\ UNCHANGED inbounds

(* A change of attributes of a load or store. *)
SetAccess(p, s, wish) ==
  /\ kind \in {"load", "store"}
  /\ packed' = p
  /\ ssid' = s
  /\ asked' = wish
  /\ UNCHANGED <<kind, operands, inbounds>>

SetVolatile(v) ==
  SetAccess(SetField(packed, Volatile, Bit(v)), ssid, [asked EXCEPT !.volatile = v])

SetAlign(a) ==
  SetAccess(SetField(packed, Alignment, a), ssid, [asked EXCEPT !.align = a])

SetOrdering(o) ==
  SetAccess(SetField(packed, Ordering, o), ssid, [asked EXCEPT !.ordering = o])

SetSyncScopeID(s) == SetAccess(packed, s, [asked EXCEPT !.ssid = s])

SetAtomic(o, s) ==
  SetAccess(SetField(packed, Ordering, o), s, [asked EXCEPT !.ordering = o, !.ssid = s])

(* GetElementPtrInstRef.create and createInbounds *)
CreateGetElementPtr(ptr, indices, flag) ==
  /\ Make("getelementptr", IndexedBy(ptr, indices),
          [ptr |-> ptr, indices |-> indices, inbounds |-> flag])
  /\ inbounds' = flag
  /\ UNCHANGED <<packed, ssid>>

SetInbounds(flag) ==
  /\ kind = "getelementptr"
  /\ inbounds' = flag
  /\ asked' = [asked EXCEPT !.inbounds = flag]
  /\ UNCHANGED <<kind, operands, packed, ssid>>

(* CallInstRef.create: the callee is the last operand. *)
CreateCall(fn, args) ==
  /\ Make("call", CallOf(fn, args), [fn |-> fn, args |-> args])
  /\ UNCHANGED <<packed, ssid, inbounds>>

Next ==
  \/ \E v \in Value \cup {None} : CreateRet(v)
  \/ \E t, f \in Block, c \in Value : CreateCondBr(t, f, c)
  \/ \E c \in Value : SetCondition(c)
  \/ \E b \in Block : CreateBr(b) \/ SetIfTrue(b) \/ SetIfFalse(b)
  \/ SwapSuccessors
  \/ \E ops \in Shape("load") \cup Shape("store"), v \in BOOLEAN, a \in ShiftVal :
       \E o \in AtomicOrdering, s \in ScopeId : CreateAccess(ops, v, a, o, s)
  \/ \E v \in BOOLEAN : SetVolatile(v) \/ SetInbounds(v)
  \/ \E a \in ShiftVal : SetAlign(a)
  \/ \E o \in AtomicOrdering : SetOrdering(o)
  \/ \E s \in ScopeId : SetSyncScopeID(s)
  \/ \E o \in AtomicOrdering, s \in ScopeId : SetAtomic(o, s)
  \/ \E p \in Value, vs \in Values :
       CreateCall(p, vs) \/ \E flag \in BOOLEAN : CreateGetElementPtr(p, vs, flag)

Spec == Init /\ [][Next]_vars
-----------------------------------------------------------------------------
(* A branch goes where the program last sent it, after any mix of setters  *)
(* and swaps, though LLVM keeps its operands in the reverse order, and the *)
(* accessors of each kind agree with each other                            *)
(* (InstructionRefs.lean:95-162).                                          *)
BranchesAsAsked ==
  /\ kind = "condBr" =>
       /\ GetSuccessors = <<asked.ifTrue, asked.ifFalse>>
       /\ GetCondition = asked.cond
  /\ kind = "br" => GetSuccessors = <<asked.ifTrue>>

(* The operands of the other instructions are found where they were put,   *)
(* whatever their kind and number (InstructionRefs.lean:66, 193, 262-268,  *)
(* 346-360).                                                               *)
OperandsAsAsked ==
  /\ kind = "ret" => GetReturnValue = asked.value
  /\ kind = "load" => <<GetPointerOperand>> = asked.ops
  /\ kind = "store" => <<GetValueOperand, GetPointerOperand>> = asked.ops
  /\ kind = "getelementptr" =>
       /\ GetPointerOperand = asked.ptr /\ GetIndices = asked.indices
       /\ inbounds = asked.inbounds

(* The attributes of a load or store are independent of each other: each   *)
(* reads as what was last asked for, though three of them share a number   *)
(* (InstructionRefs.lean:197-232, 270-305: "Set the alignment of the       *)
(* memory access being preformed").                                        *)
AccessAsAsked ==
  kind \in {"load", "store"} =>
    /\ GetVolatile = asked.volatile
    /\ GetAlign = asked.align
    /\ GetOrdering = asked.ordering
    /\ ssid = asked.ssid
=============================================================================
