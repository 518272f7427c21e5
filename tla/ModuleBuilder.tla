--------------------------- MODULE ModuleBuilder ---------------------------
(***************************************************************************)
(* Building one module: the monadic builders of Builders.lean (the script  *)
(* language expands to them) over the lists and the symbol table that LLVM *)
(* keeps in the module.                                                    *)
(*                                                                         *)
(* `define` and `label` take the code of their body as an argument and run *)
(* it with a new current block; when the body returns the block that was   *)
(* current before is current again.  An IO error in a body leaves every    *)
(* builder up to the one that catches it; LLVM undoes nothing.             *)
(*                                                                         *)
(* Programs may also make objects on their own, which are in no list, and  *)
(* append them later (test/main/program.lean), in between and within the   *)
(* bodies of builders.  The contexts that bodies run in are those that     *)
(* builders make: no program hands one of its own to runIn.                *)
(*                                                                         *)
(* What an instruction does with its operands is left out: a branch may go *)
(* to any block, the one it is in and the entry of its function included.  *)
(***************************************************************************)
EXTENDS Naturals, Sequences, Functions

CONSTANTS
  Fun,        \* llvm::Function objects
  Glob,       \* llvm::GlobalVariable objects
  Block,      \* llvm::BasicBlock objects
  Inst,       \* llvm::Instruction objects
  Name,       \* names programs give
  NoName,     \* the empty name
  None,       \* no value
  MaxSuffix,  \* bound: suffixes LLVM adds to a name that is taken
  MaxDepth    \* bound: builders running inside one another

ASSUME SymbolAssumption ==
  /\ Fun \cap Glob = {} /\ (Fun \cup Glob) \cap Block = {}
  /\ Inst \cap (Fun \cup Glob \cup Block) = {}
  /\ None \notin Fun \cup Glob
ASSUME NameAssumption == \A n \in Name, i \in 0 .. MaxSuffix : NoName # <<n, i>>
ASSUME BoundAssumption == MaxSuffix \in Nat /\ MaxDepth \in Nat

Symbol == Fun \cup Glob

(* A name, and the number LLVM has added to make it unique. *)
FullName == (Name \X (0 .. MaxSuffix)) \cup {NoName}

VARIABLES
  functions,  \* the function list of the module
  globals,    \* the global variable list of the module
  name,       \* the name of a symbol
  created,    \* the functions, variables, blocks and instructions made
  loose,      \* those of them that a program made and has not appended
  blocks,     \* the block list of a function
  code,       \* the instruction list of a block
  frames      \* the BasicBlockContexts of the running bodies

vars == <<functions, globals, name, created, loose, blocks, code, frames>>

Frame == [fun : Fun, block : Block]

(* The types of the variables: functions, variables, blocks and            *)
(* instructions are each in the list of their own kind (module.cpp:125-146,*)
(* function.cpp:49-55, basic_block.cpp:38-44).                             *)
TypeOK ==
  /\ functions \in Seq(Fun)
  /\ globals \in Seq(Glob)
  /\ name \in [Symbol -> FullName]
  /\ created \in SUBSET (Symbol \cup Block \cup Inst)
  /\ loose \in SUBSET created
  /\ blocks \in [Fun -> Seq(Block)]
  /\ code \in [Block -> Seq(Inst)]
  /\ frames \in Seq(Frame)

Init ==
  /\ functions = << >>
  /\ globals = << >>
  /\ name = [s \in Symbol |-> NoName]
  /\ created = {}
  /\ loose = {}
  /\ blocks = [f \in Fun |-> << >>]
  /\ code = [b \in Block |-> << >>]
  /\ frames = << >>
-----------------------------------------------------------------------------
(* What the module's symbol table holds. *)
Symbols == Range(functions) \cup Range(globals)

(* Variant with a bug: every name is given as it is. *)
UniqueAsGiven(s, n) == IF n = NoName THEN {NoName} ELSE {<<n, 0>>}

(* The names s can get when it enters the symbol table, or is renamed in   *)
(* it, with the name n: n itself, or n with a number if n is taken.        *)
Unique(s, n) ==
  LET taken == {name[t] : t \in Symbols \ {s}} IN
  IF n = NoName THEN {NoName}
  ELSE IF <<n, 0>> \notin taken THEN {<<n, 0>>}
  ELSE {<<n, i>> : i \in 1 .. MaxSuffix} \ taken

(* A name as it is given to a loose object, and back. *)
Plain(n) == IF n = NoName THEN NoName ELSE <<n, 0>>
Given(u) == IF u = NoName THEN NoName ELSE u[1]

(* getFunction: the function of that name, if the name is a function's. *)
GetFunction(n) ==
  IF \E f \in Range(functions) : name[f] = <<n, 0>>
  THEN CHOOSE f \in Range(functions) : name[f] = <<n, 0>>
  ELSE None

(* The block that instructions are appended to. *)
Top == frames[Len(frames)]

(* Variant with a bug: the block goes to the front of the list. *)
WithBlockInFront(f, b) == [blocks EXCEPT ![f] = <<b>> \o @]

(* The lists of blocks once b is appended to that of f. *)
WithBlock(f, b) == [blocks EXCEPT ![f] = Append(@, b)]

(* Variant with a bug: the variable goes to the other list. *)
AddGlobalToFunctions(g, n) ==
  /\ g \notin created
  /\ created' = created \cup {g}
  /\ functions' = Append(functions, g)
  /\ \E u \in Unique(g, n) : name' = [name EXCEPT ![g] = u]
  /\ UNCHANGED <<globals, loose, blocks, code, frames>>

(* globalVar, globalVarInit, string, globalConst: a new variable, appended *)
(* to the module.                                                          *)
AddGlobal(g, n) ==
  /\ g \notin created
  /\ created' = created \cup {g}
  /\ globals' = Append(globals, g)
  /\ \E u \in Unique(g, n) : name' = [name EXCEPT ![g] = u]
  /\ UNCHANGED <<functions, loose, blocks, code, frames>>

(* declare: a new function, appended to the module. *)
Declare(f, n) ==
  /\ f \notin created
  /\ created' = created \cup {f}
  /\ functions' = Append(functions, f)
  /\ \E u \in Unique(f, n) : name' = [name EXCEPT ![f] = u]
  /\ UNCHANGED <<globals, loose, blocks, code, frames>>

(* Variant with a bug: the function is not appended before the body runs.  *)
DefineUnattached(f, b, n) ==
  /\ f \notin created /\ b \notin created
  /\ Len(frames) < MaxDepth
  /\ created' = created \cup {f, b}
  /\ blocks' = WithBlock(f, b)
  /\ \E u \in Unique(f, n) : name' = [name EXCEPT ![f] = u]
  /\ frames' = Append(frames, [fun |-> f, block |-> b])
  /\ UNCHANGED <<functions, globals, loose, code>>

(* define, up to its body: a new function with an entry block is appended  *)
(* to the module, then the body starts in that block.                      *)
Define(f, b, n) ==
  /\ f \notin created /\ b \notin created
  /\ Len(frames) < MaxDepth
  /\ created' = created \cup {f, b}
  /\ blocks' = WithBlock(f, b)
  /\ functions' = Append(functions, f)
  /\ \E u \in Unique(f, n) : name' = [name EXCEPT ![f] = u]
  /\ frames' = Append(frames, [fun |-> f, block |-> b])
  /\ UNCHANGED <<globals, loose, code>>

(* Variant with a bug: the block is not appended before the body runs. *)
LabelUnattached(b) ==
  /\ frames # << >> /\ Len(frames) < MaxDepth
  /\ b \notin created
  /\ created' = created \cup {b}
  /\ frames' = Append(frames, [Top EXCEPT !.block = b])
  /\ UNCHANGED <<functions, globals, name, loose, blocks, code>>

(* label, up to its body: a new block is appended to the current function, *)
(* then the body starts in that block.                                     *)
Label(b) ==
  /\ frames # << >> /\ Len(frames) < MaxDepth
  /\ b \notin created
  /\ created' = created \cup {b}
  /\ blocks' = WithBlock(Top.fun, b)
  /\ frames' = Append(frames, [Top EXCEPT !.block = b])
  /\ UNCHANGED <<functions, globals, name, loose, code>>

(* Variant with a bug: the code that follows a label stays in its block. *)
ReturnInBlock ==
  /\ frames # << >>
  /\ LET rest == SubSeq(frames, 1, Len(frames) - 1)
         outer == Len(rest)
     IN  frames' = IF rest # << >> /\ rest[outer].fun = Top.fun
                   THEN [rest EXCEPT ![outer].block = Top.block]
                   ELSE rest
  /\ UNCHANGED <<functions, globals, name, created, loose, blocks, code>>

(* The body of a builder returns, and what called it goes on. *)
Return ==
  /\ frames # << >>
  /\ frames' = SubSeq(frames, 1, Len(frames) - 1)
  /\ UNCHANGED <<functions, globals, name, created, loose, blocks, code>>

(* The body of a builder fails: the error leaves builders up to the one    *)
(* whose code catches it.                                                  *)
Throw ==
  /\ \E k \in 0 .. Len(frames) - 1 : frames' = SubSeq(frames, 1, k)
  /\ UNCHANGED <<functions, globals, name, created, loose, blocks, code>>

(* ret, br, condBr, load, store, getElementPtr, call...: a new instruction *)
(* is appended to the current block.                                       *)
Emit(i) ==
  /\ frames # << >>
  /\ i \notin created
  /\ created' = created \cup {i}
  /\ code' = [code EXCEPT ![Top.block] = Append(@, i)]
  /\ UNCHANGED <<functions, globals, name, loose, blocks, frames>>

(* ValueRef.setName on a symbol of the module, or on a loose one, which    *)
(* has its name to itself.                                                 *)
SetName(s, n) ==
  /\ s \in created
  /\ name[s] # <<n, 0>>
  /\ \E u \in IF s \in loose THEN {Plain(n)} ELSE Unique(s, n) :
       name' = [name EXCEPT ![s] = u]
  /\ UNCHANGED <<functions, globals, created, loose, blocks, code, frames>>

(* FunctionRef.create, GlobalVariableRef.new: a symbol in no list. *)
CreateSymbol(s, n) ==
  /\ s \notin created
  /\ created' = created \cup {s}
  /\ loose' = loose \cup {s}
  /\ name' = [name EXCEPT ![s] = Plain(n)]
  /\ UNCHANGED <<functions, globals, blocks, code, frames>>

(* BasicBlockRef.create, and the constructors of instructions: an object   *)
(* in no list.                                                             *)
CreateLoose(o) ==
  /\ o \notin created
  /\ created' = created \cup {o}
  /\ loose' = loose \cup {o}
  /\ UNCHANGED <<functions, globals, name, blocks, code, frames>>

(* Variant with a bug: the symbol enters the table with the name it has. *)
AppendSymbolAsNamed(s) ==
  /\ s \in loose
  /\ loose' = loose \ {s}
  /\ IF s \in Fun
     THEN functions' = Append(functions, s) /\ UNCHANGED globals
     ELSE globals' = Append(globals, s) /\ UNCHANGED functions
  /\ UNCHANGED <<name, created, blocks, code, frames>>

(* appendFunction, appendGlobalVariable: the symbol enters the table, and  *)
(* gets another name if its own is taken.  Programs append a loose object  *)
(* only: nothing checks that, and LLVM would break its list.               *)
AppendSymbol(s) ==
  /\ s \in loose
  /\ loose' = loose \ {s}
  /\ IF s \in Fun
     THEN functions' = Append(functions, s) /\ UNCHANGED globals
     ELSE globals' = Append(globals, s) /\ UNCHANGED functions
  /\ \E u \in Unique(s, Given(name[s])) : name' = [name EXCEPT ![s] = u]
  /\ UNCHANGED <<created, blocks, code, frames>>

(* appendBasicBlock, on a function in the module or not. *)
AppendBasicBlock(b, f) ==
  /\ b \in loose /\ f \in created
  /\ loose' = loose \ {b}
  /\ blocks' = WithBlock(f, b)
  /\ UNCHANGED <<functions, globals, name, created, code, frames>>

(* appendInstruction, on a block in a function or not. *)
AppendInstruction(i, b) ==
  /\ i \in loose /\ b \in created
  /\ loose' = loose \ {i}
  /\ code' = [code EXCEPT ![b] = Append(@, i)]
  /\ UNCHANGED <<functions, globals, name, created, blocks, frames>>

Next ==
  \/ \E n \in Name \cup {NoName} :
       \/ \E g \in Glob : AddGlobal(g, n)
       \/ \E f \in Fun : Declare(f, n)
       \/ \E f \in Fun, b \in Block : Define(f, b, n)
       \/ \E s \in Symbol : SetName(s, n) \/ CreateSymbol(s, n)
  \/ \E s \in Symbol : AppendSymbol(s)
  \/ \E b \in Block :
       \/ Label(b)
       \/ \E f \in Fun : AppendBasicBlock(b, f)
       \/ \E i \in Inst : AppendInstruction(i, b)
  \/ \E o \in Block \cup Inst : CreateLoose(o)
  \/ Return
  \/ Throw
  \/ \E i \in Inst : Emit(i)

Spec == Init /\ [][Next]_vars
-----------------------------------------------------------------------------
(* What was made is in one list of one made owner, once, or it is loose. *)
Placed(owner, element, list) ==
  LET listed == UNION {Range(list[o]) : o \in owner \cap created} IN
  /\ created \cap element = listed \cup (loose \cap element)
  /\ listed \cap loose = {}
  /\ \A o \in owner : IsInjective(list[o])
  /\ \A o, p \in owner : o # p => Range(list[o]) \cap Range(list[p]) = {}

(* Whatever fails in whichever body, all that was made is in the module:   *)
(* nothing is made twice, in two places, or left where no module frees it, *)
(* but for what a program made itself and has not appended yet             *)
(* (Builders.lean:93-98 and 108-110: appended before the body runs;        *)
(* 115-173: instructions are appended as they are made).                   *)
EverythingAttached ==
  /\ created \cap Symbol = Symbols \cup (loose \cap Symbol)
  /\ Symbols \cap loose = {}
  /\ IsInjective(functions) /\ IsInjective(globals)
  /\ Placed(Fun, Block, blocks)
  /\ Placed(Block, Inst, code)

(* The body of a builder runs in a block of the function it is building,   *)
(* and that function is in the module, so that instructions never go to a  *)
(* block that printing or verifying the module would not see.              *)
BodiesRunInModule ==
  \A k \in DOMAIN frames :
    /\ frames[k].fun \in Range(functions)
    /\ frames[k].block \in Range(blocks[frames[k].fun])

(* A function starts where the body given to `define` does: whatever that  *)
(* body nests, whichever parts of it fail, and whatever loose blocks are   *)
(* appended meanwhile, that body runs in the first block of the function,  *)
(* which LLVM takes for its entry, and the body of a label in a block      *)
(* behind that of the body around it (Builders.lean:93-98, 107-110).       *)
EntryComesFirst ==
  \A k \in DOMAIN frames :
    LET list == blocks[frames[k].fun]
        nested == k > 1 /\ frames[k - 1].fun = frames[k].fun
    IN  /\ ~ nested => list # << >> /\ list[1] = frames[k].block
        /\ nested => \E i, j \in DOMAIN list :
             i < j /\ list[i] = frames[k - 1].block /\ list[j] = frames[k].block

(* The symbol table is a table: no two symbols of a module have the same   *)
(* name, so that getFunction does not have a choice (module.cpp:103-123).  *)
NamesAreUnique ==
  \A s, t \in Symbols : name[s] = name[t] /\ name[s] # NoName => s = t

(* What a name stands for is stable: getFunction keeps returning the       *)
(* function it returned, whatever is added under the same name later, in   *)
(* whichever body, until that function itself is renamed (Jit.lean:9,      *)
(* module.cpp:103-123).                                                    *)
LookupsAreStable ==
  [][\A n \in Name : LET f == GetFunction(n) IN
       \/ f = None
       \/ GetFunction(n)' = f
       \/ \E m \in Name \cup {NoName} : SetName(f, m)]_vars

(* When a body returns or fails, the code around it goes on in the block   *)
(* it was in (test/out/script/program.lean, lean_select: instructions that *)
(* follow two labels).                                                     *)
BodiesAreBracketed ==
  [][\A k \in DOMAIN frames \cap DOMAIN frames' : frames'[k] = frames[k]]_vars
=============================================================================
