----------------------------- MODULE LinkedRefs -----------------------------
(***************************************************************************)
(* Reference counting of the external objects Papyrus gives to Lean.       *)
(*                                                                         *)
(* Two parties maintain the counts.  The C++ side increments, decrements   *)
(* and transfers them as its source says (variable rc).  The code the Lean *)
(* compiler emits believes the `extern` declaration: an argument that is   *)
(* not marked @& is handed over, one that is marked @& is only lent        *)
(* (variable held: the counts Lean code believes it owns).  A count that   *)
(* one side hands over and the other never releases is recorded in lost.   *)
(*                                                                         *)
(* A ContextRef is an OwnedPtr whose finalizer deletes the LLVMContext     *)
(* and all it owns.  ModuleRef, TypeRef and ValueRef are LinkedPtrs: a     *)
(* cell with a counted link to a ContextRef and an unmanaged pointer to an *)
(* LLVM object of some context.                                            *)
(***************************************************************************)
EXTENDS Naturals, FiniteSets

CONSTANTS
  Context,     \* LLVM contexts
  Cell,        \* Lean LinkedPtr objects (storage that may be used again)
  Object,      \* LLVM objects: modules, types, values
  Module,      \* the objects that are llvm::Module
  None,        \* no context, no object
  Mismatched,  \* whether programs call the operations whose Lean
               \* declaration and C++ code disagree on ownership
  MaxRc        \* bound: Lean code stops sharing an object at this count

ASSUME ContextAssumption == IsFiniteSet(Cell) /\ Context \cap Cell = {}
ASSUME ObjectAssumption == Module \subseteq Object
ASSUME NoneAssumption == None \notin Context /\ None \notin Object
ASSUME MismatchedAssumption == Mismatched \in BOOLEAN
ASSUME MaxRcAssumption == MaxRc \in Nat

VARIABLES
  live,      \* Lean objects that are allocated
  rc,        \* the reference count in the object's header
  held,      \* how many of those counts Lean code owns
  lost,      \* how many of those counts nobody will ever release
  link,      \* the context object a cell is linked to
  target,    \* the LLVM object a cell points to
  home,      \* the LLVM context that owns an LLVM object
  deleted    \* contexts whose LLVMContext has been deleted

vars == <<live, rc, held, lost, link, target, home, deleted>>

Node == Context \cup Cell

(* The types of the variables: counts are natural numbers (none is         *)
(* released more often than it was taken), links are contexts, targets     *)
(* LLVM objects.                                                           *)
TypeOK ==
  /\ live \in SUBSET Node
  /\ rc \in [Node -> Nat]
  /\ held \in [Node -> Nat]
  /\ lost \in [Node -> Nat]
  /\ link \in [Cell -> Context \cup {None}]
  /\ target \in [Cell -> Object \cup {None}]
  /\ home \in [Object -> Context \cup {None}]
  /\ deleted \in SUBSET Context

Init ==
  /\ live = {}
  /\ rc = [n \in Node |-> 0]
  /\ held = [n \in Node |-> 0]
  /\ lost = [n \in Node |-> 0]
  /\ link = [r \in Cell |-> None]
  /\ target = [r \in Cell |-> None]
  /\ home = [o \in Object |-> None]
  /\ deleted = {}

-----------------------------------------------------------------------------
(* lean_inc_ref *)
Inc(f, n) == [f EXCEPT ![n] = @ + 1]

(* A count leaves a holder. *)
Dec(f, n) == [f EXCEPT ![n] = @ - 1]

(* The cells whose link is c. *)
LinkedTo(c) == {r \in live \cap Cell : link[r] = c}

(* mkLinkedLoosePtr: the cells of S are allocated, each linked to c and    *)
(* pointing to an object of the LLVM context h.                            *)
MkLinked(S, c, f, h) ==
  /\ S \cap live = {}
  /\ live' = live \cup S
  /\ link' = [r \in Cell |-> IF r \in S THEN c ELSE link[r]]
  /\ target' = [r \in Cell |-> IF r \in S THEN f[r] ELSE target[r]]
  /\ home' = [o \in Object |-> IF \E r \in S : f[r] = o THEN h ELSE home[o]]

(* The objects an LLVM call in context h may return: new ones and old ones *)
(* of that context.                                                        *)
ObjectsOf(h) == {o \in Object \ Module : home[o] \in {None, h}}

(* Variant with a bug: the LLVMContext is deleted with the first count. *)
ReleaseContextAtOnce(c, L) ==
  /\ live' = IF rc[c] = 1 THEN L \ {c} ELSE L
  /\ deleted' = deleted \cup {c}

(* Releasing one count of the context c, where the live objects without it *)
(* are L: the last count runs deleteFinalize<LLVMContext>.                 *)
ReleaseContext(c, L) ==
  IF rc[c] = 1
  THEN /\ live' = L \ {c}
       /\ deleted' = deleted \cup {c}
  ELSE /\ live' = L
       /\ UNCHANGED deleted
-----------------------------------------------------------------------------
(* ContextRef.new: papyrus_context_new. *)
ContextNew(c) ==
  /\ c \notin live \cup deleted
  /\ live' = live \cup {c}
  /\ rc' = [rc EXCEPT ![c] = 1]
  /\ held' = [held EXCEPT ![c] = 1]
  /\ UNCHANGED <<lost, link, target, home, deleted>>

(* Variant with a bug: the context is incremented although it was handed   *)
(* over.                                                                   *)
WrapInContextShared(c, r, o) ==
  /\ held[c] > 0
  /\ MkLinked({r}, c, [x \in {r} |-> o], c)
  /\ rc' = [Inc(rc, c) EXCEPT ![r] = 1]
  /\ held' = [Dec(held, c) EXCEPT ![r] = 1]
  /\ UNCHANGED <<lost, deleted>>

(* The operations in LlvmM take the ContextRef by lean_obj_arg and put it  *)
(* into the result: the caller's count becomes the link.                   *)
WrapInContext(c, r, o) ==
  /\ held[c] > 0
  /\ MkLinked({r}, c, [x \in {r} |-> o], c)
  /\ rc' = [rc EXCEPT ![r] = 1]
  /\ held' = [Dec(held, c) EXCEPT ![r] = 1]
  /\ UNCHANGED <<lost, deleted>>

(* Types, constants, basic blocks and return instructions made in a        *)
(* context, e.g. papyrus_get_void_type.                                    *)
GetFromContext(c, r) == \E o \in ObjectsOf(c) : WrapInContext(c, r, o)

(* ModuleRef.new: papyrus_module_new. *)
ModuleNew(c, r) ==
  \E m \in Module : home[m] = None /\ WrapInContext(c, r, m)

(* papyrus_module_parse_bitcode_from_buffer: a new module, or an error     *)
(* after the context that was handed over is released.                     *)
ParseBitcode(c, r) ==
  \/ ModuleNew(c, r)
  \/ /\ held[c] > 0
     /\ rc' = Dec(rc, c)
     /\ held' = Dec(held, c)
     /\ ReleaseContext(c, live)
     /\ UNCHANGED <<lost, link, target, home>>

(* getTypeByName?: papyrus_struct_type_get_type_by_name.  When the name is *)
(* taken the caller's count becomes the link; when it is not, `none` is    *)
(* returned and the count handed over is released by nobody.               *)
GetTypeByName(c, r) ==
  /\ Mismatched
  /\ \/ \E o \in ObjectsOf(c) : home[o] = c /\ WrapInContext(c, r, o)
     \/ /\ held[c] > 0
        /\ held' = Dec(held, c)
        /\ lost' = Inc(lost, c)
        /\ UNCHANGED <<live, rc, link, target, home, deleted>>
-----------------------------------------------------------------------------
(* Variant with a bug: the new reference only borrows the link. *)
DeriveBorrowing(a, r) ==
  /\ held[a] > 0
  /\ \E o \in ObjectsOf(home[target[a]]) :
       MkLinked({r}, link[a], [x \in {r} |-> o], home[target[a]])
  /\ rc' = [rc EXCEPT ![r] = 1]
  /\ held' = [held EXCEPT ![r] = 1]
  /\ UNCHANGED <<lost, deleted>>

(* Derive a reference from a borrowed one: copyLink increments the link of *)
(* the argument, LLVM returns an object of the argument's context.         *)
Derive(a, r) ==
  /\ held[a] > 0
  /\ \E o \in ObjectsOf(home[target[a]]) :
       MkLinked({r}, link[a], [x \in {r} |-> o], home[target[a]])
  /\ rc' = [Inc(rc, link[a]) EXCEPT ![r] = 1]
  /\ held' = [held EXCEPT ![r] = 1]
  /\ UNCHANGED <<lost, deleted>>

(* A conditional branch is made in the context of its targets and linked   *)
(* to the context of its condition.  LLVM requires operands of one         *)
(* context; nothing in Papyrus checks it, but programs keep to it here: if *)
(* they did not, NoDanglingRef would not hold.                             *)
CreateCondBr(cond, bb, r) ==
  /\ held[cond] > 0 /\ held[bb] > 0
  /\ home[target[cond]] = home[target[bb]]
  /\ \E o \in ObjectsOf(home[target[bb]]) :
       MkLinked({r}, link[cond], [x \in {r} |-> o], home[target[bb]])
  /\ rc' = [Inc(rc, link[cond]) EXCEPT ![r] = 1]
  /\ held' = [held EXCEPT ![r] = 1]
  /\ UNCHANGED <<lost, deleted>>

(* Variant with a bug: one increment for the whole array. *)
DeriveArrayCountedOnce(a, S) ==
  /\ held[a] > 0
  /\ \E f \in [S -> ObjectsOf(home[target[a]])] :
       MkLinked(S, link[a], f, home[target[a]])
  /\ rc' = [n \in Node |-> IF n \in S THEN 1
                           ELSE IF n = link[a] THEN rc[n] + 1 ELSE rc[n]]
  /\ held' = [n \in Node |-> IF n \in S THEN 1 ELSE held[n]]
  /\ UNCHANGED <<lost, deleted>>

(* packTypes, getFunctions, getInstructions...: an array of references,    *)
(* with one increment of the borrowed link for each element.               *)
DeriveArray(a, S) ==
  /\ held[a] > 0
  /\ \E f \in [S -> ObjectsOf(home[target[a]])] :
       MkLinked(S, link[a], f, home[target[a]])
  /\ rc' = [n \in Node |-> IF n \in S THEN 1
                           ELSE IF n = link[a] THEN rc[n] + Cardinality(S)
                           ELSE rc[n]]
  /\ held' = [n \in Node |-> IF n \in S THEN 1 ELSE held[n]]
  /\ UNCHANGED <<lost, deleted>>

(* The C++ code only borrows the argument that Lean hands over: its count  *)
(* is released by nobody.                                                  *)
LoseArgument(a, h) ==
  /\ Mismatched
  /\ h[a] > 0
  /\ held' = Dec(h, a)
  /\ lost' = Inc(lost, a)

(* TypeRef.typeID: papyrus_type_id. *)
TypeId(a) ==
  /\ LoseArgument(a, held)
  /\ UNCHANGED <<live, rc, link, target, home, deleted>>

(* TypeRef.getContext: papyrus_type_get_context. *)
GetContext(a) ==
  /\ held[a] > 0
  /\ rc[link[a]] < MaxRc
  /\ rc' = Inc(rc, link[a])
  /\ LoseArgument(a, Inc(held, link[a]))
  /\ UNCHANGED <<live, link, target, home, deleted>>

(* FixedVectorTypeRef.get and ScalableVectorTypeRef.get. *)
GetVectorType(a, r) ==
  /\ held[a] > 0
  /\ \E o \in ObjectsOf(home[target[a]]) :
       MkLinked({r}, link[a], [x \in {r} |-> o], home[target[a]])
  /\ rc' = [Inc(rc, link[a]) EXCEPT ![r] = 1]
  /\ LoseArgument(a, [held EXCEPT ![r] = 1])
  /\ UNCHANGED deleted
-----------------------------------------------------------------------------
(* Lean code keeps an object for a further use. *)
Share(n) ==
  /\ held[n] > 0
  /\ rc[n] < MaxRc
  /\ rc' = Inc(rc, n)
  /\ held' = Inc(held, n)
  /\ UNCHANGED <<live, lost, link, target, home, deleted>>

(* Lean code drops a context. *)
DropContext(c) ==
  /\ held[c] > 0
  /\ held' = Dec(held, c)
  /\ rc' = Dec(rc, c)
  /\ ReleaseContext(c, live)
  /\ UNCHANGED <<lost, link, target, home>>

(* Variant with a bug: the cell is freed, its link is not released. *)
DropCellKeepingLink(r) ==
  /\ held[r] > 0
  /\ held' = Dec(held, r)
  /\ rc' = Dec(rc, r)
  /\ link' = [link EXCEPT ![r] = IF rc[r] = 1 THEN None ELSE @]
  /\ target' = [target EXCEPT ![r] = IF rc[r] = 1 THEN None ELSE @]
  /\ live' = IF rc[r] = 1 THEN live \ {r} ELSE live
  /\ UNCHANGED <<lost, home, deleted>>

(* Lean code drops a linked pointer.  With its last count the cell is      *)
(* freed: nothing happens to what it points to, its link is released.      *)
DropCell(r) ==
  /\ held[r] > 0
  /\ held' = Dec(held, r)
  /\ IF rc[r] = 1
     THEN /\ rc' = Dec([rc EXCEPT ![r] = 0], link[r])
          /\ link' = [link EXCEPT ![r] = None]
          /\ target' = [target EXCEPT ![r] = None]
          /\ ReleaseContext(link[r], live \ {r})
     ELSE /\ rc' = Dec(rc, r)
          /\ UNCHANGED <<live, link, target, deleted>>
  /\ UNCHANGED <<lost, home>>

Next ==
  \/ \E c \in Context : ContextNew(c) \/ DropContext(c)
  \/ \E c \in Context, r \in Cell :
       \/ GetFromContext(c, r)
       \/ ModuleNew(c, r)
       \/ ParseBitcode(c, r)
       \/ GetTypeByName(c, r)
  \/ \E a, r \in Cell : Derive(a, r) \/ GetVectorType(a, r)
  \/ \E cond, bb, r \in Cell : CreateCondBr(cond, bb, r)
  \/ \E a \in Cell, S \in SUBSET Cell : DeriveArray(a, S)
  \/ \E a \in Cell : TypeId(a) \/ GetContext(a) \/ DropCell(a)
  \/ \E n \in Node : Share(n)

Spec == Init /\ [][Next]_vars
-----------------------------------------------------------------------------
(* The counts are conserved between the two parties: every count in a      *)
(* header is owned by Lean code, by a link, or by nobody; and an object    *)
(* exists exactly as long as it has a count (papyrus_ffi.h:80-110, the     *)
(* increments in type.cpp:36, module.cpp:89 and the declarations they      *)
(* answer).                                                                *)
CountsConserved ==
  /\ \A c \in Context : rc[c] = held[c] + lost[c] + Cardinality(LinkedTo(c))
  /\ \A r \in Cell : rc[r] = held[r] + lost[r]
  /\ \A n \in Node : n \in live <=> rc[n] > 0

(* No dangling reference: while a module, type or value reference exists,  *)
(* the context it is linked to exists, its LLVMContext has not been        *)
(* deleted, and what the reference points to is owned by that very context *)
(* (FFI.lean:31-32: the linked object "should not be deleted until this    *)
(* one is garbage collected by Lean").                                     *)
NoDanglingRef ==
  \A r \in live \cap Cell :
    /\ link[r] \in live /\ link[r] \notin deleted
    /\ target[r] \in Object /\ home[target[r]] = link[r]

(* An LLVM context whose references Lean code has all dropped has been     *)
(* deleted (FFI.lean:20-21: an OwnedPtr "is deleted upon being garbage     *)
(* collected").                                                            *)
NothingOutlivesItsUse ==
  \A n \in live : held[n] > 0 \/ \E r \in LinkedTo(n) : held[r] > 0

(* What Lean code holds, and what nobody can release any more, is what the *)
(* program keeps alive.                                                    *)
Contract == INSTANCE OwnershipContract WITH
              roots <- {n \in Node : held[n] + lost[n] > 0}

(* The counts implement garbage collection: every call is a step of the    *)
(* collector of OwnershipContract, the lost counts being roots for ever.   *)
ImplementsContract == Contract!Spec
=============================================================================
