# A TLA+ model of Papyrus

Papyrus is a Lean 4 interface to LLVM 12. Its C++ side (`src/c`) wraps LLVM
objects in Lean objects; its Lean side (`src/Papyrus`) declares the C++
functions with `extern`, adds pure descriptions of types, monadic builders for
modules, and a script language that expands to the builders. Nothing in it runs
concurrently. What is hard to test is elsewhere:

- two programs, compiled separately, share reference counts, argument orders,
  enumerations and number representations that only a declaration relates;
- LLVM owns objects in its own way (a context owns its modules, an engine
  believes it owns a module, a symbol table renames what it is given), and Lean
  code may drop what it holds in any order;
- bodies of builders nest, and may fail midway;
- numbers cross three representations with different widths and signs.

The modules below model the state that carries these, one module per part.

## Inventory

| Part | Code | State | Operations | Correct when | Status |
|---|---|---|---|---|---|
| Reference counting | `c/include/papyrus_ffi.h`, `Papyrus/FFI.lean`, every `c/src/*.cpp` that makes a reference | counts in object headers, links from references to contexts, what LLVM context owns what | make a context, wrap an object in it, derive references and arrays of them, share, drop | nothing is freed while it is needed, and everything is freed when it is not | modelled, proved |
| Execution engines | `c/src/execution_engine.cpp`, `Papyrus/ExecutionEngineRef.lean`, `c/src/init.cpp` | engines, the modules they note and own, the native target | create (both outcomes), run a function, finalize, initialize the target | no module dies with an engine, functions that are held can be run | modelled, proved |
| Module builders | `Papyrus/Builders.lean`, `c/src/module.cpp`, `function.cpp`, `basic_block.cpp`, `value.cpp` | the lists of a module, its symbol table, the stack of running bodies, objects in no list | add a variable, declare, define, label, instructions, rename; make an object and append it later; a body returns or fails | everything made is in the module once, names are unique, control stays in its function | modelled, but for the names of blocks and instructions; proved |
| Global variables | `c/src/global.cpp`, `global_variable.cpp`, `IR/Global*.lean` | the attributes LLVM stores | four constructors, eleven setters, the getters | an attribute reads as last written | modelled, proved |
| Types | `c/src/type.cpp`, `IR/Type*.lean` | the struct types of a context, their names and bodies | create, get or create, rename, set the body, `getRef`, `purify`, for every kind of type | names are unique, pure types survive the round trip, types do not change under their users | modelled, proved |
| Numbers and generic values | `c/src/adt.cpp`, `generic_value.cpp`, `constant.cpp`, `Papyrus/GenericValueRef.lean`, `IR/ConstantRefs.lean`, `IR/TypeBases.lean` | Nat and Int objects, strings, APInts, the payload of a generic value, the data of a string constant | to LLVM and back, floats, arrays, strings, the masks of integer types | truncated or extended to fit, and read back | modelled, but for constant expressions, which LLVM computes; proved |
| Instructions | `c/src/instruction.cpp`, `IR/InstructionRefs.lean`, `IR/Align.lean` | operands, packed attribute bits | constructors, setters, getters | each accessor finds what was put there | modelled, proved |
| Running `main` | `c/src/execution_engine.cpp:107-195`, `Script/Jit.lean` | the argv and envp arrays | check the signature, convert, run, return the code | `main` sees the arguments it was given, Lean's strings stay, codes come back | modelled, proved |
| Enumerations and casts | `Internal/Enum.lean`, `ValueKind.lean`, `InstructionKind.lean`, `CallingConvention.lean`, `ValueRef.lean`, `InstructionRef.lean`, `FunctionRef.lean`; `IR/TypeID.lean` | the type of a reference, bits of a function | decode an index, forget and win back a type | a reference never claims a class its value has not | modelled but for the casts of types; proved |
| Script language | `Papyrus/Script/*` | none of its own | expands to builders | | not modelled: syntax |
| Files, printing, verification, build | `c/src/bitcode.cpp`, `memory_buffer.cpp`, the `dump`, `print` and `verify` functions, Makefiles | none | I/O | | not modelled, except who owns a parsed module and its context |

How they interact: all parts hold LLVM objects through the references of the
first part, so `ExecutionEngine` extends `LinkedRefs` and `RunMain` extends
`ExecutionEngine`: a script makes an engine, runs `main` in it and drops it, while
the program may hold and drop references to the same module before and after. The
builders call the constructors of instructions and global variables with fresh
objects. A reference to an instruction is one to a value, so `ValueRefs` extends
`Instructions`, and takes strings from `LeanStrings`; `IntegerConstants` extends
`GenericValues` with the masks that have to agree with its constants. The other modules are about the contents of one object or one
context, and share no variable with the rest.

## Modules

### OwnershipContract, LinkedRefs

`OwnershipContract` says what Papyrus promises about lifetimes without a count:
what exists is what Lean code holds plus the contexts that is linked to; what is
collected is deleted at once, and a deleted context is never used again.

`LinkedRefs` is the implementation. The header count of an object (`rc`) follows
the C++ source line by line; `held` follows what the Lean compiler believes after
reading the declaration: an argument without `@&` is handed over, one with `@&`
is lent. `link`, `target` and `home` are the link of a reference, the object it
points to and the LLVM context that owns that object; `deleted` are the contexts
whose `LLVMContext` was deleted. Many bindings treat counts alike and are one
action: `GetFromContext` stands for the ones that take the context of `LlvmM` and
put it into the result, `Derive` for those that use `copyLink`, `DeriveArray` for
the loops with one increment for each element, `CreateCondBr` for the branch that
is linked through its condition. `ParseBitcode` has its error path. `TypeId`,
`GetContext`, `GetVectorType` and `GetTypeByName` are the bindings whose two
sides disagree; the count that is released by nobody goes to `lost`. They are
called when the constant `Mismatched` is TRUE.

The LLVM objects and `Share` (the Lean compiler's increments) are external.

### ExecutionEngine

Adds engines to `LinkedRefs`. `modules` is `EEExternal.modules`, which the
finalizer removes from the engine; `owned` is what LLVM deletes with it; `freed`
are modules deleted by an engine or a builder, so that a module is `Gone` when it
is freed or its context is deleted. An engine has no link: the context may be
dropped at any time.

### RunMain

Adds one variable, `call`. The Lean thread waits while a function runs, so while
`call` is not idle only the function itself (`Edit`, `Return`) and the return to Lean
(`Resume`) happen. `IsMainLike` are the checks of `runFunctionAsMain`, `JitRuns` what
MCJIT (external) does not abort on. `ArgvSet` is the array of pointers to copies; a
pointer names whose bytes it points to, so that `Edit` through it changes those of
Lean or of the copy. `JitMain` is `#jit`: it creates an engine, calls, and `Resume`
finalizes that engine.

### ModuleBuilder

The lists of a module and of its functions, the symbol table that gives a taken
name a number, and the stack `frames` of running bodies. `Define` and `Label` are
the builders up to their body, `Return` and `Throw` its two ends. A frame is the
`BasicBlockContext` of its body: the current function and block. The instruction
builders are one action `Emit`: they append a new instruction to the current block.
Operands are left out: nothing in the code limits where a branch goes, a body can
read the block it runs in from its context, and may well branch to the entry of its
function. `loose` are the objects that a program made with `create` or `new`
and has not appended; `CreateSymbol`, `CreateLoose` (blocks and instructions) and the
three append actions may come between and within bodies, as in
`test/main/program.lean`. A symbol enters the table, and may be renamed, when it is
appended. The contexts are those that builders make; a program that calls `runIn` with
one of its own is left out.

### GlobalAttributes

`attr` is what LLVM stores after the casts and switches of `global.cpp`, `asked`
what the documented operation asks for. `Misfits` names the operations that do
not do what they are declared to do, of those a program calls:
`setThreadLocalMode` writes the DLL storage class, `removeInitializer` lacks an
argument, `ofConstant` ignores one.

### StructTypes

The identified structs of a context (made, named, with or without body) and types
of both sides as terms `<<kind, data, inside>>`: the kind of type, its own fields
(width, address space, length, flags, name) and the types inside, in the order in
which the code visits them. The thirteen kinds without fields are one, `Scalar`.

`Type.getRef` is a stack of calls, `making`: `CallGetRef` is the call of the program,
`GetRefInside` its calls of itself on the types inside, from left to right, and
`GetStructural` and `GetIdentified` the returns with the reference that LLVM or
`getOrCreate` gives. A frame holds the references that were returned to it so far.

`TypeRef.purify` goes the other way, on LLVM types that need not be finite. What it
returns is said by its inverse: `RefsOf(table)[t]` are the LLVM types that it lifts to
the pure type `t`, which is a recursion over `t`, and pure types are finite (Lean's
`Type` is inductive). `PurifyKind` and `Inside` are its branches and what it calls
itself on. Whether it ends is a question of its own: as an action it takes one
step (`LiftOne`) for each type it enters, and `todo` is what is left to enter, in the
order of the recursion.

`getRef` is only asked to survive the round trip for types that mean by each name what
the context means by it (`Agrees`): `getOrCreate` takes a struct with the name that it
is given, whatever its body. `SetBody` has the effect of its swapped parameters: a
flag used as a struct.

### GenericValues

Numbers as Lean objects (boxed or GMP), APInts as width and bits, with the
conversions of `adt.cpp` in between. `expected` and `meant` are the integers that
the documentation says these are. Words have `WordBits` bits and an `int` has
`IntBits`, so that one, two and three words and all boundaries are in reach. Null,
all-ones and `ofUIntN` constants are made of a width and bits alone. Powers of two
are a recursive function, `Pow2`, as `2 ^ n` is opaque to the provers.

### IntegerConstants

`bitMask`, `signBit` and `mask` of the pure integer types with the wrapping of their
`UInt64` arithmetic (a word of `WordBits` bits). They are compared with the constants
of `GenericValues` bit by bit.

### Instructions

One instruction: its operands in LLVM's order (those of a branch reversed, the
callee last) and `packed`, the unsigned short that holds volatility, alignment and
ordering of a load or store, as the set of its bits that are set.

### LeanStrings, ValueRefs

`LeanStrings` are the conversions between Lean string objects (bytes with a NUL
that the size counts, and a number of characters) and LLVM's. A byte is a pair of a
character and an index in it; a character has as many as the constant `Bytes` says.

`ValueRefs` is one value, an instruction of `Instructions` or a member of another
class, with the type of the reference Lean holds. `Forget` meets the value again
under a general type; `Cast` wins a type back by the decision the code makes, which
goes through the numbers LLVM gives to classes and opcodes (`ValueID`) and
the order of Lean's enumerations. For a function it has calling convention and
collector, which share a number, and for string constants the elements and what
`getAsString` makes of them. LLVM keeps an array of zeros as a `ConstantAggregateZero`,
which has no elements to read (`RawDataValues`): strings that are empty or all NUL are
not among those of the run, since `ReferencesAreOfTheirClass` fails of them (see below).

### The modules of proofs

`LinkedRefsProofs`, `ExecutionEngineProofs`, `RunMainProofs`, `ModuleBuilderProofs`,
`GlobalAttributesProofs`, `ValueRefsProofs` (with `Instructions` and `LeanStrings`),
`GenericValuesProofs` (with `IntegerConstants`) and `StructTypesProofs` extend the module
they are about.

### Operators marked "Variant with a bug"

Each module has a few operators that are not part of its specification. Each is a
plausible mistake in the operator that follows it, and stands there so that one
can put it in its place and see which property notices.

## What is checked

A run is named after its `.cfg` file and checks the MC module of its part:
`tlc -config MCLinkedRefsLeak.cfg MCLinkedRefs`. A program may always stop, so
deadlock is not checked. One process, no timers: the only fairness
assumed anywhere is `WF_vars(LiftOne)` in `StructTypes`, since `purify` runs in
the only thread and nothing else runs before it returns.

| Run | Distinct states | Shows |
|---|---|---|
| MCLinkedRefs | 475784 | `TypeOK`, `CountsConserved`, `NoDanglingRef`: whichever bindings are called, no reference outlives the context of its object. `ImplementsContract`: the counts are a garbage collector, if lost counts are roots |
| MCLinkedRefsLeak | violation | `NothingOutlivesItsUse` fails when the bindings are called whose sides disagree |
| MCExecutionEngine | 1140136 | `NothingOutlivesItsUse` holds for programs that do not call them. `ModuleRefsAreValid`, `HeldFunctionsRun`: engines give modules back in all orders of creation, failure and death, those of scripts included. `MainGetsItsParameters`, `LeanStringsStay`, `ExitCodesAreReturned`: the calls in between |
| MCExecutionEngineFinalizer | violation | `FinalizerFindsModules`: the context may go before the engine |
| MCModuleBuilder | 152079 | `EverythingAttached`, `BodiesRunInModule`: whatever fails, what was made is in one list, and bodies run where the module sees it; `EntryComesFirst`, `BodiesAreBracketed`: blocks lie in the order of the bodies, and code goes on where it was; `NamesAreUnique`, `LookupsAreStable` |
| MCGlobalAttributes | 599041 | `ReadsLastWrite`, `VisibilityFollowsLinkage` |
| MCGlobalAttributesThreadLocal | violation | `ThreadLocalModeAsAsked`: getter and setter are bound to another attribute |
| MCStructTypes | 1462386 | `NamesAreUnique`, `RoundTrips`, `StructsAreStable`, `FinitePurifyEnds` |
| MCStructTypesRecursive | violation | `PurifyEnds`: `purify` does not end on a recursive struct |
| MCGenericValues | 176715 | `TruncatedToFit`, `ReadsBack`, `NatsAreCanonical`; `MasksDescribeConstants`: Lean's own arithmetic on integer types agrees with LLVM's constants |
| MCGenericValuesPayload | violation | `PayloadReadsBack`: floats are not read back (nor are arrays) |
| MCInstructions | 3162 | `BranchesAsAsked`, `OperandsAsAsked`, `AccessAsAsked`; `ReferencesAreOfTheirClass`, `EveryTypeIsFoundAgain`: the casts are right and lose nothing; `FunctionAttributesAsAsked`, `StringsReadBack` |

Bounds, and why they are enough:

- *LinkedRefs*: two contexts, three references, three LLVM objects of which one is
  a module, counts up to 3. Two contexts are needed for a reference linked to the
  wrong one, three references for an array of two that shares the link of a third.
  Contexts, cells and plain objects are symmetric (the refinement is a safety
  property). The theorems below have no bound.
- *ExecutionEngine*: two engines over one module or two, in two contexts; two
  references and counts up to 2, so that the module, a function of it, and the
  engine can be dropped in every order. Contexts, cells and engines are symmetric.
- *RunMain*: i32 has 1 bit and MCJIT's widest integer 2, with return types of both
  widths, void and float, so that codes fit exactly, are cut, or are not numbers;
  every list of parameters that `main` may have, one too many, and a wrong type at
  each place; no argument or two; a `main` edits at most one string at a time.
- *ModuleBuilder*: two functions and a variable that may all want one name, three
  blocks and three instructions, nesting up to three deep: a body inside a body with
  code after it, and a third symbol of one name (`MaxSuffix` 2). Functions, blocks and
  instructions are symmetric: the properties are invariants and action properties and
  name none of them.
- *GlobalAttributes*: all constructors of the enumerations but linkages, of which
  one of each kind; alignments none, 1 and 2^29, the least and greatest; one
  initializer or none; two sections.
- *StructTypes*: three structs, two names with one number (`MaxSuffix` 1: two structs
  can want a name), two bodies (packed or not, pointing to a struct or holding one),
  fourteen pure types in which every kind occurs and that use a name once, twice in
  agreement or in disagreement, or not at all. That a type exists, or ends, is decided
  to `Depth` 8, deeper than any type without recursion here. The proofs have none of
  these bounds.
- *GenericValues*: words of 4 bits, ints of 3, widths on both sides of one, two and
  three words, numbers around all boundaries with both signs.
- *Instructions*: three blocks, two values, two indices or arguments, alignments 2^0,
  2, 8, 2^28 and 2^29.
- *ValueRefs*: a value of every class Papyrus has a reference type for; conventions
  0, 9, 101 and 1023, the least and greatest; two collectors and none; strings with
  characters of one and two bytes and with a NUL at the start and the end.

What programs are assumed to do, as nothing in the code checks it: they append an
object only while it is in no list, make a conditional branch of a condition and blocks
of one context, and run a function in an engine over a module of its context. Without
the second `NoDanglingRef` would fail: `papyrus_branch_inst_create` links the branch to
the context of its condition, while LLVM makes it in that of its blocks.

## What is proved

Every invariant and action property that a passing run checks holds for every value
of the constants. What a proof takes for
granted are the named assumptions of the modules:

| Module | Assumptions | They say |
|---|---|---|
| LinkedRefs | `ContextAssumption`, `ObjectAssumption`, `NoneAssumption`, `MaxRcAssumption`, `MismatchedAssumption` | finitely many cells, contexts are no cells, modules are objects, `None` is neither context nor object |
| ExecutionEngine | `WantedAssumption` | the three kinds of engine one can ask for |
| RunMain | `SizesAssumption`, `ListsAssumption`, `CallerAssumption`, `JitAssumption` | sizes are positive, lists are lists, callers are told apart; `jitMain` asks for either engine |
| ModuleBuilder | `SymbolAssumption`, `NameAssumption`, `BoundAssumption` | functions, variables, blocks and instructions are distinct, and so are names and no name |
| GlobalAttributes | `InitializerAssumption`, `SectionAssumption`, `AlignmentAssumption`, `MisfitAssumption` | alignments are none or a power of two up to 2^29, as LLVM's are |
| Instructions | `ShiftAssumption`, `ScopeAssumption` | `Align` is a power of two of 64 bits |
| LeanStrings, ValueRefs | `BytesAssumption`, `TextsAssumption` | a character has a byte or more, NUL has one |
| StructTypes | `SuffixAssumption`, `NameAssumption`, `PureAssumption`, `InductiveAssumption` | pure types are made of pure types and are finite: `InductiveAssumption` is the induction principle of Lean's `Type`; no name is a name, and `None` is no struct |
| GenericValues | `SizeAssumption`, `ValueAssumption` | an `int` has two bits or more and fewer than a word; integer types have a width |

and five hypotheses of theorems, each about a place where the code goes wrong without
it (see the next section): `~Mismatched` (no binding is called whose two sides
disagree), `"ofConstant" \notin Misfits`, `AlignsFit` and `ConventionsFit` (what does
not fit its field is not asked for), and `TextsHaveBytes` (a string constant is not
empty or all NUL).

### References and engines

`NoDanglingRef` and `NothingOutlivesItsUse` are not inductive: that a link is live
follows from its count being positive, and that from the count being owned. The
inductive invariant `IInv` is `TypeOK`, `CountsConserved` (header count = counts
held by Lean code + counts lost + links; and live exactly if positive) and
`LinksOwned` (a live reference is linked to a context and points to an object of that
context). Each action disturbs the three in few
places: an allocation adds a fresh cell to the links of one context and one count
to it; a drop of a last count removes one of each. Cardinality facts about
`LinkedTo` carry the counts. From `IInv`:

- `TypeCorrect`, `CountsAreConserved`: directly.
- `DeletedContextsAreDead`: a deleted context is not live, as `ContextNew` does not
  reuse it.
- `NoReferenceDangles`: a live reference's link has a positive count, so it is live,
  so it is not deleted; the object's home is the link.
- `NoLeak`: without the mismatched bindings `lost` stays zero, so a positive count
  is one that is held or one of a live, hence held, reference.
- `Refinement`: every state satisfies `live = Reachable(roots, link)`, every step
  keeps the links of cells that stay roots and links new ones to live contexts, and
  deletes the contexts that cease to be live: a step of the contract or a stutter.

For engines the invariant adds that an engine notes every module it owns, so that
`DropEngine` frees none, and `freed` stays empty (`TakenBack`): `EnginesKeepModules`
and `FunctionsRun` follow with `NoReferenceDangles`'s argument.

`RunImplementsEngine`: every step of a program that calls functions is a step of
`ExecutionEngine` or changes nothing of it, so that all of these hold for `RunMain` too
(`EngineTypesOfRuns`, `RunsKeepModules`, `RunsFindModules`, `RunsLeakNothing`).

### Calls

`CallInv` says that a call that was entered has a signature that was let pass and the
values `MainArgs` makes for it (`EnteredAsAsked`), that the result has a type of
results, that Lean's strings are as they were, and that a code is what was returned.
`ParametersGiven` goes through the three parameters of a main; `StringsStay` needs
that no pointer in argv names Lean's bytes, which is how `ArgvSet` copies;
`CodesReturned` that an integer that fits is what is left of it after it is cut.

### Builders

`BuilderInv`: a symbol, block or instruction that was made is in one list once or loose
(`SymbolsListed`, and `BlocksListed` and `CodeListed`, which are `Kept` for the two kinds
of lists), bodies run in blocks of functions of the module, and those lie in the order
of the bodies. `EntryComesFirst` needs the lists: a new function has no block yet, as one
that is not made owns none, so that the block `define` appends is its first. All
steps only add to the end of lists (`Extends`), so the running bodies stay where they
are (`Grown`); what is left for `Define` and `Label` is the one new frame (`RunsInModule`,
`RunsInEntry`, `RunsBehind`), and `Return` and `Throw` leave a prefix of the stack.
`NamesUnique` rests on `Unique` never giving a name that is taken; the action properties
`LookupsStable` and `Bracketed` on the invariant before and after the step.

### Global variables

`AttributesInv` is that types fit, visibility follows linkage, and each attribute reads
as it was set. The lemmas are that each encoding is undone by its decoding
(`AlignmentRoundTrip` and the like), and that a setter changes one attribute.

### Instructions, references and strings

`RefInv` names the operands and fields of each kind of instruction in terms of what was
asked (`BranchKept`, `OperandsKept`, `AccessKept`), the classes and types that go together
(`ClassKept`, `RefKept`) and the two attributes of a function (`FunctionKept`). That a
field reads as written, and the others as before, is a statement about sets of bits:
`BitsDiffer` (no two numbers have the same bits, from powers of two), `FieldReads`,
`FieldKept`. `DecidedIsRight` goes through the tables: the decisions that casts
make are right for a value exactly if the type is one of its types.

For `StringsRead` the recursive function in `Utf8` is shown to exist (`BytesExist`) and to
be determined (`BytesAgree`); a string has as many first bytes as characters
(`StringsHaveBytes`), and a character more adds its bytes at the end (`StringExtended`).
`TextKept` then relates bytes and text to the characters that were given.

### Numbers

`NumbersInv` is the conjunction of the four invariants of `GenericValues`: each
conversion needs the APInt or object it starts from to be what it should. The lemmas
are about powers of two, the least number of bits, remainders (of a negation; of a
remainder) and `Signed`. The case that the proof needs and a test would miss is
the least signed number: its magnitude is its own negation. `MasksAgree` follows
from the invariant with the bits of `Pow2[w] - 1` and of a shifted word; it speaks of
`mask` for every width, of `bitMask` and `signBit` for widths up to a word.

### Types

That `RoundTrips` holds when `getRef` returns follows from what it did before, so the
invariant `TypesInv` adds to the three invariants of `StructTypes`:

- `FramesOK`: each frame of `getRef` makes a part of the type that was asked for, the
  first that type itself, and each other one what the frame around it needs next;
- `MadeSoFar`: if the type agreed with the context when `getRef` was called it still
  does, and every reference in a frame is lifted to the type inside that it stands for.

`RefsEquation` is that `RefsOf` is the fixed point of `LiftedTo`. The function is
proved to exist by `InductiveAssumption`: it exists on a set of types that is closed
under what is inside (`RefsExist`), and on any two such sets it is the same
(`RefsAgree`). With it:

- a new struct changes nothing that is lifted already (`RefsGrow`), as only structs of
  the table are lifted and those keep their names and bodies: what was made so far
  stays right, and so does the agreement (`AgreesGrow`);
- a new struct is lifted to the type it was made of (`NewLifted`), since its name is
  the one that was asked for: no struct had it (`NotFoundIsFree`);
- a struct that is found is lifted to that type because the type agrees with the
  context; the agreement is kept, since a type that gives its names one meaning
  finds, for a name it used before, what it made of the same type.

`TypeCorrect`, `NamesUnique` and `PureTypesRoundTrip` follow from `TypesInv`. `LiftedOnce`
says that the round trip is one: no LLVM type is lifted to two pure types, so two
pure types that survive the round trip have two LLVM types. `StructsStable` is about
steps: every action but `SetName` puts a struct in the table that was not in it.

### Induction

The library's induction theorems take an operator, which the provers at hand cannot
instantiate. Well-foundedness of `<` does not: `LeastNumber` says that every nonempty
set of numbers has a least element, and inductions are by the least counterexample.
In this way `Pow2` and `Utf8`, which are recursive functions, are proved to exist and to
satisfy their equations. Inductions over types are by `InductiveAssumption`, which
speaks of sets (`TypeInduction`); no module that is proved about has a recursive
operator.

### Only model-checked

- `FinitePurifyEnds` is a liveness property under fairness, out of the provers' reach.
- The properties of the violation runs, which do not hold.

## Where code and documentation disagree

The five violation runs show, each by a behaviour of the model:

1. `TypeRef.typeID`, `TypeRef.getContext`, the vector type getters and
   `getTypeByName?` of a free name leak a count, and so the whole context
   (`FFI.lean:20-21`: "deleted upon being garbage collected").
2. An engine's finalizer removes modules that its context may have deleted
   (`execution_engine.cpp:29-31`).
3. `getThreadLocalMode` and `setThreadLocalMode` are bound to the functions of the
   DLL storage class (`GlobalRefs.lean:62-70`).
4. `purify` does not end on recursive structs (`Type.lean:103-104`).
5. `ofFloat` writes a `double` and `toFloat` reads a `float`
   (`generic_value.cpp:59`, `67`); `ofArray` fills a vector behind its end
   (`generic_value.cpp:77-79`), also excluded by `PayloadReadsBack`.

The models also contain, without a run of their own:

- `ofConstant` drops `isConstant` (add `"ofConstant"` to `Misfits`, and
  `ReadsLastWrite` fails);
- `removeInitializer` and `setBody` call C++ functions with other parameters than
  they declare, and crash; `getAsString` and `print` too, where it does no harm;
- an `Align` of 2^32 or more does not fit LLVM's field (add 32 to `ShiftVal`, and
  `AccessAsAsked` fails), nor does a `CallingConvention` over 1023, which
  the open enumeration admits;
- `bitMask` is not "just every bit" (`TypeBases.lean:34`) for widths from 65 to 127;
- `runFunctionAsMain` says that `main` returns an `i32`
  (`ExecutionEngineRef.lean:86-91`) and accepts any integer and void: wider codes are
  cut, a code after void is whatever the `GenericValue` holds, and MCJIT aborts on
  some of the signatures that were let pass;
- `ofString` of a string that is empty or all NUL (`""` with its NUL is one) makes a
  `ConstantAggregateZero` under a reference whose type says `ConstantDataArray`
  (`ConstantRefs.lean:155`), and `getAsString` casts it unchecked (`constant.cpp:164`,
  `179`): add `<< >>` to `Texts`, and `ReferencesAreOfTheirClass` fails at once, and
  `StringsReadBack` after it;
- the proof in a `LabelTypeRef` says `void` (`TypeRefs.lean:25`); nothing uses it.

## Not modelled

- Constant expressions: LLVM computes them; only their references occur.
- The casts of types by `TypeID`: the same scheme as the casts of values, on one
  enumeration.
- The names of blocks and instructions: a table for each function like the one of
  the module.
- The expansion of the script language: syntax, whose result are calls of the
  builders and of `jitMain`.
- File errors (`bitcode.cpp:17`, `memory_buffer.cpp:22`), printing, verification and
  the remaining target functions: I/O, or one call of LLVM.
