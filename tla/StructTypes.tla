---------------------------- MODULE StructTypes ----------------------------
(***************************************************************************)
(* The types of one LLVM context, and the two directions between them and  *)
(* the pure inductive `Type` of Lean: `getRef` makes the LLVM type of a    *)
(* pure type, `purify` lifts an LLVM type to a pure one.                   *)
(*                                                                         *)
(* LLVM makes one type of each structure, except for identified structs:   *)
(* those are objects with a name that the context keeps unique and a body  *)
(* that can be set later.  So an LLVM type is a term over the identified   *)
(* structs, and a pure type is a tree.                                     *)
(***************************************************************************)
EXTENDS Naturals, SequencesExt, Functions

CONSTANTS
  Struct,      \* llvm::StructType objects that are not literal
  Name,        \* names programs give
  NoName,      \* the empty name
  None,        \* nothing
  Pure,        \* the pure types programs give to getRef, and those inside
  Body,        \* the bodies programs give to structs
  MaxSuffix    \* bound: suffixes LLVM adds to a name that is taken

ASSUME SuffixAssumption == MaxSuffix \in Nat

ASSUME NameAssumption == NoName \notin Name /\ None \notin Struct

VARIABLES
  table,    \* the structs of the context: made, their names and bodies
  making,   \* getRef: the types that are being made, the innermost last
  got,      \* what getRef returns, for which type, and whether that type
            \* agreed with the context when it was called
  todo,     \* purify: the types that are still to be lifted
  crashed   \* a call took an argument for what it is not

vars == <<table, making, got, todo, crashed>>

(* A name, and the number LLVM has added to make it unique. *)
FullName == (Name \cup {NoName}) \X (0 .. MaxSuffix)

(* The body of a struct: hasBody tells opaque structs. *)
NoBody == [hasBody |-> FALSE, elements |-> << >>, isPacked |-> FALSE]
BodyOf(ts, isPacked) == [hasBody |-> TRUE, elements |-> ts, isPacked |-> isPacked]

Init ==
  /\ table = [made |-> {}, name |-> [s \in Struct |-> <<NoName, 0>>],
              body |-> [s \in Struct |-> NoBody]]
  /\ making = << >>
  /\ got = None
  /\ todo = << >>
  /\ crashed = FALSE
-----------------------------------------------------------------------------
(* Types and references to them: a kind, what the kind keeps beside types  *)
(* (a width, a size, an address space, flags), and the types inside.       *)
(* Scalar stands for the thirteen types that are a kind alone.             *)
Scalar == <<"scalar", None, << >>>>
Integer(width) == <<"integer", width, << >>>>
Function(ret, params, isVarArg) == <<"function", isVarArg, <<ret>> \o params>>
Pointer(t, addrSpace) == <<"pointer", addrSpace, <<t>>>>
Array(t, size) == <<"array", size, <<t>>>>
Vector(t, size, isScalable) ==
  <<IF isScalable THEN "scalableVector" ELSE "fixedVector", size, <<t>>>>
Literal(ts, isPacked) == <<"literal", isPacked, ts>>
Ident(s) == <<"ident", s, << >>>>           \* an LLVM identified struct
OpaqueStruct(n) == <<"opaque", n, << >>>>   \* a pure opaque struct
CompleteStruct(n, ts, isPacked) == <<"complete", <<n, isPacked>>, ts>>

IsIdentified(t) == t[1] \in {"opaque", "complete"}
NameOf(t) == IF t[1] = "opaque" THEN t[2] ELSE t[2][1]

(* Pure types: what is inside them are pure types again... *)
ASSUME PureAssumption ==
  \A t \in Pure :
    /\ t = <<t[1], t[2], t[3]>> /\ t[1] # "ident" /\ t[3] \in Seq(Pure)
    /\ t[1] = "opaque" => t[3] = << >>
    /\ t[1] = "complete" => t[2] = <<t[2][1], t[2][2]>> /\ t[2][2] \in BOOLEAN
    /\ IsIdentified(t) => NameOf(t) \in Name \cup {NoName}

(* ...and they are finite, as Lean's `Type` is an inductive type. *)
ASSUME InductiveAssumption ==
  \A S \in SUBSET Pure :
    (\A t \in Pure : (\A i \in DOMAIN t[3] : t[3][i] \in S) => t \in S) => S = Pure

(* The sets of pure types that hold what is inside their members. *)
Closed == {S \in SUBSET Pure : \A t \in S : \A i \in DOMAIN t[3] : t[3][i] \in S}

(* The pure types in a pure type, itself included: the least closed set it *)
(* is in.                                                                  *)
Parts == [t \in Pure |-> {u \in Pure : \A S \in Closed : t \in S => u \in S}]

(* The identified structs in a pure type. *)
Identified(t) == {u \in Parts[t] : IsIdentified(u)}

(* getTypeByName?: the struct with that name, if there is one. *)
GetTypeByName(tab, n) ==
  IF n # NoName /\ \E s \in tab.made : tab.name[s] = <<n, 0>>
  THEN CHOOSE s \in tab.made : tab.name[s] = <<n, 0>>
  ELSE None

(* Variant with a bug: names are given as they are. *)
UniqueAsGiven(tab, s, n) == {<<n, 0>>}

(* The names s can get in the table when it is given the name n. *)
Unique(tab, s, n) ==
  LET taken == {tab.name[x] : x \in tab.made \ {s}} IN
  IF n = NoName \/ <<n, 0>> \notin taken THEN {<<n, 0>>}
  ELSE {<<n, i>> : i \in 1 .. MaxSuffix} \ taken

(* Variant with a bug: the context does not learn of the struct. *)
CreateUnknown(tab, s, u, b) ==
  [made |-> tab.made, name |-> [tab.name EXCEPT ![s] = u],
   body |-> [tab.body EXCEPT ![s] = b]]

(* StructType::create: a new struct. *)
Create(tab, s, u, b) ==
  [made |-> tab.made \cup {s}, name |-> [tab.name EXCEPT ![s] = u],
   body |-> [tab.body EXCEPT ![s] = b]]

(* The object of a struct that is made next: one that is not yet made. *)
Fresh(tab) == CHOOSE s \in Struct : s \notin tab.made

(* Variant with a bug: a struct that is found gets the body that was asked *)
(* for.                                                                    *)
GetWithBody(tab, n, b) ==
  LET s == IF GetTypeByName(tab, n) # None THEN GetTypeByName(tab, n) ELSE Fresh(tab)
  IN  [table |-> Create(tab, s, <<n, 0>>, b), struct |-> s]

(* getOrCreate and getOrCreateOpaque: the struct with that name, whatever  *)
(* its body, or a new one.                                                 *)
GetOrCreate(tab, n, b) ==
  IF GetTypeByName(tab, n) # None
  THEN [table |-> tab, struct |-> GetTypeByName(tab, n)]
  ELSE [table |-> Create(tab, Fresh(tab), <<n, 0>>, b), struct |-> Fresh(tab)]

(* The types right inside an LLVM type, in the order of its getters. *)
Inside(tab, r) == IF r[1] = "ident" THEN tab.body[r[2]].elements ELSE r[3]

(* getName: a name that was taken has its number at the end. *)
GetName(tab, s) == IF tab.name[s][2] = 0 THEN tab.name[s][1] ELSE tab.name[s]

(* Variant with a bug: the kind of a vector is lost. *)
PurifyKindFixed(tab, r, in) ==
  IF r[1] # "ident"
  THEN <<IF r[1] = "scalableVector" THEN "fixedVector" ELSE r[1], r[2], in>>
  ELSE IF tab.body[r[2]].hasBody
  THEN CompleteStruct(GetName(tab, r[2]), in, tab.body[r[2]].isPacked)
  ELSE OpaqueStruct(GetName(tab, r[2]))

(* TypeRef.purify: the pure type of r, of which those inside are `in`. *)
PurifyKind(tab, r, in) ==
  IF r[1] # "ident" THEN <<r[1], r[2], in>>
  ELSE IF tab.body[r[2]].hasBody
  THEN CompleteStruct(GetName(tab, r[2]), in, tab.body[r[2]].isPacked)
  ELSE OpaqueStruct(GetName(tab, r[2]))

(* The sequences of LLVM types that refs has for a sequence of pure types. *)
Matches(refs, ts) ==
  {in \in [DOMAIN ts -> UNION {refs[ts[i]] : i \in DOMAIN ts}] :
     \A i \in DOMAIN ts : in[i] \in refs[ts[i]]}

(* The LLVM types that purify lifts to t, if refs[u] are those that it     *)
(* lifts to u, for the types u inside t.                                   *)
LiftedTo(tab, refs, t) ==
  {r \in IF IsIdentified(t) THEN {Ident(s) : s \in tab.made}
         ELSE {<<t[1], t[2], in>> : in \in Matches(refs, t[3])} :
     Inside(tab, r) \in Matches(refs, t[3]) /\ PurifyKind(tab, r, t[3]) = t}

(* The LLVM types that purify lifts to each pure type. *)
RefsOf(tab) == LET refs[t \in Pure] == LiftedTo(tab, refs, t) IN refs

(* The pure type t gives a name only one meaning, and where the context    *)
(* tab has a struct of a name it is the one that t means.                  *)
Agrees(tab, t) ==
  \A u \in Identified(t) : NameOf(u) # NoName =>
    /\ \A v \in Identified(t) : NameOf(v) = NameOf(u) => v = u
    /\ \/ GetTypeByName(tab, NameOf(u)) = None
       \/ Ident(GetTypeByName(tab, NameOf(u))) \in RefsOf(tab)[u]

(* The depth to which LLVM types are followed. *)
Depth == 8

(* The types that are d levels inside the LLVM type r, for each d. *)
Levels(tab, r) ==
  LET level[d \in 0 .. Depth] ==
        IF d = 0 THEN {r} ELSE UNION {Range(Inside(tab, x)) : x \in level[d - 1]}
  IN  level

(* The LLVM type r consists of structs that exist. *)
Exists(tab, r) ==
  \A d \in 0 .. Depth : \A x \in Levels(tab, r)[d] : x[1] = "ident" => x[2] \in tab.made
-----------------------------------------------------------------------------
(* The program calls an operation: neither getRef nor purify is running. *)
Idle == making = << >> /\ todo = << >> /\ ~crashed

Frame(t, refs) == [type |-> t, refs |-> refs]
Result(t, agreed, ref) == [type |-> t, agreed |-> agreed, ref |-> ref]

(* Type.getRef is called on a pure type... *)
CallGetRef(t) ==
  /\ Idle
  /\ making' = <<Frame(t, << >>)>>
  /\ got' = Result(t, Agrees(table, t), None)
  /\ UNCHANGED <<table, todo, crashed>>

(* ...calls itself on the types inside, from left to right... *)
GetRefInside ==
  /\ making # << >>
  /\ LET f == Last(making) IN
       /\ Len(f.refs) < Len(f.type[3])
       /\ making' = Append(making, Frame(f.type[3][Len(f.refs) + 1], << >>))
  /\ UNCHANGED <<table, got, todo, crashed>>

(* ...and returns the reference to the caller, which may be itself... *)
Return(ref) ==
  LET n == Len(making) IN
  IF n = 1
  THEN making' = << >> /\ got' = Result(got.type, got.agreed, ref)
  ELSE /\ making' = [Front(making) EXCEPT
             ![n - 1] = Frame(@.type, Append(@.refs, ref))]
       /\ UNCHANGED got

(* ...of a type that LLVM knows by its structure... *)
GetStructural ==
  /\ making # << >>
  /\ LET f == Last(making) IN
       /\ ~IsIdentified(f.type) /\ Len(f.refs) = Len(f.type[3])
       /\ Return(<<f.type[1], f.type[2], f.refs>>)
  /\ UNCHANGED <<table, todo, crashed>>

(* ...or of the identified struct with that name, which may be new. *)
GetIdentified ==
  /\ making # << >>
  /\ LET f == Last(making)
         body == IF f.type[1] = "opaque" THEN NoBody ELSE BodyOf(f.refs, f.type[2][2])
         g == GetOrCreate(table, NameOf(f.type), body)
     IN  /\ IsIdentified(f.type) /\ Len(f.refs) = Len(f.type[3])
         /\ GetTypeByName(table, NameOf(f.type)) = None => table.made # Struct
         /\ table' = g.table
         /\ Return(Ident(g.struct))
  /\ UNCHANGED <<todo, crashed>>

(* IdentifiedStructTypeRef.create and createOpaque.  The elements are      *)
(* types that exist.                                                       *)
CallCreate(n, b) ==
  /\ Idle
  /\ table.made # Struct
  /\ \A i \in DOMAIN b.elements : Exists(table, b.elements[i])
  /\ \E u \in Unique(table, Fresh(table), n) : table' = Create(table, Fresh(table), u, b)
  /\ got' = None
  /\ UNCHANGED <<making, todo, crashed>>

(* setName and removeName *)
SetName(s, n) ==
  /\ Idle
  /\ s \in table.made /\ table.name[s] # <<n, 0>>
  /\ \E u \in Unique(table, s, n) : table' = Create(table, s, u, table.body[s])
  /\ got' = None
  /\ UNCHANGED <<making, todo, crashed>>

(* setBody: Lean passes the elements, the struct and isPacked; the C++     *)
(* function takes isPacked before the struct, and so the flag as a struct. *)
SetBody(s) ==
  /\ Idle
  /\ s \in table.made /\ ~table.body[s].hasBody
  /\ crashed' = TRUE
  /\ got' = None
  /\ UNCHANGED <<table, making, todo>>

(* A module is parsed that brings a struct which points to itself. *)
ParseRecursive(n) ==
  /\ Idle
  /\ table.made # Struct
  /\ LET s == Fresh(table) IN
       \E u \in Unique(table, s, n) :
         table' = Create(table, s, u, BodyOf(<<Pointer(Ident(s), 0)>>, FALSE))
  /\ got' = None
  /\ UNCHANGED <<making, todo, crashed>>

(* TypeRef.purify begins with the type it is called on... *)
CallPurify(s) ==
  /\ Idle
  /\ s \in table.made
  /\ todo' = <<Ident(s)>>
  /\ got' = None
  /\ UNCHANGED <<table, making, crashed>>

(* Variant with a bug: the type itself is lifted once more. *)
LiftAgain ==
  /\ todo # << >>
  /\ todo' = Inside(table, Head(todo)) \o todo
  /\ UNCHANGED <<table, making, got, crashed>>

(* ...and goes into each type: those inside are lifted before what follows *)
LiftOne ==
  /\ todo # << >>
  /\ todo' = Inside(table, Head(todo)) \o Tail(todo)
  /\ UNCHANGED <<table, making, got, crashed>>

Next ==
  \/ \E t \in Pure : CallGetRef(t)
  \/ GetRefInside
  \/ GetStructural
  \/ GetIdentified
  \/ \E n \in Name \cup {NoName} :
       \/ \E b \in Body \cup {NoBody} : CallCreate(n, b)
       \/ ParseRecursive(n)
       \/ \E s \in Struct : SetName(s, n)
  \/ \E s \in Struct : SetBody(s) \/ CallPurify(s)
  \/ LiftOne

(* purify runs in the program's only thread until it is done. *)
Spec == Init /\ [][Next]_vars /\ WF_vars(LiftOne)
-----------------------------------------------------------------------------
(* The types of the variables; a struct that is not in the table has       *)
(* neither name nor body.                                                  *)
TypeOK ==
  /\ table.made \subseteq Struct
  /\ table.name \in [Struct -> FullName]
  /\ DOMAIN table.body = Struct
  /\ \A s \in Struct \ table.made :
       table.name[s] = <<NoName, 0>> /\ table.body[s] = NoBody
  /\ \A k \in DOMAIN making : making[k].type \in Pure
  /\ crashed \in BOOLEAN

(* A context has one struct of a name (TypeRefs.lean:365-368), whether the *)
(* names come from getRef, create, setName or a parsed module.             *)
NamesAreUnique ==
  \A s, t \in table.made :
    table.name[s] = table.name[t] /\ table.name[s] # <<NoName, 0>> => s = t

(* What getRef makes of a pure type is lifted to that same type (test      *)
(* test/run/ir/types.lean:5-12, "did not round trip"), in any context that *)
(* does not already use its names for something else.                      *)
RoundTrips ==
  got # None /\ making = << >> /\ got.agreed => got.ref \in RefsOf(table)[got.type]

(* Types that exist are not changed by making others: neither their bodies *)
(* nor, except by setName, their names (TypeRefs.lean:385-434).            *)
StructsAreStable ==
  [][\A s \in table.made :
       /\ table'.body[s] = table.body[s]
       /\ \/ table'.name[s] = table.name[s]
          \/ \E n \in Name \cup {NoName} : SetName(s, n)]_vars

(* Whether the LLVM type r has no more than Depth levels. *)
Ends(tab, r) == Levels(tab, r)[Depth] = {}

(* purify comes to an end on every type that does not contain itself,      *)
(* whatever other structs the context has (Type.lean:104-150).             *)
FinitePurifyEnds ==
  todo # << >> /\ (\A i \in DOMAIN todo : Ends(table, todo[i]))
    ~> todo = << >>

(* purify comes to an end (Type.lean:103: "Lift this reference to a pure   *)
(* `Type`").                                                               *)
PurifyEnds == todo # << >> ~> todo = << >>
=============================================================================
