-------------------------- MODULE LinkedRefsProofs --------------------------
(* The invariants of LinkedRefs hold for every set of contexts, cells and  *)
(* objects, whether or not programs call the mismatched operations.        *)
EXTENDS LinkedRefs, FiniteSetTheorems, TLAPS

(* What a live cell refers to: an object of the context it is linked to.   *)
LinksOwned ==
  \A r \in live \cap Cell :
    /\ link[r] \in Context
    /\ target[r] \in Object
    /\ home[target[r]] = link[r]

(* The inductive invariant.  NoDanglingRef is not inductive: that the last *)
(* count of a context cannot go while a link remains is a fact about the   *)
(* sum of all counts.                                                      *)
IInv == TypeOK /\ CountsConserved /\ LinksOwned
-----------------------------------------------------------------------------
(* Only finitely many cells are linked to a context. *)
LEMMA LinkedToFinite ==
  ASSUME NEW c \in Context
  PROVE  IsFiniteSet(LinkedTo(c)) /\ Cardinality(LinkedTo(c)) \in Nat
<1>1. LinkedTo(c) \in SUBSET Cell
  BY DEF LinkedTo
<1>2. IsFiniteSet(LinkedTo(c))
  BY <1>1, FS_Subset, ContextAssumption
<1>. QED
  BY <1>2, FS_CardinalityType

(* What Lean code holds is allocated and has a count for it. *)
LEMMA HeldIsLive ==
  ASSUME IInv, NEW n \in Node, held[n] > 0
  PROVE  n \in live /\ rc[n] \in Nat /\ rc[n] >= held[n]
<1>1. rc[n] \in Nat /\ held[n] \in Nat /\ lost[n] \in Nat
  BY DEF IInv, TypeOK
<1>2. CASE n \in Context
  BY <1>1, <1>2, LinkedToFinite DEF IInv, CountsConserved
<1>3. CASE n \in Cell
  BY <1>1, <1>3 DEF IInv, CountsConserved
<1>. QED
  BY <1>2, <1>3 DEF Node

(* A context to which a live cell is linked has a count for that link. *)
LEMMA LinkIsCounted ==
  ASSUME IInv, NEW r \in live \cap Cell
  PROVE  /\ link[r] \in Context \cap live
         /\ rc[link[r]] >= held[link[r]] + lost[link[r]] + 1
<1>1. link[r] \in Context /\ r \in LinkedTo(link[r])
  BY DEF IInv, LinksOwned, LinkedTo
<1>2. Cardinality(LinkedTo(link[r])) \in Nat \ {0}
  BY <1>1, LinkedToFinite, FS_EmptySet
<1>3. held[link[r]] \in Nat /\ lost[link[r]] \in Nat /\ rc[link[r]] \in Nat
  BY <1>1 DEF IInv, TypeOK, Node
<1>4. rc[link[r]] = held[link[r]] + lost[link[r]] + Cardinality(LinkedTo(link[r]))
  BY <1>1 DEF IInv, CountsConserved
<1>5. link[r] \in live <=> rc[link[r]] > 0
  BY <1>1 DEF IInv, CountsConserved, Node
<1>. QED
  BY <1>1, <1>2, <1>3, <1>4, <1>5

-----------------------------------------------------------------------------
(* Allocating cells: they are linked to their context and nothing else     *)
(* about links changes.                                                    *)
LEMMA MkLinkedEffect ==
  ASSUME TypeOK, LinksOwned,
         NEW S \in SUBSET Cell, NEW c \in Context, NEW f \in [S -> Object],
         \A x \in S : home[f[x]] \in {None, c},
         MkLinked(S, c, f, c)
  PROVE  /\ live' \in SUBSET Node
         /\ link' \in [Cell -> Context \cup {None}]
         /\ target' \in [Cell -> Object \cup {None}]
         /\ home' \in [Object -> Context \cup {None}]
         /\ LinksOwned'
         /\ \A d \in Context : LinkedTo(d)' = IF d = c THEN LinkedTo(d) \cup S
                                              ELSE LinkedTo(d)
         /\ IsFiniteSet(S)
         /\ \A d \in Context : Cardinality(LinkedTo(d)') =
              IF d = c THEN Cardinality(LinkedTo(d)) + Cardinality(S)
              ELSE Cardinality(LinkedTo(d))
<1>1. /\ live' \in SUBSET Node
      /\ link' \in [Cell -> Context \cup {None}]
      /\ target' \in [Cell -> Object \cup {None}]
      /\ home' \in [Object -> Context \cup {None}]
  BY DEF MkLinked, TypeOK, Node
<1>2. LinksOwned'
  <2> SUFFICES ASSUME NEW r \in (live \cap Cell)'
               PROVE  (/\ link[r] \in Context
                       /\ target[r] \in Object
                       /\ home[target[r]] = link[r])'
    BY DEF LinksOwned
  <2>1. CASE r \in S
    BY <2>1 DEF MkLinked
  <2>2. CASE r \notin S
    <3>1. r \in live \cap Cell /\ link'[r] = link[r] /\ target'[r] = target[r]
      BY <2>2 DEF MkLinked
    <3>2. home'[target[r]] = home[target[r]]
      BY <3>1, NoneAssumption DEF MkLinked, LinksOwned
    <3>. QED
      BY <3>1, <3>2 DEF LinksOwned
  <2>. QED
    BY <2>1, <2>2
<1>3. ASSUME NEW d \in Context
      PROVE  LinkedTo(d)' = IF d = c THEN LinkedTo(d) \cup S ELSE LinkedTo(d)
  BY DEF MkLinked, LinkedTo, TypeOK
<1>4. IsFiniteSet(S) /\ S \cap LinkedTo(c) = {}
  BY FS_Subset, ContextAssumption DEF MkLinked, LinkedTo
<1>5. Cardinality(LinkedTo(c) \cup S) = Cardinality(LinkedTo(c)) + Cardinality(S)
  <2>1. Cardinality(LinkedTo(c) \cup S) =
          Cardinality(LinkedTo(c)) + Cardinality(S) - Cardinality(LinkedTo(c) \cap S)
    BY <1>4, LinkedToFinite, FS_Union
  <2>2. Cardinality(LinkedTo(c) \cap S) = 0
    BY <1>4, FS_EmptySet
  <2>. QED
    BY <2>1, <2>2, <1>4, LinkedToFinite, FS_CardinalityType
<1>. QED
  BY <1>1, <1>2, <1>3, <1>4, <1>5
-----------------------------------------------------------------------------
(* One lemma per operation: it preserves the inductive invariant.          *)

(* The empty state, with no object allocated, satisfies the invariant. *)
LEMMA InitEstablishes == Init => IInv
<1> SUFFICES ASSUME Init PROVE IInv
  OBVIOUS
<1>1. TypeOK /\ LinksOwned
  BY DEF Init, TypeOK, LinksOwned, Node
<1>2. \A c \in Context : LinkedTo(c) = {}
  BY DEF Init, LinkedTo
<1>3. CountsConserved
  BY <1>2, FS_EmptySet DEF Init, CountsConserved, Node
<1>. QED
  BY <1>1, <1>3 DEF IInv

(* papyrus_context_new: the new object has the one count Lean gets. *)
LEMMA ContextNewPreserves ==
  ASSUME IInv, NEW c \in Context, ContextNew(c)
  PROVE  IInv'
<1>1. TypeOK' /\ LinksOwned'
  BY ContextAssumption DEF ContextNew, IInv, TypeOK, LinksOwned, Node
<1>2. \A d \in Context : LinkedTo(d)' = LinkedTo(d)
  BY ContextAssumption DEF ContextNew, LinkedTo
<1>3. rc[c] = 0 /\ held[c] = 0 /\ lost[c] = 0 /\ Cardinality(LinkedTo(c)) = 0
  BY LinkedToFinite DEF ContextNew, IInv, TypeOK, CountsConserved, Node
<1>4. CountsConserved'
  BY <1>2, <1>3, ContextAssumption
  DEF ContextNew, IInv, TypeOK, CountsConserved, Node
<1>. QED
  BY <1>1, <1>4 DEF IInv

(* The common part of the operations that return new references: the cells *)
(* of S start with one count, owned by Lean, each of them counts once as a *)
(* link of c, and every other change keeps the sums.                       *)
LEMMA AllocationPreserves ==
  ASSUME IInv,
         NEW S \in SUBSET Cell, NEW c \in Context, NEW f \in [S -> Object],
         \A x \in S : home[f[x]] \in {None, c},
         MkLinked(S, c, f, c),
         UNCHANGED deleted,
         rc' \in [Node -> Nat], held' \in [Node -> Nat], lost' \in [Node -> Nat],
         \A x \in S : rc'[x] = 1 /\ held'[x] = 1 /\ lost'[x] = lost[x],
         \A x \in Cell \ S : /\ rc'[x] = rc[x]
                             /\ held'[x] + lost'[x] = held[x] + lost[x],
         \A d \in Context :
            /\ rc'[d] > 0 <=> rc[d] > 0
            /\ rc'[d] + held[d] + lost[d] =
                 rc[d] + held'[d] + lost'[d] + (IF d = c THEN Cardinality(S) ELSE 0)
  PROVE  IInv'
<1>1. TypeOK /\ LinksOwned
  BY DEF IInv
<1>2. /\ live' \in SUBSET Node
      /\ link' \in [Cell -> Context \cup {None}]
      /\ target' \in [Cell -> Object \cup {None}]
      /\ home' \in [Object -> Context \cup {None}]
      /\ LinksOwned'
      /\ IsFiniteSet(S)
      /\ \A d \in Context : Cardinality(LinkedTo(d)') =
           IF d = c THEN Cardinality(LinkedTo(d)) + Cardinality(S)
           ELSE Cardinality(LinkedTo(d))
  BY <1>1, MkLinkedEffect
<1>3. TypeOK'
  BY <1>1, <1>2 DEF TypeOK
<1>4. live' = live \cup S /\ S \cap live = {}
  BY DEF MkLinked
<1>5. CountsConserved'
  <2>1. ASSUME NEW d \in Context
        PROVE  rc'[d] = held'[d] + lost'[d] + Cardinality(LinkedTo(d)')
    <3>1. rc[d] = held[d] + lost[d] + Cardinality(LinkedTo(d))
      BY DEF IInv, CountsConserved
    <3>2. /\ rc[d] \in Nat /\ held[d] \in Nat /\ lost[d] \in Nat
          /\ rc'[d] \in Nat /\ held'[d] \in Nat /\ lost'[d] \in Nat
          /\ Cardinality(LinkedTo(d)) \in Nat /\ Cardinality(S) \in Nat
      BY <1>1, <1>2, LinkedToFinite, FS_CardinalityType DEF TypeOK, Node
    <3> DEFINE k == IF d = c THEN Cardinality(S) ELSE 0
    <3>3. k \in Nat /\ Cardinality(LinkedTo(d)') = Cardinality(LinkedTo(d)) + k
      BY <1>2, <3>2
    <3>4. rc'[d] + held[d] + lost[d] = rc[d] + held'[d] + lost'[d] + k
      OBVIOUS
    <3> HIDE DEF k
    <3>. QED
      BY <3>1, <3>2, <3>3, <3>4
  <2>2. ASSUME NEW x \in Cell
        PROVE  rc'[x] = held'[x] + lost'[x]
    <3>1. CASE x \in S
      <4>1. rc[x] = 0 /\ lost[x] \in Nat /\ held[x] \in Nat /\ rc[x] = held[x] + lost[x]
        BY <1>1, <1>4, <3>1 DEF TypeOK, IInv, CountsConserved, Node
      <4>. QED
        BY <4>1, <3>1
    <3>2. CASE x \notin S
      BY <3>2 DEF IInv, CountsConserved
    <3>. QED
      BY <3>1, <3>2
  <2>3. ASSUME NEW n \in Node
        PROVE  n \in live' <=> rc'[n] > 0
    <3>1. n \in live <=> rc[n] > 0
      BY DEF IInv, CountsConserved
    <3>. QED
      BY <1>4, <3>1, ContextAssumption DEF Node
  <2>. QED
    BY <2>1, <2>2, <2>3 DEF CountsConserved
<1>. QED
  BY <1>2, <1>3, <1>5 DEF IInv

(* The operations in LlvmM: the caller's count becomes the link. *)
LEMMA WrapInContextPreserves ==
  ASSUME IInv, NEW c \in Context, NEW r \in Cell, NEW o \in Object,
         home[o] \in {None, c}, WrapInContext(c, r, o)
  PROVE  IInv'
<1> DEFINE f == [x \in {r} |-> o]
<1>1. MkLinked({r}, c, f, c) /\ held[c] > 0 /\ UNCHANGED deleted
  BY DEF WrapInContext
<1>2. f \in [{r} -> Object] /\ {r} \in SUBSET Cell
      /\ \A x \in {r} : home[f[x]] \in {None, c}
  OBVIOUS
<1> HIDE DEF f
<1>3. Cardinality({r}) = 1
  BY FS_Singleton
<1>4. c \in live /\ rc[c] > 0
  BY <1>1, HeldIsLive DEF IInv, CountsConserved, Node
<1>5. rc \in [Node -> Nat] /\ held \in [Node -> Nat] /\ lost \in [Node -> Nat]
  BY DEF IInv, TypeOK
<1>6. /\ rc' = [rc EXCEPT ![r] = 1]
      /\ held' = [[held EXCEPT ![c] = @ - 1] EXCEPT ![r] = 1]
      /\ lost' = lost
  BY DEF WrapInContext, Dec
<1>7. rc' \in [Node -> Nat] /\ held' \in [Node -> Nat] /\ lost' \in [Node -> Nat]
  BY <1>1, <1>5, <1>6, ContextAssumption DEF Node
<1>8. \A x \in {r} : rc'[x] = 1 /\ held'[x] = 1 /\ lost'[x] = lost[x]
  BY <1>5, <1>6 DEF Node
<1>9. \A x \in Cell \ {r} : /\ rc'[x] = rc[x]
                            /\ held'[x] + lost'[x] = held[x] + lost[x]
  BY <1>5, <1>6, ContextAssumption DEF Node
<1>10. \A d \in Context :
         /\ rc'[d] > 0 <=> rc[d] > 0
         /\ rc'[d] + held[d] + lost[d] =
              rc[d] + held'[d] + lost'[d] + (IF d = c THEN Cardinality({r}) ELSE 0)
  BY <1>3, <1>5, <1>6, ContextAssumption DEF Node
<1>. QED
  BY <1>1, <1>2, <1>7, <1>8, <1>9, <1>10, AllocationPreserves

(* What a held reference gives the operations that borrow it. *)
LEMMA HeldCell ==
  ASSUME IInv, NEW a \in Cell, held[a] > 0
  PROVE  /\ link[a] \in Context
         /\ home[target[a]] = link[a]
         /\ rc[link[a]] \in Nat \ {0}
<1>1. a \in live \cap Cell
  BY HeldIsLive DEF Node
<1>2. link[a] \in Context \cap live
  BY <1>1, LinkIsCounted
<1>3. home[target[a]] = link[a]
  BY <1>1 DEF IInv, LinksOwned
<1>4. rc[link[a]] \in Nat /\ (link[a] \in live <=> rc[link[a]] > 0)
  BY <1>2 DEF IInv, TypeOK, CountsConserved, Node
<1>. QED
  BY <1>2, <1>3, <1>4

(* The operations that derive references from a borrowed one. *)
LEMMA DerivationPreserves ==
  ASSUME IInv, NEW a \in Cell, held[a] > 0,
         NEW S \in SUBSET Cell, NEW f \in [S -> ObjectsOf(link[a])],
         MkLinked(S, link[a], f, link[a]),
         UNCHANGED deleted,
         rc' = [n \in Node |-> IF n \in S THEN 1
                               ELSE IF n = link[a] THEN rc[n] + Cardinality(S)
                               ELSE rc[n]],
         held' \in [Node -> Nat], lost' \in [Node -> Nat],
         \A x \in S : held'[x] = 1 /\ lost'[x] = lost[x],
         \A n \in Node \ S : held'[n] + lost'[n] = held[n] + lost[n]
  PROVE  IInv'
<1>0. PICK c \in Context : c = link[a]
  BY HeldCell
<1>1. rc[c] \in Nat \ {0}
  BY <1>0, HeldCell
<1>2. f \in [S -> Object] /\ \A x \in S : home[f[x]] \in {None, c}
  BY <1>0 DEF ObjectsOf
<1>3. Cardinality(S) \in Nat
  BY FS_Subset, FS_CardinalityType, ContextAssumption
<1>4. /\ rc \in [Node -> Nat] /\ held \in [Node -> Nat] /\ lost \in [Node -> Nat]
      /\ \A d \in Context : d \in Node /\ d \notin Cell /\ d \notin S
  BY ContextAssumption DEF IInv, TypeOK, Node
<1>5. rc' \in [Node -> Nat]
  BY <1>3, <1>4, <1>0
<1>6. \A x \in S : rc'[x] = 1 /\ held'[x] = 1 /\ lost'[x] = lost[x]
  BY DEF Node
<1>7. \A x \in Cell \ S : rc'[x] = rc[x] /\ held'[x] + lost'[x] = held[x] + lost[x]
  BY <1>0, <1>1, <1>4 DEF Node
<1>8. \A d \in Context :
        /\ rc'[d] > 0 <=> rc[d] > 0
        /\ rc'[d] + held[d] + lost[d] =
             rc[d] + held'[d] + lost'[d]
              + (IF d = c THEN Cardinality(S) ELSE 0)
  <2> TAKE d \in Context
  <2>1. held'[d] + lost'[d] = held[d] + lost[d]
    BY <1>4
  <2>2. rc'[d] = rc[d] + (IF d = c THEN Cardinality(S) ELSE 0)
    BY <1>0, <1>3, <1>4
  <2>3. /\ rc[d] \in Nat /\ held[d] \in Nat /\ lost[d] \in Nat
        /\ held'[d] \in Nat /\ lost'[d] \in Nat
    BY <1>4
  <2>. QED
    BY <1>1, <1>3, <2>1, <2>2, <2>3
<1>9. MkLinked(S, c, f, c)
  BY <1>0
<1>. QED
  BY <1>9, <1>1, <1>2, <1>5, <1>6, <1>7, <1>8, AllocationPreserves,
     ZenonT(40)

(* The same for one new reference r. *)
LEMMA OneDerivedPreserves ==
  ASSUME IInv, NEW a \in Cell, held[a] > 0, NEW r \in Cell,
         NEW o \in ObjectsOf(link[a]),
         MkLinked({r}, link[a], [x \in {r} |-> o], link[a]),
         UNCHANGED deleted,
         rc' = [Inc(rc, link[a]) EXCEPT ![r] = 1],
         held' \in [Node -> Nat], lost' \in [Node -> Nat],
         held'[r] = 1, lost'[r] = lost[r],
         \A n \in Node \ {r} : held'[n] + lost'[n] = held[n] + lost[n]
  PROVE  IInv'
<1> DEFINE f == [x \in {r} |-> o]
<1>1. MkLinked({r}, link[a], f, link[a])
  OBVIOUS
<1>2. f \in [{r} -> ObjectsOf(link[a])] /\ {r} \in SUBSET Cell
  OBVIOUS
<1> HIDE DEF f
<1>3. Cardinality({r}) = 1
  BY FS_Singleton
<1>4. rc' = [n \in Node |-> IF n \in {r} THEN 1
                            ELSE IF n = link[a] THEN rc[n] + Cardinality({r})
                            ELSE rc[n]]
  BY <1>3 DEF Inc, IInv, TypeOK
<1>5. \A x \in {r} : held'[x] = 1 /\ lost'[x] = lost[x]
  OBVIOUS
<1>. QED
  BY <1>1, <1>2, <1>4, <1>5, DerivationPreserves

(* copyLink: one more count for one more link. *)
LEMMA DerivePreserves ==
  ASSUME IInv, NEW a \in Cell, NEW r \in Cell, Derive(a, r)
  PROVE  IInv'
<1>1. held[a] > 0 /\ home[target[a]] = link[a]
  BY HeldCell DEF Derive
<1>2. PICK o \in ObjectsOf(link[a]) :
        MkLinked({r}, link[a], [x \in {r} |-> o], link[a])
  BY <1>1 DEF Derive
<1>3. /\ rc' = [Inc(rc, link[a]) EXCEPT ![r] = 1]
      /\ held' = [held EXCEPT ![r] = 1]
      /\ UNCHANGED <<lost, deleted>>
  BY DEF Derive
<1>4. held \in [Node -> Nat] /\ lost \in [Node -> Nat] /\ r \in Node
  BY DEF IInv, TypeOK, Node
<1>5. /\ held' \in [Node -> Nat] /\ lost' \in [Node -> Nat]
      /\ held'[r] = 1 /\ lost'[r] = lost[r]
      /\ \A n \in Node \ {r} : held'[n] + lost'[n] = held[n] + lost[n]
  BY <1>3, <1>4
<1>. QED
  BY <1>1, <1>2, <1>3, <1>5, OneDerivedPreserves

(* A branch is linked to the context of its condition. *)
LEMMA CreateCondBrPreserves ==
  ASSUME IInv, NEW cond \in Cell, NEW bb \in Cell, NEW r \in Cell,
         CreateCondBr(cond, bb, r)
  PROVE  IInv'
<1>1. held[cond] > 0 /\ home[target[bb]] = link[cond]
  BY HeldCell DEF CreateCondBr
<1>2. PICK o \in ObjectsOf(link[cond]) :
        MkLinked({r}, link[cond], [x \in {r} |-> o], link[cond])
  BY <1>1 DEF CreateCondBr
<1>3. /\ rc' = [Inc(rc, link[cond]) EXCEPT ![r] = 1]
      /\ held' = [held EXCEPT ![r] = 1]
      /\ UNCHANGED <<lost, deleted>>
  BY DEF CreateCondBr
<1>4. held \in [Node -> Nat] /\ lost \in [Node -> Nat] /\ r \in Node
  BY DEF IInv, TypeOK, Node
<1>5. /\ held' \in [Node -> Nat] /\ lost' \in [Node -> Nat]
      /\ held'[r] = 1 /\ lost'[r] = lost[r]
      /\ \A n \in Node \ {r} : held'[n] + lost'[n] = held[n] + lost[n]
  BY <1>3, <1>4
<1>. QED
  BY <1>1, <1>2, <1>3, <1>5, OneDerivedPreserves

(* A derived type, and a lost count of the argument. *)
LEMMA GetVectorTypePreserves ==
  ASSUME IInv, NEW a \in Cell, NEW r \in Cell, GetVectorType(a, r)
  PROVE  IInv'
<1>1. held[a] > 0 /\ home[target[a]] = link[a] /\ a \in live
  BY HeldCell, HeldIsLive DEF GetVectorType, Node
<1>2. PICK o \in ObjectsOf(link[a]) :
        MkLinked({r}, link[a], [x \in {r} |-> o], link[a])
  BY <1>1 DEF GetVectorType
<1>3. /\ rc' = [Inc(rc, link[a]) EXCEPT ![r] = 1]
      /\ held' = [[held EXCEPT ![r] = 1] EXCEPT ![a] = @ - 1]
      /\ lost' = [lost EXCEPT ![a] = @ + 1]
      /\ UNCHANGED deleted
  BY DEF GetVectorType, LoseArgument, Dec, Inc
<1>4. /\ held \in [Node -> Nat] /\ lost \in [Node -> Nat]
      /\ r \in Node /\ a \in Node /\ a # r
  BY <1>1, <1>2 DEF IInv, TypeOK, Node, MkLinked
<1>5. /\ held' \in [Node -> Nat] /\ lost' \in [Node -> Nat]
      /\ held'[r] = 1 /\ lost'[r] = lost[r]
      /\ \A n \in Node \ {r} : held'[n] + lost'[n] = held[n] + lost[n]
  BY <1>1, <1>3, <1>4
<1>. QED
  BY <1>1, <1>2, <1>3, <1>5, OneDerivedPreserves

(* One increment of the link for each element. *)
LEMMA DeriveArrayPreserves ==
  ASSUME IInv, NEW a \in Cell, NEW S \in SUBSET Cell, DeriveArray(a, S)
  PROVE  IInv'
<1>1. held[a] > 0 /\ home[target[a]] = link[a]
  BY HeldCell DEF DeriveArray
<1>2. PICK f \in [S -> ObjectsOf(link[a])] : MkLinked(S, link[a], f, link[a])
  BY <1>1 DEF DeriveArray
<1>3. /\ held' = [n \in Node |-> IF n \in S THEN 1 ELSE held[n]]
      /\ UNCHANGED <<lost, deleted>>
  BY DEF DeriveArray
<1>4. held \in [Node -> Nat] /\ lost \in [Node -> Nat] /\ S \subseteq Node
  BY DEF IInv, TypeOK, Node
<1>5. /\ held' \in [Node -> Nat] /\ lost' \in [Node -> Nat]
      /\ \A x \in S : held'[x] = 1 /\ lost'[x] = lost[x]
      /\ \A n \in Node \ S : held'[n] + lost'[n] = held[n] + lost[n]
  BY <1>3, <1>4
<1>6. rc' = [n \in Node |-> IF n \in S THEN 1
                            ELSE IF n = link[a] THEN rc[n] + Cardinality(S)
                            ELSE rc[n]]
  BY DEF DeriveArray
<1>. QED
  BY <1>1, <1>2, <1>3, <1>5, <1>6, DerivationPreserves
-----------------------------------------------------------------------------
(* The operations that allocate and free nothing: counts move between      *)
(* Lean code and the lost ones, or are taken and given in the header too.  *)
LEMMA CountingPreserves ==
  ASSUME IInv,
         UNCHANGED <<live, link, target, home, deleted>>,
         rc' \in [Node -> Nat], held' \in [Node -> Nat], lost' \in [Node -> Nat],
         \A n \in Node :
            /\ rc'[n] + held[n] + lost[n] = rc[n] + held'[n] + lost'[n]
            /\ rc'[n] > 0 <=> rc[n] > 0
  PROVE  IInv'
<1>1. TypeOK' /\ LinksOwned' /\ \A c \in Context : LinkedTo(c)' = LinkedTo(c)
  BY DEF IInv, TypeOK, LinksOwned, LinkedTo
<1>2. rc \in [Node -> Nat] /\ held \in [Node -> Nat] /\ lost \in [Node -> Nat]
  BY DEF IInv, TypeOK
<1>3. ASSUME NEW c \in Context
      PROVE  rc'[c] = held'[c] + lost'[c] + Cardinality(LinkedTo(c)')
  <2>1. Cardinality(LinkedTo(c)') = Cardinality(LinkedTo(c))
        /\ Cardinality(LinkedTo(c)) \in Nat
    BY <1>1, LinkedToFinite
  <2>2. rc[c] = held[c] + lost[c] + Cardinality(LinkedTo(c))
    BY DEF IInv, CountsConserved
  <2>. QED
    BY <1>2, <2>1, <2>2 DEF Node
<1>4. ASSUME NEW r \in Cell PROVE rc'[r] = held'[r] + lost'[r]
  <2>1. rc[r] = held[r] + lost[r]
    BY DEF IInv, CountsConserved
  <2>2. rc'[r] + held[r] + lost[r] = rc[r] + held'[r] + lost'[r]
    BY DEF Node
  <2>3. /\ rc[r] \in Nat /\ held[r] \in Nat /\ lost[r] \in Nat
        /\ rc'[r] \in Nat /\ held'[r] \in Nat /\ lost'[r] \in Nat
    BY <1>2 DEF Node
  <2>. QED
    BY <2>1, <2>2, <2>3
<1>5. \A n \in Node : n \in live' <=> rc'[n] > 0
  BY DEF IInv, CountsConserved
<1>6. CountsConserved'
  BY <1>3, <1>4, <1>5 DEF CountsConserved
<1>. QED
  BY <1>1, <1>6 DEF IInv

(* papyrus_type_id: a count moves from Lean to the lost ones. *)
LEMMA TypeIdPreserves ==
  ASSUME IInv, NEW a \in Cell, TypeId(a)
  PROVE  IInv'
<1>1. /\ rc \in [Node -> Nat] /\ held \in [Node -> Nat] /\ lost \in [Node -> Nat]
      /\ a \in Node
  BY DEF IInv, TypeOK, Node
<1>2. /\ held[a] > 0
      /\ held' = [held EXCEPT ![a] = @ - 1]
      /\ lost' = [lost EXCEPT ![a] = @ + 1]
      /\ UNCHANGED <<live, rc, link, target, home, deleted>>
  BY DEF TypeId, LoseArgument, Inc, Dec
<1>3. /\ rc' \in [Node -> Nat] /\ held' \in [Node -> Nat] /\ lost' \in [Node -> Nat]
      /\ \A n \in Node : /\ rc'[n] + held[n] + lost[n] = rc[n] + held'[n] + lost'[n]
                         /\ rc'[n] > 0 <=> rc[n] > 0
  BY <1>1, <1>2
<1>. QED
  BY <1>2, <1>3, CountingPreserves

(* papyrus_type_get_context: the same, and one more count for Lean. *)
LEMMA GetContextPreserves ==
  ASSUME IInv, NEW a \in Cell, GetContext(a)
  PROVE  IInv'
<1>1. PICK c \in Context : c = link[a] /\ rc[c] \in Nat \ {0}
  BY HeldCell DEF GetContext
<1>2. /\ rc \in [Node -> Nat] /\ held \in [Node -> Nat] /\ lost \in [Node -> Nat]
      /\ a \in Node /\ c \in Node /\ a # c
  BY ContextAssumption DEF IInv, TypeOK, Node
<1>3. /\ held[a] > 0
      /\ rc' = [rc EXCEPT ![c] = @ + 1]
      /\ held' = [[held EXCEPT ![c] = @ + 1] EXCEPT ![a] = @ - 1]
      /\ lost' = [lost EXCEPT ![a] = @ + 1]
      /\ UNCHANGED <<live, link, target, home, deleted>>
  BY <1>1 DEF GetContext, LoseArgument, Inc, Dec
<1>4. /\ rc' \in [Node -> Nat] /\ held' \in [Node -> Nat] /\ lost' \in [Node -> Nat]
      /\ \A n \in Node : /\ rc'[n] + held[n] + lost[n] = rc[n] + held'[n] + lost'[n]
                         /\ rc'[n] > 0 <=> rc[n] > 0
  BY <1>1, <1>2, <1>3
<1>. QED
  BY <1>3, <1>4, CountingPreserves

(* lean_inc_ref in compiled Lean code. *)
LEMMA SharePreserves ==
  ASSUME IInv, NEW n \in Node, Share(n)
  PROVE  IInv'
<1>1. /\ rc \in [Node -> Nat] /\ held \in [Node -> Nat] /\ lost \in [Node -> Nat]
      /\ rc[n] > 0
  BY HeldIsLive DEF Share, IInv, TypeOK, CountsConserved
<1>2. /\ rc' = [rc EXCEPT ![n] = @ + 1]
      /\ held' = [held EXCEPT ![n] = @ + 1]
      /\ UNCHANGED <<live, lost, link, target, home, deleted>>
  BY DEF Share, Inc
<1>3. /\ rc' \in [Node -> Nat] /\ held' \in [Node -> Nat] /\ lost' \in [Node -> Nat]
      /\ \A m \in Node : /\ rc'[m] + held[m] + lost[m] = rc[m] + held'[m] + lost'[m]
                         /\ rc'[m] > 0 <=> rc[m] > 0
  BY <1>1, <1>2
<1>. QED
  BY <1>2, <1>3, CountingPreserves

(* The miss of getTypeByName?. *)
LEMMA GetTypeByNamePreserves ==
  ASSUME IInv, NEW c \in Context, NEW r \in Cell, GetTypeByName(c, r)
  PROVE  IInv'
<1>1. CASE \E o \in ObjectsOf(c) : home[o] = c /\ WrapInContext(c, r, o)
  BY <1>1, WrapInContextPreserves DEF ObjectsOf
<1>2. CASE /\ held[c] > 0
           /\ held' = Dec(held, c)
           /\ lost' = Inc(lost, c)
           /\ UNCHANGED <<live, rc, link, target, home, deleted>>
  <2>1. /\ rc \in [Node -> Nat] /\ held \in [Node -> Nat] /\ lost \in [Node -> Nat]
        /\ c \in Node
    BY DEF IInv, TypeOK, Node
  <2>2. /\ rc' \in [Node -> Nat] /\ held' \in [Node -> Nat] /\ lost' \in [Node -> Nat]
        /\ \A n \in Node : /\ rc'[n] + held[n] + lost[n] = rc[n] + held'[n] + lost'[n]
                           /\ rc'[n] > 0 <=> rc[n] > 0
    BY <1>2, <2>1 DEF Inc, Dec
  <2>. QED
    BY <1>2, <2>2, CountingPreserves
<1>. QED
  BY <1>1, <1>2 DEF GetTypeByName
-----------------------------------------------------------------------------
(* Lean code drops a context: no link to it remains when it is deleted. *)
LEMMA DropContextPreserves ==
  ASSUME IInv, NEW c \in Context, DropContext(c)
  PROVE  IInv'
<1>1. /\ rc \in [Node -> Nat] /\ held \in [Node -> Nat] /\ lost \in [Node -> Nat]
      /\ c \in Node /\ c \notin Cell
  BY ContextAssumption DEF IInv, TypeOK, Node
<1>2. /\ held[c] > 0
      /\ held' = [held EXCEPT ![c] = @ - 1]
      /\ rc' = [rc EXCEPT ![c] = @ - 1]
      /\ ReleaseContext(c, live)
      /\ UNCHANGED <<lost, link, target, home>>
  BY DEF DropContext, Dec
<1>3. rc[c] > 0 /\ c \in live
  BY <1>1, <1>2, HeldIsLive DEF IInv, CountsConserved
<1>4. live' = IF rc[c] = 1 THEN live \ {c} ELSE live
  BY <1>2 DEF ReleaseContext
<1>5. TypeOK'
  BY <1>1, <1>2, <1>3 DEF IInv, TypeOK, ReleaseContext
<1>6. LinksOwned' /\ \A d \in Context : LinkedTo(d)' = LinkedTo(d)
  BY <1>1, <1>2, <1>4 DEF IInv, LinksOwned, LinkedTo
<1>7. ASSUME NEW d \in Context
      PROVE  rc'[d] = held'[d] + lost'[d] + Cardinality(LinkedTo(d)')
  <2>1. Cardinality(LinkedTo(d)') = Cardinality(LinkedTo(d))
        /\ Cardinality(LinkedTo(d)) \in Nat
    BY <1>6, LinkedToFinite
  <2>2. rc[d] = held[d] + lost[d] + Cardinality(LinkedTo(d))
    BY DEF IInv, CountsConserved
  <2>3. rc'[d] + held[d] = rc[d] + held'[d] /\ lost'[d] = lost[d]
    BY <1>1, <1>2 DEF Node
  <2>4. rc'[d] \in Nat /\ held'[d] \in Nat /\ held[d] \in Nat /\ lost[d] \in Nat
    BY <1>1, <1>5 DEF TypeOK, Node
  <2>. QED
    BY <2>1, <2>2, <2>3, <2>4
<1>8. ASSUME NEW x \in Cell PROVE rc'[x] = held'[x] + lost'[x]
  BY <1>1, <1>2 DEF IInv, CountsConserved, Node
<1>9. ASSUME NEW n \in Node PROVE n \in live' <=> rc'[n] > 0
  BY <1>1, <1>2, <1>3, <1>4 DEF IInv, CountsConserved
<1>10. CountsConserved'
  BY <1>7, <1>8, <1>9 DEF CountsConserved
<1>. QED
  BY <1>5, <1>6, <1>10 DEF IInv

(* A module, or the release of the context after an error. *)
LEMMA ParseBitcodePreserves ==
  ASSUME IInv, NEW c \in Context, NEW r \in Cell, ParseBitcode(c, r)
  PROVE  IInv'
<1>1. CASE ModuleNew(c, r)
  BY <1>1, WrapInContextPreserves, ObjectAssumption DEF ModuleNew
<1>2. CASE DropContext(c)
  BY <1>2, DropContextPreserves
<1>. QED
  BY <1>1, <1>2 DEF ParseBitcode, DropContext

(* A cell is freed: the count its link had is given back. *)
LEMMA DropCellPreserves ==
  ASSUME IInv, NEW r \in Cell, DropCell(r)
  PROVE  IInv'
<1>1. PICK c \in Context : c = link[r]
  BY HeldCell DEF DropCell
<1>2. /\ rc \in [Node -> Nat] /\ held \in [Node -> Nat] /\ lost \in [Node -> Nat]
      /\ c \in Node /\ r \in Node /\ c # r /\ held[r] > 0
  BY ContextAssumption DEF IInv, TypeOK, Node, DropCell
<1>3. /\ r \in live /\ rc[r] > 0 /\ rc[r] = held[r] + lost[r]
      /\ c \in live /\ rc[c] >= held[c] + lost[c] + 1
  BY <1>1, <1>2, HeldIsLive, LinkIsCounted DEF IInv, CountsConserved
<1>4. held' = [held EXCEPT ![r] = @ - 1] /\ UNCHANGED <<lost, home>>
  BY DEF DropCell, Dec
<1>5. CASE rc[r] # 1
  <2>1. /\ rc' = [rc EXCEPT ![r] = @ - 1]
        /\ UNCHANGED <<live, link, target, home, deleted>>
    BY <1>5 DEF DropCell, Dec
  <2>2. /\ rc' \in [Node -> Nat] /\ held' \in [Node -> Nat] /\ lost' \in [Node -> Nat]
        /\ \A n \in Node : /\ rc'[n] + held[n] + lost[n] = rc[n] + held'[n] + lost'[n]
                           /\ rc'[n] > 0 <=> rc[n] > 0
    BY <1>2, <1>3, <1>4, <1>5, <2>1
  <2>. QED
    BY <2>1, <2>2, CountingPreserves
<1>6. CASE rc[r] = 1
  <2>1. /\ rc' = [[rc EXCEPT ![r] = 0] EXCEPT ![c] = @ - 1]
        /\ link' = [link EXCEPT ![r] = None]
        /\ target' = [target EXCEPT ![r] = None]
        /\ ReleaseContext(c, live \ {r})
    BY <1>1, <1>6 DEF DropCell, Dec
  <2>2. live' = IF rc[c] = 1 THEN live \ {r, c} ELSE live \ {r}
    BY <2>1 DEF ReleaseContext
  <2>3. TypeOK'
    BY <1>2, <1>3, <1>4, <2>1 DEF IInv, TypeOK, ReleaseContext
  <2>4. LinksOwned'
    BY <1>4, <2>1, <2>2 DEF IInv, TypeOK, LinksOwned
  <2>5. \A d \in Context : LinkedTo(d)' = LinkedTo(d) \ {r}
    BY <2>1, <2>2, ContextAssumption, NoneAssumption DEF IInv, TypeOK, LinkedTo
  <2>6. /\ r \in LinkedTo(c)
        /\ \A d \in Context \ {c} : r \notin LinkedTo(d)
    BY <1>1, <1>3 DEF LinkedTo
  <2>7. ASSUME NEW d \in Context
        PROVE  rc'[d] = held'[d] + lost'[d] + Cardinality(LinkedTo(d)')
    <3>1. /\ IsFiniteSet(LinkedTo(d)) /\ Cardinality(LinkedTo(d)) \in Nat
          /\ rc[d] = held[d] + lost[d] + Cardinality(LinkedTo(d))
          /\ rc[d] \in Nat /\ held[d] \in Nat /\ lost[d] \in Nat
          /\ held'[d] = held[d] /\ lost'[d] = lost[d]
      BY <1>2, <1>4, LinkedToFinite, ContextAssumption DEF IInv, CountsConserved, Node
    <3>2. CASE d = c
      <4>1. Cardinality(LinkedTo(d) \ {r}) = Cardinality(LinkedTo(d)) - 1
        BY <2>6, <3>1, <3>2, FS_RemoveElement
      <4>2. Cardinality(LinkedTo(d)') = Cardinality(LinkedTo(d)) - 1
        BY <2>5, <4>1
      <4>3. rc'[d] = rc[d] - 1
        BY <1>2, <2>1, <3>2
      <4>. QED
        BY <3>1, <4>2, <4>3
    <3>3. CASE d # c
      <4>1. LinkedTo(d)' = LinkedTo(d)
        BY <2>5, <2>6, <3>3
      <4>2. rc'[d] = rc[d]
        BY <1>2, <2>1, <3>3, ContextAssumption DEF Node
      <4>. QED
        BY <3>1, <4>1, <4>2
    <3>. QED
      BY <3>2, <3>3
  <2>8. ASSUME NEW x \in Cell PROVE rc'[x] = held'[x] + lost'[x]
    BY <1>2, <1>3, <1>4, <1>6, <2>1, ContextAssumption DEF IInv, CountsConserved, Node
  <2>9. ASSUME NEW n \in Node PROVE n \in live' <=> rc'[n] > 0
    BY <1>2, <1>3, <2>1, <2>2 DEF IInv, CountsConserved
  <2>10. CountsConserved'
    BY <2>7, <2>8, <2>9 DEF CountsConserved
  <2>. QED
    BY <2>3, <2>4, <2>10 DEF IInv
<1>. QED
  BY <1>5, <1>6
-----------------------------------------------------------------------------
(* The inductive step. *)
LEMMA NextPreserves == IInv /\ [Next]_vars => IInv'
<1> SUFFICES ASSUME IInv, [Next]_vars PROVE IInv'
  OBVIOUS
<1>1. ASSUME NEW c \in Context, ContextNew(c) PROVE IInv'
  BY <1>1, ContextNewPreserves
<1>2. ASSUME NEW c \in Context, DropContext(c) PROVE IInv'
  BY <1>2, DropContextPreserves
<1>3. ASSUME NEW c \in Context, NEW r \in Cell, GetFromContext(c, r) PROVE IInv'
  BY <1>3, WrapInContextPreserves DEF GetFromContext, ObjectsOf
<1>4. ASSUME NEW c \in Context, NEW r \in Cell, ModuleNew(c, r) PROVE IInv'
  BY <1>4, WrapInContextPreserves, ObjectAssumption DEF ModuleNew
<1>5. ASSUME NEW c \in Context, NEW r \in Cell, ParseBitcode(c, r) PROVE IInv'
  BY <1>5, ParseBitcodePreserves
<1>6. ASSUME NEW c \in Context, NEW r \in Cell, GetTypeByName(c, r) PROVE IInv'
  BY <1>6, GetTypeByNamePreserves
<1>7. ASSUME NEW a \in Cell, NEW r \in Cell, Derive(a, r) PROVE IInv'
  BY <1>7, DerivePreserves
<1>8. ASSUME NEW a \in Cell, NEW r \in Cell, GetVectorType(a, r) PROVE IInv'
  BY <1>8, GetVectorTypePreserves
<1>9. ASSUME NEW cond \in Cell, NEW bb \in Cell, NEW r \in Cell,
             CreateCondBr(cond, bb, r)
      PROVE IInv'
  BY <1>9, CreateCondBrPreserves
<1>10. ASSUME NEW a \in Cell, NEW S \in SUBSET Cell, DeriveArray(a, S) PROVE IInv'
  BY <1>10, DeriveArrayPreserves
<1>11. ASSUME NEW a \in Cell, TypeId(a) PROVE IInv'
  BY <1>11, TypeIdPreserves
<1>12. ASSUME NEW a \in Cell, GetContext(a) PROVE IInv'
  BY <1>12, GetContextPreserves
<1>13. ASSUME NEW a \in Cell, DropCell(a) PROVE IInv'
  BY <1>13, DropCellPreserves
<1>14. ASSUME NEW n \in Node, Share(n) PROVE IInv'
  BY <1>14, SharePreserves
<1>15. CASE UNCHANGED vars
  BY <1>15 DEF vars, IInv, TypeOK, CountsConserved, LinksOwned, LinkedTo
<1>. QED
  BY <1>1, <1>2, <1>3, <1>4, <1>5, <1>6, <1>7, <1>8, <1>9, <1>10, <1>11, <1>12,
     <1>13, <1>14, <1>15 DEF Next

(* The inductive invariant: types, conserved counts, and every link owned  *)
(* by a cell that is live (papyrus_ffi.h:80-115).                          *)
THEOREM Invariance == Spec => []IInv
BY InitEstablishes, NextPreserves, PTL DEF Spec

(* The header counts, links and owners keep their types: in particular no  *)
(* count is ever decremented below zero.                                   *)
THEOREM TypeCorrect == Spec => []TypeOK
<1>1. IInv => TypeOK
  BY DEF IInv
<1>. QED
  BY Invariance, <1>1, PTL

(* No count appears or disappears: each is owned by Lean code, by the link *)
(* of a reference, or lost (papyrus_ffi.h:80-110).                         *)
THEOREM CountsAreConserved == Spec => []CountsConserved
<1>1. IInv => CountsConserved
  BY DEF IInv
<1>. QED
  BY Invariance, <1>1, PTL
-----------------------------------------------------------------------------
(* Only the mismatched operations lose counts. *)
NothingLost == \A n \in Node : lost[n] = 0

(* The operations that fit their declarations lose no count. *)
LEMMA NextLosesNothing ==
  ASSUME ~Mismatched, NothingLost, [Next]_vars
  PROVE  NothingLost'
<1>1. lost' = lost
  BY DEF Next, vars, ContextNew, DropContext, GetFromContext, ModuleNew,
         ParseBitcode, GetTypeByName, WrapInContext, Derive, GetVectorType,
         CreateCondBr, DeriveArray, TypeId, GetContext, LoseArgument, DropCell,
         Share
<1>. QED
  BY <1>1 DEF NothingLost

(* With no lost count, every live object has a holder. *)
LEMMA NothingLostNothingOutlives ==
  IInv /\ NothingLost => NothingOutlivesItsUse
<1> SUFFICES ASSUME IInv, NothingLost, NEW n \in live
             PROVE  held[n] > 0 \/ \E r \in LinkedTo(n) : held[r] > 0
  BY DEF NothingOutlivesItsUse
<1>1. n \in Node /\ rc[n] > 0 /\ lost[n] = 0
      /\ rc[n] \in Nat /\ held[n] \in Nat
  BY DEF IInv, TypeOK, CountsConserved, NothingLost
<1>2. CASE n \in Cell
  BY <1>1, <1>2 DEF IInv, CountsConserved
<1>3. CASE n \in Context
  <2>1. rc[n] = held[n] + Cardinality(LinkedTo(n))
    BY <1>1, <1>3, LinkedToFinite DEF IInv, CountsConserved
  <2>2. CASE LinkedTo(n) = {}
    BY <1>1, <2>1, <2>2, FS_EmptySet
  <2>3. ASSUME NEW r \in LinkedTo(n) PROVE held[r] > 0
    <3>1. r \in live \cap Cell /\ rc[r] > 0 /\ rc[r] = held[r] + lost[r]
      BY DEF LinkedTo, IInv, CountsConserved, Node
    <3>2. held[r] \in Nat /\ lost[r] = 0
      BY <3>1 DEF IInv, TypeOK, NothingLost, Node
    <3>. QED
      BY <3>1, <3>2
  <2>. QED
    BY <2>2, <2>3
<1>. QED
  BY <1>1, <1>2, <1>3 DEF Node

(* Programs that avoid the mismatched operations leak nothing: an LLVM     *)
(* context is deleted as soon as Lean code holds no reference that needs   *)
(* it.                                                                     *)
THEOREM NoLeak ==
  ASSUME ~Mismatched
  PROVE  Spec => []NothingOutlivesItsUse
<1>1. Init => NothingLost
  BY DEF Init, NothingLost
<1>2. NothingLost /\ [Next]_vars => NothingLost'
  BY NextLosesNothing
<1>. QED
  BY <1>1, <1>2, Invariance, NothingLostNothingOutlives, PTL DEF Spec
-----------------------------------------------------------------------------
(* The refinement of OwnershipContract.                                    *)

(* What Lean code holds or nobody can release. *)
Roots == {n \in Node : held[n] + lost[n] > 0}

(* The live objects are the reachable ones, because the counts are right. *)
LEMMA LiveIsReachable == IInv => live = Contract!Reachable(Roots, link)
<1> SUFFICES ASSUME IInv PROVE live = Contract!Reachable(Roots, link)
  OBVIOUS
<1>1. \A r \in Cell : r \in live <=> r \in Roots
  BY DEF IInv, CountsConserved, Roots, Node
<1>2. ASSUME NEW c \in Context
      PROVE  c \in live <=> c \in Roots \/ LinkedTo(c) # {}
  <2>1. rc[c] = held[c] + lost[c] + Cardinality(LinkedTo(c))
        /\ (c \in live <=> rc[c] > 0)
    BY DEF IInv, CountsConserved, Node
  <2>2. held[c] \in Nat /\ lost[c] \in Nat /\ Cardinality(LinkedTo(c)) \in Nat
    BY LinkedToFinite DEF IInv, TypeOK, Node
  <2>3. Cardinality(LinkedTo(c)) = 0 <=> LinkedTo(c) = {}
    BY LinkedToFinite, FS_EmptySet
  <2>. QED
    BY <2>1, <2>2, <2>3 DEF Roots, Node
<1>3. ASSUME NEW c \in Context
      PROVE  LinkedTo(c) # {} <=> \E r \in Roots \cap Cell : link[r] = c
  BY <1>1 DEF LinkedTo
<1>4. live \subseteq Node /\ \A r \in Roots \cap Cell : link[r] \in Context
  BY <1>1 DEF IInv, TypeOK, LinksOwned
<1>. QED
  BY <1>1, <1>2, <1>3, <1>4 DEF Contract!Reachable, Node, Roots

(* What every call does to links and lives. *)
LinkStep ==
  /\ \A r \in live \cap live' \cap Cell : link'[r] = link[r]
  /\ \A r \in (live' \ live) \cap Cell : link'[r] \in live \cap Context
  /\ (live' \cap Context) \ live \subseteq Context \ deleted
  /\ deleted' = deleted \cup ((live \cap Context) \ live')

(* Allocation adds links to one context and keeps the others. *)
LEMMA MkLinkedLinks ==
  ASSUME IInv, NEW S \in SUBSET Cell, NEW c \in live \cap Context,
         NEW f, NEW h, MkLinked(S, c, f, h), UNCHANGED deleted
  PROVE  LinkStep
BY ContextAssumption DEF MkLinked, LinkStep, IInv, TypeOK

(* An operation in LlvmM links to the context that was handed over. *)
LEMMA WrapInContextLinks ==
  ASSUME IInv, NEW c \in Context, NEW r \in Cell, NEW o, WrapInContext(c, r, o)
  PROVE  LinkStep
<1>1. c \in live \cap Context
  BY HeldIsLive DEF WrapInContext, Node
<1>2. MkLinked({r}, c, [x \in {r} |-> o], c) /\ UNCHANGED deleted
  BY DEF WrapInContext
<1>. QED
  BY <1>1, <1>2, MkLinkedLinks

(* A derived reference gets the link of its argument. *)
LEMMA DerivationLinks ==
  ASSUME IInv, NEW a \in Cell, held[a] > 0, NEW S \in SUBSET Cell,
         NEW f, NEW h, MkLinked(S, link[a], f, h), UNCHANGED deleted
  PROVE  LinkStep
<1>1. a \in live \cap Cell
  BY HeldIsLive DEF Node
<1>2. PICK c \in live \cap Context : c = link[a]
  BY <1>1, LinkIsCounted
<1>. QED
  BY <1>2, MkLinkedLinks

(* Dropping a context changes no link and deletes that context only. *)
LEMMA DropContextLinks ==
  ASSUME IInv, NEW c \in Context, DropContext(c)
  PROVE  LinkStep
<1>1. c \in live
  BY HeldIsLive DEF DropContext, Node
<1>. QED
  BY <1>1, ContextAssumption DEF DropContext, ReleaseContext, LinkStep

(* Dropping a cell deletes at most the context it was linked to. *)
LEMMA DropCellLinks ==
  ASSUME IInv, NEW r \in Cell, DropCell(r)
  PROVE  LinkStep
<1>1. r \in live \cap Cell
  BY HeldIsLive DEF DropCell, Node
<1>2. link[r] \in live \cap Context
  BY <1>1, LinkIsCounted
<1>3. CASE rc[r] = 1
  <2>1. /\ link' = [link EXCEPT ![r] = None]
        /\ ReleaseContext(link[r], live \ {r})
    BY <1>3 DEF DropCell
  <2>2. r \notin live'
    BY <2>1 DEF ReleaseContext
  <2>. QED
    BY <1>1, <1>2, <2>1, <2>2, ContextAssumption
    DEF ReleaseContext, LinkStep, IInv, TypeOK
<1>4. CASE rc[r] # 1
  BY <1>4 DEF DropCell, LinkStep
<1>. QED
  BY <1>3, <1>4

(* Every step keeps what LinkStep says of links and deleted contexts. *)
LEMMA NextLinks == IInv /\ [Next]_vars => LinkStep
<1> SUFFICES ASSUME IInv, [Next]_vars PROVE LinkStep
  OBVIOUS
<1>1. ASSUME NEW c \in Context, ContextNew(c) PROVE LinkStep
  BY <1>1, ContextAssumption DEF ContextNew, LinkStep
<1>2. ASSUME NEW c \in Context, DropContext(c) PROVE LinkStep
  BY <1>2, DropContextLinks
<1>3. ASSUME NEW c \in Context, NEW r \in Cell, GetFromContext(c, r) PROVE LinkStep
  BY <1>3, WrapInContextLinks DEF GetFromContext
<1>4. ASSUME NEW c \in Context, NEW r \in Cell, ModuleNew(c, r) PROVE LinkStep
  BY <1>4, WrapInContextLinks DEF ModuleNew
<1>5. ASSUME NEW c \in Context, NEW r \in Cell, ParseBitcode(c, r) PROVE LinkStep
  BY <1>4, <1>5, DropContextLinks DEF ParseBitcode, DropContext
<1>6. ASSUME NEW c \in Context, NEW r \in Cell, GetTypeByName(c, r) PROVE LinkStep
  BY <1>6, WrapInContextLinks DEF GetTypeByName, LinkStep
<1>7. ASSUME NEW a \in Cell, NEW r \in Cell, Derive(a, r) PROVE LinkStep
  BY <1>7, DerivationLinks DEF Derive
<1>8. ASSUME NEW a \in Cell, NEW r \in Cell, GetVectorType(a, r) PROVE LinkStep
  BY <1>8, DerivationLinks DEF GetVectorType
<1>9. ASSUME NEW cond \in Cell, NEW bb \in Cell, NEW r \in Cell,
             CreateCondBr(cond, bb, r)
      PROVE LinkStep
  BY <1>9, DerivationLinks DEF CreateCondBr
<1>10. ASSUME NEW a \in Cell, NEW S \in SUBSET Cell, DeriveArray(a, S) PROVE LinkStep
  BY <1>10, DerivationLinks DEF DeriveArray
<1>11. ASSUME NEW a \in Cell, TypeId(a) \/ GetContext(a) PROVE LinkStep
  BY <1>11 DEF TypeId, GetContext, LinkStep
<1>12. ASSUME NEW a \in Cell, DropCell(a) PROVE LinkStep
  BY <1>12, DropCellLinks
<1>13. ASSUME NEW n \in Node, Share(n) PROVE LinkStep
  BY <1>13 DEF Share, LinkStep
<1>14. CASE UNCHANGED vars
  BY <1>14 DEF vars, LinkStep
<1>. QED
  BY <1>1, <1>2, <1>3, <1>4, <1>5, <1>6, <1>7, <1>8, <1>9, <1>10, <1>11, <1>12,
     <1>13, <1>14 DEF Next

(* A context that lives has not been deleted. *)
LiveNotDeleted == live \cap deleted = {}

(* Links of live cells lead to contexts that have a count. *)
LEMMA IInvImpliesSafety == IInv /\ LiveNotDeleted => NoDanglingRef
BY LinkIsCounted DEF IInv, LinksOwned, LiveNotDeleted, NoDanglingRef

(* A context whose LLVMContext was deleted stays dead: deleteFinalize ran  *)
(* when its object was freed (papyrus_ffi.h:17-20), and it is not made     *)
(* again.                                                                  *)
THEOREM DeletedContextsAreDead == Spec => []LiveNotDeleted
<1>1. Init => LiveNotDeleted
  BY DEF Init, LiveNotDeleted
<1>2. LiveNotDeleted /\ IInv /\ IInv' /\ [Next]_vars => LiveNotDeleted'
  BY NextLinks, ContextAssumption DEF LiveNotDeleted, LinkStep, IInv, TypeOK
<1>. QED
  BY <1>1, <1>2, InitEstablishes, NextPreserves, PTL DEF Spec

(* A module, type or value reference keeps the context of what it points   *)
(* to, also for programs that call the mismatched operations               *)
(* (papyrus_ffi.h:85-110).                                                 *)
THEOREM NoReferenceDangles == Spec => []NoDanglingRef
BY Invariance, DeletedContextsAreDead, IInvImpliesSafety, PTL
-----------------------------------------------------------------------------
(* The counts implement garbage collection: a live object is one that Lean *)
(* code holds, that a held reference needs, or whose count is lost; and an *)
(* LLVM context is deleted in the step in which that ceases to be so.      *)
THEOREM Refinement == Spec => ImplementsContract
<1>1. Init => Contract!Init
  BY DEF Init, Contract!Init, Node
<1>2. (IInv => live = Contract!Reachable(Roots, link))'
  BY LiveIsReachable, PTL
<1>3. IInv /\ IInv' /\ [Next]_vars => [Contract!Next]_(Contract!contractVars)
  <2> SUFFICES ASSUME IInv, IInv', [Next]_vars PROVE Contract!Next
    OBVIOUS
  <2>1. LinkStep
    BY NextLinks
  <2>2. live = Contract!Reachable(Roots, link)
    BY LiveIsReachable
  <2>3. live' = Contract!Reachable(Roots', link')
    BY <1>2
  <2>4. \A r \in Cell : (r \in live <=> r \in Roots) /\ (r \in live' <=> r \in Roots')
    BY DEF IInv, CountsConserved, Roots, Node
  <2>5. Roots' \subseteq live' /\ Roots' \subseteq Node
    BY <2>3 DEF Contract!Reachable, Roots
  <2>6. \A r \in Roots \cap Roots' \cap Cell : link'[r] = link[r]
    BY <2>1, <2>4 DEF LinkStep
  <2>7. \A r \in (Roots' \ Roots) \cap Cell : link'[r] \in live \cap Context
    BY <2>1, <2>4 DEF LinkStep
  <2>8. (Roots' \cap Context) \ live \subseteq Context \ deleted
    BY <2>1, <2>5 DEF LinkStep
  <2>9. deleted' = deleted \cup ((live \cap Context) \ live')
    BY <2>1 DEF LinkStep
  <2>10. Roots' \subseteq Contract!Node
    BY <2>5 DEF Contract!Node, Node
  <2>. QED
    BY <2>3, <2>6, <2>7, <2>8, <2>9, <2>10 DEF Contract!Next, Roots
<1>. QED
  BY <1>1, <1>3, InitEstablishes, NextPreserves, PTL
  DEF Spec, ImplementsContract, Contract!Spec
=============================================================================
