------------------------- MODULE StructTypesProofs -------------------------
(* Proofs about StructTypes: names are unique, types stay as they are, and *)
(* what getRef makes of a pure type is lifted to that type.                *)
EXTENDS StructTypes, SequenceTheorems, TLAPS

-----------------------------------------------------------------------------
(* Lists of LLVM types, and the recursion of purify.                       *)

(* Matches without the function set. *)
LEMMA MatchesMeans ==
  ASSUME NEW refs, NEW ts, NEW in
  PROVE  in \in Matches(refs, ts) <=>
           /\ in = [i \in DOMAIN ts |-> in[i]]
           /\ \A i \in DOMAIN ts : in[i] \in refs[ts[i]]
BY DEF Matches

(* The lists of LLVM types depend on what is inside alone. *)
LEMMA MatchesLocal ==
  ASSUME NEW m, NEW n, NEW ts, \A i \in DOMAIN ts : m[ts[i]] = n[ts[i]]
  PROVE  Matches(m, ts) = Matches(n, ts)
<1>1. ASSUME NEW in PROVE in \in Matches(m, ts) <=> in \in Matches(n, ts)
  BY MatchesMeans
<1> QED BY <1>1

(* More LLVM types give more lists. *)
LEMMA MatchesGrow ==
  ASSUME NEW m, NEW n, NEW ts, \A i \in DOMAIN ts : m[ts[i]] \subseteq n[ts[i]]
  PROVE  Matches(m, ts) \subseteq Matches(n, ts)
<1>1. ASSUME NEW in, in \in Matches(m, ts) PROVE in \in Matches(n, ts)
  BY <1>1, MatchesMeans
<1> QED BY <1>1

(* What is lifted to t depends on what is inside t alone. *)
LEMMA LiftedLocal ==
  ASSUME NEW tab, NEW m, NEW n, NEW t, \A i \in DOMAIN t[3] : m[t[3][i]] = n[t[3][i]]
  PROVE  LiftedTo(tab, m, t) = LiftedTo(tab, n, t)
BY MatchesLocal DEF LiftedTo

(* What holds for a type when it holds for those inside holds for all. *)
LEMMA TypeInduction ==
  ASSUME NEW S \in SUBSET Pure,
         \A t \in Pure : (\A i \in DOMAIN t[3] : t[3][i] \in S) => t \in S
  PROVE  \A t \in Pure : t \in S
BY InductiveAssumption

(* The recursion of purify, on a set of types only. *)
RefsOn(tab, m, D) == D \in Closed /\ m = [t \in D |-> LiftedTo(tab, m, t)]

LEMMA RefsAgree ==
  ASSUME NEW tab, NEW m, NEW n, NEW C, NEW D, RefsOn(tab, m, C), RefsOn(tab, n, D)
  PROVE  \A t \in C \cap D : m[t] = n[t]
<1> DEFINE S == {t \in Pure : t \in C \cap D => m[t] = n[t]}
<1>1. ASSUME NEW t \in Pure, \A i \in DOMAIN t[3] : t[3][i] \in S
      PROVE  t \in S
  <2> SUFFICES ASSUME t \in C \cap D PROVE m[t] = n[t]
    OBVIOUS
  <2>1. \A i \in DOMAIN t[3] : t[3][i] \in C \cap D
    BY DEF RefsOn, Closed
  <2>2. \A i \in DOMAIN t[3] : m[t[3][i]] = n[t[3][i]]
    BY <1>1, <2>1
  <2>3. LiftedTo(tab, m, t) = LiftedTo(tab, n, t)
    BY <2>2, LiftedLocal
  <2> QED BY <2>3 DEF RefsOn
<1>2. \A t \in Pure : t \in S
  <2> HIDE DEF S
  <2>1. S \in SUBSET Pure BY DEF S
  <2> QED BY <1>1, <2>1, TypeInduction
<1>3. C \cap D \subseteq Pure
  BY DEF RefsOn, Closed
<1> QED BY <1>2, <1>3

(* The types inside t, with those inside them, form a closed set. *)
LEMMA RefsExist == \A tab : \A t \in Pure : \E m, D : RefsOn(tab, m, D) /\ t \in D
<1> SUFFICES ASSUME NEW tab
             PROVE  \A t \in Pure : \E m, D : RefsOn(tab, m, D) /\ t \in D
  OBVIOUS
<1> DEFINE S == {t \in Pure : \E m, D : RefsOn(tab, m, D) /\ t \in D}
<1>1. ASSUME NEW t \in Pure, \A i \in DOMAIN t[3] : t[3][i] \in S
      PROVE  t \in S
  <2> DEFINE I == DOMAIN t[3]
  <2>1. \A i \in I : \E m, D : RefsOn(tab, m, D) /\ t[3][i] \in D
    BY <1>1
  <2> DEFINE M(i) == CHOOSE p : RefsOn(tab, p[1], p[2]) /\ t[3][i] \in p[2]
  <2>2. \A i \in I : RefsOn(tab, M(i)[1], M(i)[2]) /\ t[3][i] \in M(i)[2]
    <3> SUFFICES ASSUME NEW i \in I
                 PROVE  \E p : RefsOn(tab, p[1], p[2]) /\ t[3][i] \in p[2]
      BY Zenon
    <3>1. PICK m, D : RefsOn(tab, m, D) /\ t[3][i] \in D BY <2>1
    <3>2. <<m, D>>[1] = m /\ <<m, D>>[2] = D OBVIOUS
    <3> QED BY <3>1, <3>2, Zenon
  <2> HIDE DEF M
  <2> DEFINE inner == UNION {M(i)[2] : i \in I}
  <2>3. CASE t \in inner
    <3>1. PICK i \in I : t \in M(i)[2] BY <2>3
    <3> QED BY <3>1, <2>2
  <2>4. CASE t \notin inner
    <3> DEFINE Of(x) == CHOOSE i \in I : x \in M(i)[2]
               pick == [x \in inner |-> M(Of(x))[1][x]]
               m == [x \in inner \cup {t} |-> IF x = t THEN LiftedTo(tab, pick, t) ELSE pick[x]]
    <3>1. \A x \in inner : Of(x) \in I /\ x \in M(Of(x))[2]
      OBVIOUS
    <3>2. ASSUME NEW i \in I, NEW x \in M(i)[2]
          PROVE  x \in inner /\ pick[x] = M(i)[1][x]
      <4>1. x \in inner OBVIOUS
      <4>2. Of(x) \in I /\ x \in M(Of(x))[2] BY <4>1, <3>1
      <4> HIDE DEF Of
      <4>3. M(i)[1][x] = M(Of(x))[1][x]
        BY <2>2, <4>2, RefsAgree
      <4> QED BY <4>1, <4>3
    <3> HIDE DEF Of
    <3>3. \A i \in I : t[3][i] \in inner
      BY <2>2
    <3>4. ASSUME NEW x \in inner PROVE x \in Pure /\ \A i \in DOMAIN x[3] : x[3][i] \in M(Of(x))[2]
      BY <3>1, <2>2 DEF RefsOn, Closed
    <3>5. inner \cup {t} \in Closed
      <4>1. inner \subseteq Pure BY <3>4
      <4>2. \A x \in inner : \A i \in DOMAIN x[3] : x[3][i] \in inner
        BY <3>4, <3>1
      <4> HIDE DEF inner
      <4> QED BY <4>1, <4>2, <3>3 DEF Closed
    <3>6. ASSUME NEW x \in inner PROVE m[x] = LiftedTo(tab, m, x)
      <4>1. m[x] = M(Of(x))[1][x]
        BY <2>4
      <4>2. M(Of(x))[1][x] = LiftedTo(tab, M(Of(x))[1], x)
        BY <2>2, <3>1 DEF RefsOn
      <4>3. \A i \in DOMAIN x[3] : M(Of(x))[1][x[3][i]] = m[x[3][i]]
        BY <3>1, <3>2, <3>4, <2>4
      <4>4. LiftedTo(tab, M(Of(x))[1], x) = LiftedTo(tab, m, x)
        <5> HIDE DEF m
        <5> QED BY <4>3, LiftedLocal
      <4> HIDE DEF m
      <4> QED BY <4>1, <4>2, <4>4
    <3>7. m[t] = LiftedTo(tab, m, t)
      <4>1. \A i \in DOMAIN t[3] : pick[t[3][i]] = m[t[3][i]]
        BY <3>3, <2>4
      <4>2. m[t] = LiftedTo(tab, pick, t) OBVIOUS
      <4> HIDE DEF pick, m
      <4> QED BY <4>1, <4>2, LiftedLocal
    <3>8. RefsOn(tab, m, inner \cup {t})
      <4>1. m = [x \in inner \cup {t} |-> m[x]] OBVIOUS
      <4> HIDE DEF inner, m
      <4> QED BY <3>5, <3>6, <3>7, <4>1 DEF RefsOn
    <3> QED BY <3>8
  <2> QED BY <2>3, <2>4
<1>2. S \in SUBSET Pure OBVIOUS
<1>3. \A t \in Pure : t \in S
  <2> HIDE DEF S
  <2> QED BY <1>1, <1>2, TypeInduction
<1> QED BY <1>3

(* RefsOf satisfies its equation. *)
LEMMA RefsEquation ==
  ASSUME NEW tab
  PROVE  /\ RefsOf(tab) = [t \in Pure |-> LiftedTo(tab, RefsOf(tab), t)]
         /\ \A t \in Pure : RefsOf(tab)[t] = LiftedTo(tab, RefsOf(tab), t)
<1> DEFINE M(t) == CHOOSE p : RefsOn(tab, p[1], p[2]) /\ t \in p[2]
           F == [t \in Pure |-> M(t)[1][t]]
<1>1. \A t \in Pure : RefsOn(tab, M(t)[1], M(t)[2]) /\ t \in M(t)[2]
  <2> SUFFICES ASSUME NEW t \in Pure
               PROVE  \E p : RefsOn(tab, p[1], p[2]) /\ t \in p[2]
    BY Zenon
  <2>1. PICK m, D : RefsOn(tab, m, D) /\ t \in D BY RefsExist
  <2>2. <<m, D>>[1] = m /\ <<m, D>>[2] = D OBVIOUS
  <2> QED BY <2>1, <2>2, Zenon
<1> HIDE DEF M
<1>2. ASSUME NEW t \in Pure PROVE F[t] = LiftedTo(tab, F, t)
  <2>1. M(t)[1][t] = LiftedTo(tab, M(t)[1], t)
    BY <1>1 DEF RefsOn
  <2>2. ASSUME NEW i \in DOMAIN t[3] PROVE M(t)[1][t[3][i]] = F[t[3][i]]
    <3>1. t[3][i] \in M(t)[2] /\ t[3][i] \in Pure
      BY <1>1 DEF RefsOn, Closed
    <3>2. t[3][i] \in M(t[3][i])[2] BY <1>1, <3>1
    <3> QED BY <1>1, <3>1, <3>2, RefsAgree
  <2>3. LiftedTo(tab, M(t)[1], t) = LiftedTo(tab, F, t)
    <3> HIDE DEF F
    <3> QED BY <2>2, LiftedLocal
  <2> QED BY <2>1, <2>3
<1>3. F = [t \in Pure |-> LiftedTo(tab, F, t)]
  <2>1. F = [t \in Pure |-> F[t]] OBVIOUS
  <2> HIDE DEF F
  <2> QED BY <1>2, <2>1
<1> HIDE DEF F
<1>4. RefsOf(tab) = [t \in Pure |-> LiftedTo(tab, RefsOf(tab), t)]
  <2>1. \E f : f = [t \in Pure |-> LiftedTo(tab, f, t)] BY <1>3, Zenon
  <2> QED BY <2>1, Zenon DEF RefsOf
<1> QED BY <1>4

(* What getRef returns for a type LLVM knows by its structure. *)
LEMMA StructuralLifted ==
  ASSUME NEW tab, NEW t \in Pure, ~IsIdentified(t), NEW in \in Matches(RefsOf(tab), t[3])
  PROVE  <<t[1], t[2], in>> \in RefsOf(tab)[t]
<1> DEFINE r == <<t[1], t[2], in>>
<1>1. r[1] = t[1] /\ r[2] = t[2] /\ r[3] = in /\ r[1] # "ident"
  BY PureAssumption
<1>2. Inside(tab, r) = in /\ PurifyKind(tab, r, t[3]) = t
  <2> HIDE DEF r
  <2> QED BY <1>1, PureAssumption DEF Inside, PurifyKind
<1>3. r \in {<<t[1], t[2], x>> : x \in Matches(RefsOf(tab), t[3])}
  OBVIOUS
<1> HIDE DEF r
<1>4. r \in LiftedTo(tab, RefsOf(tab), t)
  BY <1>2, <1>3 DEF LiftedTo
<1> QED BY <1>4, RefsEquation DEF r

(* What getRef returns for an identified struct. *)
LEMMA IdentifiedLifted ==
  ASSUME NEW tab, NEW t \in Pure, IsIdentified(t), NEW s \in tab.made,
         tab.body[s].elements \in Matches(RefsOf(tab), t[3]),
         PurifyKind(tab, Ident(s), t[3]) = t
  PROVE  Ident(s) \in RefsOf(tab)[t]
<1>1. Inside(tab, Ident(s)) = tab.body[s].elements
  BY DEF Inside, Ident
<1>2. Ident(s) \in LiftedTo(tab, RefsOf(tab), t)
  BY <1>1 DEF LiftedTo
<1> QED BY <1>2, RefsEquation

(* Types are still lifted to the same pure types when there is a new       *)
(* struct.                                                                 *)
LEMMA RefsGrow ==
  ASSUME NEW tab, NEW s \in Struct, s \notin tab.made, NEW u, NEW b, tab.made \subseteq Struct,
         DOMAIN tab.name = Struct, DOMAIN tab.body = Struct
  PROVE  \A t \in Pure : RefsOf(tab)[t] \subseteq RefsOf(Create(tab, s, u, b))[t]
<1> DEFINE new == Create(tab, s, u, b)
           S == {t \in Pure : RefsOf(tab)[t] \subseteq RefsOf(new)[t]}
<1>1. /\ new.made = tab.made \cup {s}
      /\ \A x \in tab.made : new.name[x] = tab.name[x] /\ new.body[x] = tab.body[x]
  BY DEF Create
<1> HIDE DEF new
<1>2. ASSUME NEW t \in Pure, \A i \in DOMAIN t[3] : t[3][i] \in S
      PROVE  t \in S
  <2>1. Matches(RefsOf(tab), t[3]) \subseteq Matches(RefsOf(new), t[3])
    BY <1>2, MatchesGrow
  <2>2. ASSUME NEW r \in LiftedTo(tab, RefsOf(tab), t)
        PROVE  r \in LiftedTo(new, RefsOf(new), t)
    <3>1. CASE IsIdentified(t)
      <4>1. PICK x \in tab.made : r = Ident(x) BY <3>1 DEF LiftedTo
      <4>2. Inside(new, r) = Inside(tab, r) /\ PurifyKind(new, r, t[3]) = PurifyKind(tab, r, t[3])
        BY <1>1, <4>1 DEF Inside, PurifyKind, Ident, GetName
      <4>3. x \in new.made BY <1>1
      <4> QED BY <2>1, <3>1, <4>1, <4>2, <4>3 DEF LiftedTo
    <3>2. CASE ~IsIdentified(t)
      <4>1. PICK in \in Matches(RefsOf(tab), t[3]) : r = <<t[1], t[2], in>>
        BY <3>2 DEF LiftedTo
      <4>2. r[1] # "ident" BY <4>1, PureAssumption
      <4>3. Inside(new, r) = Inside(tab, r) /\ PurifyKind(new, r, t[3]) = PurifyKind(tab, r, t[3])
        BY <4>2 DEF Inside, PurifyKind
      <4>4. r \in {<<t[1], t[2], x>> : x \in Matches(RefsOf(new), t[3])}
        BY <2>1, <4>1
      <4> QED BY <2>1, <3>2, <4>3, <4>4 DEF LiftedTo
    <3> QED BY <3>1, <3>2
  <2>3. RefsOf(tab)[t] = LiftedTo(tab, RefsOf(tab), t) /\ RefsOf(new)[t] = LiftedTo(new, RefsOf(new), t)
    BY RefsEquation
  <2> QED BY <2>2, <2>3
<1>3. \A t \in Pure : t \in S
  <2>1. S \in SUBSET Pure OBVIOUS
  <2> HIDE DEF S
  <2> QED BY <1>2, <2>1, TypeInduction
<1> QED BY <1>3 DEF new

-----------------------------------------------------------------------------
(* The inductive invariant.                                                *)

(* The calls of getRef that are running: each but the innermost waits for  *)
(* the one above it, about the next type inside its own.                   *)
FramesOK ==
  /\ making \in Seq(Range(making))
  /\ making # << >> => got.type \in Pure /\ making[1].type = got.type
  /\ \A k \in 1 .. Len(making) :
       /\ making[k].type \in Parts[got.type]
       /\ making[k].refs \in Seq(Range(making[k].refs))
       /\ Len(making[k].refs) <= Len(making[k].type[3])
       /\ k < Len(making) =>
            /\ Len(making[k].refs) < Len(making[k].type[3])
            /\ making[k + 1].type = making[k].type[3][Len(making[k].refs) + 1]

(* If the type agreed with the context, it still does, and what was made   *)
(* so far is lifted to the types it was made of.                           *)
MadeSoFar ==
  making # << >> /\ got.agreed =>
    /\ Agrees(table, got.type)
    /\ \A k \in 1 .. Len(making) : \A i \in 1 .. Len(making[k].refs) :
         making[k].refs[i] \in RefsOf(table)[making[k].type[3][i]]

TypesInv == TypeOK /\ NamesAreUnique /\ FramesOK /\ MadeSoFar /\ RoundTrips

-----------------------------------------------------------------------------
(* Sequences, parts and names.                                             *)

LEMMA SeqOfItsRange ==
  ASSUME NEW S, NEW s \in Seq(S)
  PROVE  s \in Seq(Range(s))
<1>1. Len(s) \in Nat /\ DOMAIN s = 1 .. Len(s) /\ s = [i \in 1 .. Len(s) |-> s[i]] OBVIOUS
<1>2. \A i \in 1 .. Len(s) : s[i] \in Range(s) BY <1>1 DEF Range
<1> QED BY <1>1, <1>2

LEMMA AppendedSeq ==
  ASSUME NEW s, s \in Seq(Range(s)), NEW e
  PROVE  /\ Append(s, e) \in Seq(Range(Append(s, e)))
         /\ Len(Append(s, e)) = Len(s) + 1
         /\ \A i \in 1 .. Len(s) : Append(s, e)[i] = s[i]
         /\ Append(s, e)[Len(s) + 1] = e
<1> DEFINE S == Range(s) \cup {e}
<1>1. s \in Seq(S) /\ e \in S OBVIOUS
<1> HIDE DEF S
<1>2. /\ Append(s, e) \in Seq(S) /\ Len(Append(s, e)) = Len(s) + 1
      /\ \A i \in 1 .. Len(s) : Append(s, e)[i] = s[i]
      /\ Append(s, e)[Len(s) + 1] = e
  BY <1>1, AppendProperties
<1>3. Append(s, e) \in Seq(Range(Append(s, e)))
  BY <1>2, SeqOfItsRange
<1> QED BY <1>2, <1>3

(* What is inside a part of a type is a part of it. *)
LEMMA PartsClosed ==
  ASSUME NEW t \in Pure
  PROVE  /\ t \in Parts[t] /\ Parts[t] \subseteq Pure
         /\ \A u \in Parts[t] : \A i \in DOMAIN u[3] : u[3][i] \in Parts[t]
<1>1. ASSUME NEW u \in Parts[t], NEW i \in DOMAIN u[3] PROVE u[3][i] \in Parts[t]
  <2>1. u \in Pure /\ u[3][i] \in Pure BY PureAssumption DEF Parts
  <2>2. ASSUME NEW S \in Closed, t \in S PROVE u[3][i] \in S
    <3>1. u \in S BY <2>2 DEF Parts
    <3> QED BY <3>1 DEF Closed
  <2> QED BY <2>1, <2>2 DEF Parts
<1> QED BY <1>1 DEF Parts

LEMMA FreshIsFree ==
  ASSUME TypeOK, table.made # Struct
  PROVE  Fresh(table) \in Struct /\ Fresh(table) \notin table.made
<1>1. \E s \in Struct : s \notin table.made BY DEF TypeOK
<1> QED BY <1>1, Zenon DEF Fresh

(* What getTypeByName? finds. *)
LEMMA FoundByName ==
  ASSUME NEW tab, NEW n, tab.made \subseteq Struct
  PROVE  /\ GetTypeByName(tab, n) # None =>
              /\ n # NoName /\ GetTypeByName(tab, n) \in tab.made
              /\ tab.name[GetTypeByName(tab, n)] = <<n, 0>>
         /\ \A s \in tab.made : tab.name[s] = <<n, 0>> /\ n # NoName => GetTypeByName(tab, n) # None
<1>1. ASSUME NEW s \in tab.made, tab.name[s] = <<n, 0>>, n # NoName
      PROVE  GetTypeByName(tab, n) # None
  <2>1. (CHOOSE x \in tab.made : tab.name[x] = <<n, 0>>) \in tab.made BY <1>1, Zenon
  <2>2. GetTypeByName(tab, n) \in tab.made BY <1>1, <2>1 DEF GetTypeByName
  <2> QED BY <2>2, NameAssumption
<1>2. ASSUME GetTypeByName(tab, n) # None
      PROVE  /\ n # NoName /\ GetTypeByName(tab, n) \in tab.made
             /\ tab.name[GetTypeByName(tab, n)] = <<n, 0>>
  <2>1. n # NoName /\ \E s \in tab.made : tab.name[s] = <<n, 0>> BY <1>2 DEF GetTypeByName
  <2>2. GetTypeByName(tab, n) = CHOOSE s \in tab.made : tab.name[s] = <<n, 0>>
    BY <2>1 DEF GetTypeByName
  <2> QED BY <2>1, <2>2, Zenon
<1> QED BY <1>1, <1>2

(* The innermost call. *)
LEMMA InnermostFrame ==
  ASSUME FramesOK, making # << >>, NEW f, f = Last(making)
  PROVE  /\ Len(making) \in Nat \ {0} /\ f = making[Len(making)]
         /\ got.type \in Pure
         /\ f.type \in Parts[got.type] /\ f.type \in Pure /\ f.type[3] \in Seq(Pure)
         /\ f.refs \in Seq(Range(f.refs)) /\ Len(f.refs) <= Len(f.type[3])
<1>1. Len(making) \in Nat \ {0} /\ f = making[Len(making)] BY DEF FramesOK, Last
<1> QED BY <1>1, PartsClosed, PureAssumption DEF FramesOK

(* getRef returns: the frame below gets the reference. *)
LEMMA Returned ==
  ASSUME FramesOK, making # << >>, NEW ref, Return(ref), Len(making) # 1
  PROVE  /\ making' \in Seq(Range(making')) /\ Len(making) > 1
         /\ Len(making') = Len(making) - 1 /\ got' = got
         /\ \A k \in 1 .. Len(making') :
              /\ making'[k].type = making[k].type
              /\ making'[k].refs =
                   IF k = Len(making') THEN Append(making[k].refs, ref) ELSE making[k].refs
<1> DEFINE n == Len(making)
<1>1. n \in Nat \ {0, 1} /\ making \in Seq(Range(making))
  BY DEF FramesOK
<1>2. Front(making) \in Seq(Range(making)) /\ Len(Front(making)) = n - 1
      /\ \A k \in 1 .. n - 1 : Front(making)[k] = making[k]
  <2>1. Front(making) = [i \in 1 .. n - 1 |-> making[i]]
    BY <1>1 DEF Front
  <2>2. \A k \in 1 .. n - 1 : making[k] \in Range(making)
    BY <1>1 DEF Range
  <2> HIDE DEF n
  <2> QED BY <1>1, <2>1, <2>2
<1>3. got' = got /\ making' = [Front(making) EXCEPT
         ![n - 1] = Frame(Front(making)[n - 1].type, Append(Front(making)[n - 1].refs, ref))]
  BY DEF Return
<1>4. making' \in Seq(Range(making) \cup {Frame(making[n - 1].type, Append(making[n - 1].refs, ref))})
      /\ Len(making') = n - 1
  BY <1>1, <1>2, <1>3
<1>5. \A k \in 1 .. n - 1 : making'[k] =
        IF k = n - 1 THEN Frame(making[k].type, Append(making[k].refs, ref)) ELSE making[k]
  BY <1>1, <1>2, <1>3
<1>6. making' \in Seq(Range(making')) BY <1>4, SeqOfItsRange
<1> HIDE DEF n
<1>7. \A k \in 1 .. n - 1 : Frame(making[k].type, Append(making[k].refs, ref)).type = making[k].type
          /\ Frame(making[k].type, Append(making[k].refs, ref)).refs = Append(making[k].refs, ref)
  BY DEF Frame
<1>8. \A k \in 1 .. Len(making') :
        /\ making'[k].type = making[k].type
        /\ making'[k].refs =
             IF k = Len(making') THEN Append(making[k].refs, ref) ELSE making[k].refs
  BY <1>1, <1>4, <1>5, <1>7
<1> QED BY <1>1, <1>3, <1>4, <1>6, <1>8 DEF n

-----------------------------------------------------------------------------
(* The table.                                                              *)

TableOK ==
  /\ table.made \subseteq Struct
  /\ table.name \in [Struct -> FullName]
  /\ DOMAIN table.body = Struct
  /\ \A s \in Struct \ table.made :
       table.name[s] = <<NoName, 0>> /\ table.body[s] = NoBody

(* A struct gets a name that is free. *)
LEMMA TablePut ==
  ASSUME TypeOK, NamesAreUnique, NEW s \in Struct, NEW u \in FullName, NEW b,
         u = <<NoName, 0>> \/ \A x \in table.made \ {s} : table.name[x] # u,
         table' = Create(table, s, u, b)
  PROVE  TableOK' /\ NamesAreUnique'
<1>1. /\ table'.made = table.made \cup {s}
      /\ table'.name = [table.name EXCEPT ![s] = u]
      /\ table'.body = [table.body EXCEPT ![s] = b]
  BY DEF Create
<1>2. TableOK'
  BY <1>1 DEF TypeOK, TableOK
<1>3. \A x \in Struct : table'.name[x] = IF x = s THEN u ELSE table.name[x]
  BY <1>1 DEF TypeOK
<1>4. NamesAreUnique'
  BY <1>1, <1>3 DEF TypeOK, NamesAreUnique
<1> QED BY <1>2, <1>4

(* The names LLVM gives are free. *)
LEMMA UniqueIsFree ==
  ASSUME NEW s, NEW n \in Name \cup {NoName}, NEW u \in Unique(table, s, n)
  PROVE  u \in FullName /\ (u = <<NoName, 0>> \/ \A x \in table.made \ {s} : table.name[x] # u)
<1>1. 0 \in 0 .. MaxSuffix /\ 1 .. MaxSuffix \subseteq 0 .. MaxSuffix
  BY SuffixAssumption
<1>2. CASE n = NoName
  BY <1>1, <1>2 DEF Unique, FullName
<1>3. CASE n # NoName /\ <<n, 0>> \notin {table.name[x] : x \in table.made \ {s}}
  <2>1. u = <<n, 0>> BY <1>3 DEF Unique
  <2> QED BY <1>1, <1>3, <2>1 DEF FullName
<1>4. CASE n # NoName /\ <<n, 0>> \in {table.name[x] : x \in table.made \ {s}}
  <2>1. u \in {<<n, i>> : i \in 1 .. MaxSuffix} \ {table.name[x] : x \in table.made \ {s}}
    BY <1>4 DEF Unique
  <2> QED BY <1>1, <2>1 DEF FullName
<1> QED BY <1>2, <1>3, <1>4

(* A name of which getTypeByName? finds no struct is free. *)
LEMMA NotFoundIsFree ==
  ASSUME TypeOK, NEW n \in Name \cup {NoName}, GetTypeByName(table, n) = None
  PROVE  /\ <<n, 0>> \in FullName
         /\ <<n, 0>> = <<NoName, 0>> \/ \A x \in table.made : table.name[x] # <<n, 0>>
<1>1. <<n, 0>> \in FullName BY SuffixAssumption DEF FullName
<1>2. table.made \subseteq Struct BY DEF TypeOK
<1> QED BY <1>1, <1>2, FoundByName

(* What a struct that getRef makes is lifted to. *)
LEMMA NewLifted ==
  ASSUME TypeOK, NEW t \in Pure, IsIdentified(t), NEW in \in Matches(RefsOf(table), t[3]),
         NEW s \in Struct, s \notin table.made, NEW b,
         b = IF t[1] = "opaque" THEN NoBody ELSE BodyOf(in, t[2][2])
  PROVE  Ident(s) \in RefsOf(Create(table, s, <<NameOf(t), 0>>, b))[t]
<1> DEFINE new == Create(table, s, <<NameOf(t), 0>>, b)
<1>1. s \in new.made /\ new.name[s] = <<NameOf(t), 0>> /\ new.body[s] = b
  BY DEF Create, TypeOK
<1>2. Matches(RefsOf(table), t[3]) \subseteq Matches(RefsOf(new), t[3])
  <2>1. t[3] \in Seq(Pure) BY PureAssumption
  <2>2. \A i \in DOMAIN t[3] : t[3][i] \in Pure BY <2>1
  <2>3. \A u \in Pure : RefsOf(table)[u] \subseteq RefsOf(new)[u]
    BY RefsGrow DEF TypeOK
  <2> HIDE DEF new
  <2> QED BY <2>2, <2>3, MatchesGrow
<1>3. b.elements \in Matches(RefsOf(new), t[3])
  <2>1. CASE t[1] = "opaque"
    <3>1. b.elements = << >> /\ t[3] = << >> BY <2>1, PureAssumption DEF NoBody
    <3>2. in = << >> BY <3>1, MatchesMeans
    <3> QED BY <3>1, <3>2, <1>2
  <2>2. CASE t[1] # "opaque"
    BY <2>2, <1>2 DEF BodyOf
  <2> QED BY <2>1, <2>2
<1>4. GetName(new, s) = NameOf(t)
  BY <1>1 DEF GetName
<1>5. PurifyKind(new, Ident(s), t[3]) = t
  <2>1. Ident(s)[1] = "ident" /\ Ident(s)[2] = s BY DEF Ident
  <2> HIDE DEF new
  <2>2. CASE t[1] = "opaque"
    <3>1. ~b.hasBody BY <2>2 DEF NoBody
    <3>2. PurifyKind(new, Ident(s), t[3]) = <<"opaque", t[2], << >>>>
      BY <1>1, <1>4, <2>1, <2>2, <3>1 DEF PurifyKind, OpaqueStruct, NameOf
    <3> QED BY <2>2, <3>2, PureAssumption
  <2>3. CASE t[1] = "complete"
    <3>1. b.hasBody /\ b.isPacked = t[2][2] BY <2>3 DEF BodyOf
    <3>2. PurifyKind(new, Ident(s), t[3]) = <<"complete", <<t[2][1], t[2][2]>>, t[3]>>
      BY <1>1, <1>4, <2>1, <2>3, <3>1 DEF PurifyKind, CompleteStruct, NameOf
    <3> QED BY <2>3, <3>2, PureAssumption
  <2> QED BY <2>2, <2>3 DEF IsIdentified
<1> HIDE DEF new
<1>6. new.body[s].elements \in Matches(RefsOf(new), t[3])
  BY <1>1, <1>3
<1>7. Ident(s) \in RefsOf(new)[t]
  BY <1>1, <1>5, <1>6, IdentifiedLifted
<1> QED BY <1>7 DEF new

(* A new struct of a name that t uses, which is what t means by that name. *)
LEMMA AgreesGrow ==
  ASSUME TypeOK, NamesAreUnique, NEW t \in Pure, Agrees(table, t), NEW v \in Identified(t),
         GetTypeByName(table, NameOf(v)) = None,
         NEW s \in Struct, s \notin table.made, NEW new, NEW b,
         new = Create(table, s, <<NameOf(v), 0>>, b), Ident(s) \in RefsOf(new)[v]
  PROVE  Agrees(new, t)
<1>1. /\ new.made = table.made \cup {s} /\ new.made \subseteq Struct
      /\ new.name[s] = <<NameOf(v), 0>>
      /\ \A x \in table.made : new.name[x] = table.name[x]
  BY DEF Create, TypeOK
<1>2. Identified(t) \subseteq Pure BY PartsClosed DEF Identified
<1> SUFFICES ASSUME NEW u \in Identified(t), NameOf(u) # NoName,
                    GetTypeByName(new, NameOf(u)) # None
             PROVE  Ident(GetTypeByName(new, NameOf(u))) \in RefsOf(new)[u]
  BY DEF Agrees
<1> DEFINE n == NameOf(u)
           x == GetTypeByName(new, n)
<1>3. x \in new.made /\ new.name[x] = <<n, 0>>
  BY <1>1, FoundByName
<1> HIDE DEF x
<1>4. CASE x = s
  <2>1. NameOf(v) = n BY <1>1, <1>3, <1>4
  <2>2. v = u BY <2>1 DEF Agrees
  <2> QED BY <1>4, <2>2 DEF x
<1>5. CASE x # s
  <2>1. x \in table.made /\ table.name[x] = <<n, 0>> BY <1>1, <1>3, <1>5
  <2>2. /\ GetTypeByName(table, n) # None /\ GetTypeByName(table, n) \in table.made
        /\ table.name[GetTypeByName(table, n)] = <<n, 0>>
    BY <2>1, FoundByName DEF TypeOK
  <2>3. GetTypeByName(table, n) = x
    <3> HIDE DEF n
    <3> QED BY <2>1, <2>2 DEF NamesAreUnique, n
  <2>4. Ident(x) \in RefsOf(table)[u] BY <2>2, <2>3 DEF Agrees
  <2>5. RefsOf(table)[u] \subseteq RefsOf(new)[u]
    BY <1>2, RefsGrow DEF TypeOK
  <2> QED BY <2>4, <2>5 DEF x
<1> QED BY <1>4, <1>5

-----------------------------------------------------------------------------
(* The steps of getRef.                                                    *)

LEMMA ReturnKeepsFrames ==
  ASSUME FramesOK, making # << >>, NEW ref, Return(ref)
  PROVE  FramesOK'
<1>0. Len(making) \in Nat \ {0} /\ Last(making) = making[Len(making)]
  BY InnermostFrame
<1>1. CASE Len(making) = 1
  <2>1. making' = << >> BY <1>1 DEF Return
  <2> QED BY <2>1 DEF FramesOK
<1>2. CASE Len(making) # 1
  <2>0. Len(making) \in Nat /\ Len(making) > 1
    BY <1>2, Returned, <1>0
  <2>1. /\ making' \in Seq(Range(making'))
        /\ Len(making') = Len(making) - 1 /\ got' = got
        /\ \A k \in 1 .. Len(making') :
             /\ making'[k].type = making[k].type
             /\ making'[k].refs =
                  IF k = Len(making') THEN Append(making[k].refs, ref) ELSE making[k].refs
    BY <1>2, Returned
  <2>2. making' # << >> => got'.type \in Pure /\ making'[1].type = got'.type
    BY <2>0, <2>1 DEF FramesOK
  <2>3. ASSUME NEW k \in 1 .. Len(making')
        PROVE  /\ making'[k].type \in Parts[got'.type]
               /\ making'[k].refs \in Seq(Range(making'[k].refs))
               /\ Len(making'[k].refs) <= Len(making'[k].type[3])
               /\ k < Len(making') =>
                    /\ Len(making'[k].refs) < Len(making'[k].type[3])
                    /\ making'[k + 1].type = making'[k].type[3][Len(making'[k].refs) + 1]
    <3>1. k \in 1 .. Len(making) /\ k < Len(making) BY <2>0, <2>1
    <3>2. /\ making[k].type \in Parts[got.type]
          /\ making[k].refs \in Seq(Range(making[k].refs))
          /\ Len(making[k].refs) < Len(making[k].type[3])
          /\ making[k + 1].type = making[k].type[3][Len(making[k].refs) + 1]
      BY <3>1 DEF FramesOK
    <3>3. making[k].type[3] \in Seq(Pure)
      BY <3>1, <3>2, <2>0, PartsClosed, PureAssumption DEF FramesOK
    <3>4. CASE k = Len(making')
      <4>1. making'[k].refs = Append(making[k].refs, ref) BY <2>1, <3>4
      <4>2. making'[k].refs \in Seq(Range(making'[k].refs))
            /\ Len(making'[k].refs) = Len(making[k].refs) + 1
        BY <3>2, <4>1, AppendedSeq
      <4>3. Len(making[k].refs) \in Nat /\ Len(making[k].type[3]) \in Nat
        BY <3>2, <3>3
      <4> QED BY <2>1, <3>2, <3>4, <4>2, <4>3
    <3>5. CASE k # Len(making')
      <4>1. k \in 1 .. Len(making') /\ k + 1 \in 1 .. Len(making') BY <2>0, <2>1, <3>5
      <4>2. making'[k].type = making[k].type /\ making'[k].refs = making[k].refs
        BY <2>1, <3>5
      <4>3. making'[k + 1].type = making[k + 1].type BY <2>1, <4>1
      <4>4. Len(making[k].refs) \in Nat /\ Len(making[k].type[3]) \in Nat
        BY <3>2, <3>3
      <4>5. got' = got BY <2>1
      <4> QED BY <3>2, <4>2, <4>3, <4>4, <4>5
    <3> QED BY <3>4, <3>5
  <2> QED BY <2>1, <2>2, <2>3 DEF FramesOK
<1> QED BY <1>1, <1>2

(* What is returned is lifted to the type that was asked for, if what is   *)
(* returned to whom it was asked by is.                                    *)
LEMMA ReturnLifts ==
  ASSUME FramesOK, making # << >>, NEW ref, Return(ref),
         got.agreed =>
           /\ Agrees(table', got.type)
           /\ ref \in RefsOf(table')[Last(making).type]
           /\ \A k \in 1 .. Len(making) : \A i \in 1 .. Len(making[k].refs) :
                making[k].refs[i] \in RefsOf(table')[making[k].type[3][i]]
  PROVE  MadeSoFar' /\ RoundTrips'
<1>0. Len(making) \in Nat \ {0} /\ Last(making) = making[Len(making)]
  BY InnermostFrame
<1>1. CASE Len(making) = 1
  <2>1. making' = << >> /\ got' = Result(got.type, got.agreed, ref)
    BY <1>1 DEF Return
  <2>2. got'.type = got.type /\ got'.agreed = got.agreed /\ got'.ref = ref
    BY <2>1 DEF Result
  <2>3. Last(making).type = got.type BY <1>0, <1>1 DEF FramesOK
  <2>4. MadeSoFar' BY <2>1 DEF MadeSoFar
  <2>5. RoundTrips' BY <2>2, <2>3 DEF RoundTrips
  <2> QED BY <2>4, <2>5
<1>2. CASE Len(making) # 1
  <2>1. /\ making' \in Seq(Range(making'))
        /\ Len(making') = Len(making) - 1 /\ got' = got
        /\ \A k \in 1 .. Len(making') :
             /\ making'[k].type = making[k].type
             /\ making'[k].refs =
                  IF k = Len(making') THEN Append(making[k].refs, ref) ELSE making[k].refs
    BY <1>2, Returned
  <2>2. making' # << >> BY <1>0, <1>2, <2>1
  <2>3. ASSUME got.agreed, NEW k \in 1 .. Len(making'), NEW i \in 1 .. Len(making'[k].refs)
        PROVE  making'[k].refs[i] \in RefsOf(table')[making'[k].type[3][i]]
    <3>1. k \in 1 .. Len(making) /\ k < Len(making) BY <1>0, <2>1
    <3>2. CASE k # Len(making') BY <2>1, <2>3, <3>1, <3>2
    <3>3. CASE k = Len(making')
      <4>1. /\ making[k].refs \in Seq(Range(making[k].refs))
            /\ making[k + 1].type = making[k].type[3][Len(making[k].refs) + 1]
        BY <3>1 DEF FramesOK
      <4>2. k + 1 = Len(making) BY <1>0, <2>1, <3>3
      <4>3. making'[k].refs = Append(making[k].refs, ref) BY <2>1, <3>3
      <4>4. /\ Len(making'[k].refs) = Len(making[k].refs) + 1
            /\ \A j \in 1 .. Len(making[k].refs) : making'[k].refs[j] = making[k].refs[j]
            /\ making'[k].refs[Len(making[k].refs) + 1] = ref
        BY <4>1, <4>3, AppendedSeq
      <4>5. Len(making[k].refs) \in Nat BY <4>1
      <4>6. making'[k].type = making[k].type BY <2>1
      <4>7. CASE i = Len(making[k].refs) + 1
        BY <1>0, <2>3, <4>1, <4>2, <4>4, <4>6, <4>7
      <4>8. CASE i # Len(making[k].refs) + 1
        <5>1. i \in 1 .. Len(making[k].refs) BY <4>4, <4>5, <4>8
        <5> QED BY <2>3, <3>1, <4>4, <4>6, <5>1
      <4> QED BY <4>7, <4>8
    <3> QED BY <3>2, <3>3
  <2>4. MadeSoFar' BY <2>1, <2>3 DEF MadeSoFar
  <2>5. RoundTrips' BY <2>2 DEF RoundTrips
  <2> QED BY <2>4, <2>5
<1> QED BY <1>1, <1>2

LEMMA RefsMatch ==
  ASSUME FramesOK, MadeSoFar, making # << >>, got.agreed, NEW f, f = Last(making),
         Len(f.refs) = Len(f.type[3])
  PROVE  f.refs \in Matches(RefsOf(table), f.type[3])
<1>1. /\ Len(making) \in Nat \ {0} /\ f = making[Len(making)]
      /\ f.type[3] \in Seq(Pure) /\ f.refs \in Seq(Range(f.refs))
  BY InnermostFrame
<1>2. DOMAIN f.refs = DOMAIN f.type[3] /\ DOMAIN f.refs = 1 .. Len(f.refs)
      /\ f.refs = [i \in DOMAIN f.refs |-> f.refs[i]]
  BY <1>1
<1>3. \A i \in DOMAIN f.refs : f.refs[i] \in RefsOf(table)[f.type[3][i]]
  BY <1>1, <1>2 DEF MadeSoFar
<1> QED BY <1>2, <1>3, MatchesMeans

(* The types on the stack are pure types. *)
FramesTyped == \A k \in DOMAIN making : making[k].type \in Pure

LEMMA FramesAreTyped == FramesOK => FramesTyped
<1> SUFFICES ASSUME FramesOK PROVE FramesTyped
  OBVIOUS
<1>1. DOMAIN making = 1 .. Len(making) BY DEF FramesOK
<1>2. CASE making = << >> BY <1>2 DEF FramesTyped
<1>3. CASE making # << >>
  <2>1. Parts[got.type] \subseteq Pure BY <1>3, PartsClosed DEF FramesOK
  <2> QED BY <1>1, <2>1 DEF FramesOK, FramesTyped
<1> QED BY <1>2, <1>3

-----------------------------------------------------------------------------
(* The invariant is inductive.                                             *)

LEMMA TypesInvInit == Init => TypesInv
<1> SUFFICES ASSUME Init PROVE TypesInv
  OBVIOUS
<1>1. 0 \in 0 .. MaxSuffix BY SuffixAssumption
<1>2. TypeOK
  <2>1. <<NoName, 0>> \in FullName BY <1>1 DEF FullName
  <2>2. DOMAIN making = {} BY DEF Init
  <2> QED BY <2>1, <2>2 DEF Init, TypeOK
<1>3. NamesAreUnique BY DEF Init, NamesAreUnique
<1>4. FramesOK
  <2>1. making = << >> /\ Len(making) = 0 BY DEF Init
  <2>2. making \in Seq(Range(making)) BY <2>1
  <2> QED BY <2>1, <2>2 DEF FramesOK
<1>5. MadeSoFar /\ RoundTrips BY DEF Init, MadeSoFar, RoundTrips
<1> QED BY <1>2, <1>3, <1>4, <1>5 DEF TypesInv

(* Operations of the program other than getRef leave none running. *)
LEMMA NoneRunning ==
  ASSUME making' = << >>, got' = None
  PROVE  FramesOK' /\ MadeSoFar' /\ RoundTrips'
<1>1. making' \in Seq(Range(making')) /\ Len(making') = 0 BY DEF Range
<1>2. FramesOK' BY <1>1 DEF FramesOK
<1> QED BY <1>2 DEF MadeSoFar, RoundTrips

LEMMA CallGetRefStep ==
  ASSUME TypesInv, NEW t \in Pure, CallGetRef(t)
  PROVE  TypesInv'
<1>1. /\ making' = <<Frame(t, << >>)>> /\ got' = Result(t, Agrees(table, t), None)
      /\ table' = table /\ crashed' = crashed
  BY DEF CallGetRef
<1>2. Len(making') = 1 /\ making'[1].type = t /\ making'[1].refs = << >>
  BY <1>1 DEF Frame
<1>3. got'.type = t /\ (got'.agreed <=> Agrees(table, t)) BY <1>1 DEF Result
<1>4. making' \in Seq(Range(making'))
  <2>1. making' \in Seq({Frame(t, << >>)}) BY <1>1
  <2> QED BY <2>1, SeqOfItsRange
<1>5. t \in Parts[t] /\ t[3] \in Seq(Pure) /\ Len(<< >>) = 0 /\ << >> \in Seq(Range(<< >>))
  BY PartsClosed, PureAssumption
<1>6. FramesOK'
  <2>1. ASSUME NEW k \in 1 .. Len(making') PROVE k = 1 /\ ~(k < Len(making'))
    BY <1>2
  <2>2. Len(making'[1].refs) <= Len(making'[1].type[3])
    BY <1>2, <1>5
  <2>3. making'[1].type \in Parts[got'.type] /\ making'[1].type = got'.type /\ got'.type \in Pure
    BY <1>2, <1>3, <1>5
  <2>4. making'[1].refs \in Seq(Range(making'[1].refs))
    BY <1>2, <1>5
  <2> QED BY <1>4, <2>1, <2>2, <2>3, <2>4 DEF FramesOK
<1>7. MadeSoFar'
  BY <1>1, <1>2, <1>3, <1>5 DEF MadeSoFar
<1>8. RoundTrips'
  BY <1>1, <1>2 DEF RoundTrips
<1>9. TypeOK' /\ NamesAreUnique'
  <2>1. FramesTyped' BY <1>6, FramesAreTyped, PTL
  <2> QED BY <1>1, <2>1 DEF TypesInv, TypeOK, NamesAreUnique, FramesTyped
<1> QED BY <1>6, <1>7, <1>8, <1>9 DEF TypesInv

LEMMA GetRefInsideStep ==
  ASSUME TypesInv, GetRefInside
  PROVE  TypesInv'
<1> DEFINE f == Last(making)
           u == f.type[3][Len(f.refs) + 1]
<1>1. /\ making # << >> /\ Len(f.refs) < Len(f.type[3])
      /\ making' = Append(making, Frame(u, << >>))
      /\ table' = table /\ got' = got /\ crashed' = crashed
  BY DEF GetRefInside
<1>2. /\ Len(making) \in Nat \ {0} /\ f = making[Len(making)]
      /\ got.type \in Pure /\ f.type \in Parts[got.type] /\ f.type[3] \in Seq(Pure)
      /\ f.refs \in Seq(Range(f.refs))
  BY <1>1, InnermostFrame DEF TypesInv
<1>3. u \in Parts[got.type]
  <2>1. Len(f.refs) + 1 \in DOMAIN f.type[3] BY <1>1, <1>2
  <2> QED BY <1>2, <2>1, PartsClosed
<1>4. /\ making' \in Seq(Range(making')) /\ Len(making') = Len(making) + 1
      /\ \A k \in 1 .. Len(making) : making'[k] = making[k]
      /\ making'[Len(making) + 1] = Frame(u, << >>)
  BY <1>1, AppendedSeq DEF TypesInv, FramesOK
<1> HIDE DEF u, f
<1>5. making'[Len(making) + 1].type = u /\ making'[Len(making) + 1].refs = << >>
  BY <1>4 DEF Frame
<1>6. FramesOK'
  <2>1. making' # << >> => got'.type \in Pure /\ making'[1].type = got'.type
    BY <1>1, <1>2, <1>4 DEF TypesInv, FramesOK
  <2>2. ASSUME NEW k \in 1 .. Len(making')
        PROVE  /\ making'[k].type \in Parts[got'.type]
               /\ making'[k].refs \in Seq(Range(making'[k].refs))
               /\ Len(making'[k].refs) <= Len(making'[k].type[3])
               /\ k < Len(making') =>
                    /\ Len(making'[k].refs) < Len(making'[k].type[3])
                    /\ making'[k + 1].type = making'[k].type[3][Len(making'[k].refs) + 1]
    <3>1. CASE k = Len(making) + 1
      <4>1. u[3] \in Seq(Pure) /\ Len(u[3]) \in Nat /\ Len(<< >>) = 0 /\ << >> \in Seq(Range(<< >>))
        <5>1. u \in Pure BY <1>2, <1>3, PartsClosed
        <5>2. u[3] \in Seq(Pure) BY <5>1, PureAssumption
        <5>3. Len(<< >>) = 0 /\ << >> \in Seq(Range(<< >>)) OBVIOUS
        <5> QED BY <5>2, <5>3
      <4>2. /\ making'[k].type = u /\ making'[k].refs = << >>
            /\ got' = got /\ ~(k < Len(making'))
        BY <1>1, <1>2, <1>4, <1>5, <3>1
      <4> QED BY <1>3, <4>1, <4>2
    <3>2. CASE k = Len(making)
      <4>1. making'[k] = f /\ making'[k + 1].type = u
        BY <1>2, <1>4, <1>5, <3>2
      <4>2. Len(f.refs) \in Nat /\ Len(f.type[3]) \in Nat BY <1>2
      <4>3. Len(f.refs) < Len(f.type[3]) /\ got' = got /\ f.type \in Parts[got.type]
        BY <1>1, <1>2
      <4> QED BY <1>2, <4>1, <4>2, <4>3 DEF u
    <3>3. CASE k < Len(making)
      <4>1. k \in 1 .. Len(making) /\ k + 1 \in 1 .. Len(making) BY <1>2, <3>3
      <4>2. making'[k] = making[k] /\ making'[k + 1] = making[k + 1] BY <1>4, <4>1
      <4> QED BY <1>1, <3>3, <4>1, <4>2 DEF TypesInv, FramesOK
    <3> QED BY <1>2, <1>4, <3>1, <3>2, <3>3
  <2> QED BY <1>4, <2>1, <2>2 DEF FramesOK
<1>7. MadeSoFar'
  <2> SUFFICES ASSUME got'.agreed
               PROVE  /\ Agrees(table', got'.type)
                      /\ \A k \in 1 .. Len(making') : \A i \in 1 .. Len(making'[k].refs) :
                           making'[k].refs[i] \in RefsOf(table')[making'[k].type[3][i]]
    BY DEF MadeSoFar
  <2>1. ASSUME NEW k \in 1 .. Len(making'), NEW i \in 1 .. Len(making'[k].refs)
        PROVE  making'[k].refs[i] \in RefsOf(table')[making'[k].type[3][i]]
    <3>1. k # Len(making) + 1 BY <1>5
    <3>2. k \in 1 .. Len(making) BY <1>2, <1>4, <3>1
    <3>3. making'[k] = making[k] BY <1>4, <3>2
    <3> QED BY <1>1, <2>1, <3>2, <3>3 DEF TypesInv, MadeSoFar
  <2>2. Agrees(table', got'.type) BY <1>1 DEF TypesInv, MadeSoFar
  <2> QED BY <2>1, <2>2
<1>8. RoundTrips'
  BY <1>2, <1>4 DEF RoundTrips
<1>9. TypeOK' /\ NamesAreUnique'
  <2>1. FramesTyped' BY <1>6, FramesAreTyped, PTL
  <2> QED BY <1>1, <2>1 DEF TypesInv, TypeOK, NamesAreUnique, FramesTyped
<1> QED BY <1>6, <1>7, <1>8, <1>9 DEF TypesInv

LEMMA GetStructuralStep ==
  ASSUME TypesInv, GetStructural
  PROVE  TypesInv'
<1> DEFINE f == Last(making)
           ref == <<f.type[1], f.type[2], f.refs>>
<1>1. /\ making # << >> /\ ~IsIdentified(f.type) /\ Len(f.refs) = Len(f.type[3])
      /\ Return(ref) /\ table' = table /\ crashed' = crashed
  BY DEF GetStructural
<1>2. f.type \in Pure /\ f = Last(making) BY <1>1, InnermostFrame DEF TypesInv
<1>3. ASSUME got.agreed PROVE ref \in RefsOf(table)[f.type]
  <2>1. f.refs \in Matches(RefsOf(table), f.type[3])
    BY <1>1, <1>3, RefsMatch DEF TypesInv
  <2> HIDE DEF f
  <2> QED BY <1>1, <1>2, <2>1, StructuralLifted
<1> HIDE DEF ref
<1>4. FramesOK' BY <1>1, ReturnKeepsFrames DEF TypesInv
<1>5. MadeSoFar' /\ RoundTrips'
  <2>1. got.agreed =>
           /\ Agrees(table', got.type)
           /\ ref \in RefsOf(table')[Last(making).type]
           /\ \A k \in 1 .. Len(making) : \A i \in 1 .. Len(making[k].refs) :
                making[k].refs[i] \in RefsOf(table')[making[k].type[3][i]]
    BY <1>1, <1>3 DEF TypesInv, MadeSoFar
  <2> QED BY <1>1, <2>1, ReturnLifts DEF TypesInv
<1>6. TypeOK' /\ NamesAreUnique'
  <2>1. FramesTyped' BY <1>4, FramesAreTyped, PTL
  <2> QED BY <1>1, <2>1 DEF TypesInv, TypeOK, NamesAreUnique, FramesTyped
<1> QED BY <1>4, <1>5, <1>6 DEF TypesInv

LEMMA GetIdentifiedStep ==
  ASSUME TypesInv, GetIdentified
  PROVE  TypesInv'
<1> DEFINE f == Last(making)
           n == NameOf(f.type)
           b == IF f.type[1] = "opaque" THEN NoBody ELSE BodyOf(f.refs, f.type[2][2])
           g == GetOrCreate(table, n, b)
<1>1. /\ making # << >> /\ IsIdentified(f.type) /\ Len(f.refs) = Len(f.type[3])
      /\ GetTypeByName(table, n) = None => table.made # Struct
      /\ table' = g.table
      /\ Return(Ident(g.struct)) /\ crashed' = crashed
  BY DEF GetIdentified
<1>2. f.type \in Pure /\ f.type \in Parts[got.type] /\ got.type \in Pure
  BY <1>1, InnermostFrame DEF TypesInv
<1>3. n \in Name \cup {NoName} BY <1>1, <1>2, PureAssumption
<1> HIDE DEF f, n
<1>4. FramesOK'
  <2> HIDE DEF g
  <2> QED BY <1>1, ReturnKeepsFrames DEF TypesInv
<1>5. FramesTyped' BY <1>4, FramesAreTyped, PTL
<1>6. ASSUME got.agreed
      PROVE  /\ Agrees(table, got.type) /\ f.type \in Identified(got.type)
             /\ \A k \in 1 .. Len(making) : \A i \in 1 .. Len(making[k].refs) :
                  /\ making[k].refs[i] \in RefsOf(table)[making[k].type[3][i]]
                  /\ making[k].type[3][i] \in Pure
             /\ f.refs \in Matches(RefsOf(table), f.type[3])
  <2>1. ASSUME NEW k \in 1 .. Len(making), NEW i \in 1 .. Len(making[k].refs)
        PROVE  making[k].type[3][i] \in Pure
    <3>1. /\ making[k].type \in Parts[got.type] /\ making[k].refs \in Seq(Range(making[k].refs))
          /\ Len(making[k].refs) <= Len(making[k].type[3])
      BY DEF TypesInv, FramesOK
    <3>2. making[k].type \in Pure BY <1>2, <3>1, PartsClosed
    <3>3. making[k].type[3] \in Seq(Pure) BY <3>2, PureAssumption
    <3> QED BY <3>1, <3>3
  <2>2. f.refs \in Matches(RefsOf(table), f.type[3])
    BY <1>1, <1>6, RefsMatch DEF TypesInv, f
  <2>3. f.type \in Identified(got.type) BY <1>1, <1>2 DEF Identified
  <2> QED BY <1>1, <1>6, <2>1, <2>2, <2>3 DEF TypesInv, MadeSoFar
<1>7. CASE GetTypeByName(table, n) # None
  <2> DEFINE s == GetTypeByName(table, n)
  <2>1. table' = table BY <1>1, <1>7 DEF GetOrCreate
  <2>2. Return(Ident(s)) BY <1>1, <1>7 DEF GetOrCreate
  <2>3. n # NoName
    BY <1>7, FoundByName DEF TypesInv, TypeOK
  <2>4. ASSUME got.agreed PROVE Ident(s) \in RefsOf(table)[f.type]
    BY <1>6, <1>7, <2>3, <2>4, SMTT(30) DEF Agrees, n
  <2> HIDE DEF s, b, g
  <2>5. MadeSoFar' /\ RoundTrips'
    <3>1. got.agreed =>
             /\ Agrees(table', got.type)
             /\ Ident(s) \in RefsOf(table')[Last(making).type]
             /\ \A k \in 1 .. Len(making) : \A i \in 1 .. Len(making[k].refs) :
                  making[k].refs[i] \in RefsOf(table')[making[k].type[3][i]]
      BY <1>6, <2>1, <2>4 DEF f
    <3>2. making # << >> /\ FramesOK BY <1>1 DEF TypesInv
    <3> QED BY <2>2, <3>1, <3>2, ReturnLifts
  <2>6. TypeOK' /\ NamesAreUnique'
    BY <1>1, <1>5, <2>1 DEF TypesInv, TypeOK, NamesAreUnique, FramesTyped
  <2> QED BY <1>4, <2>5, <2>6 DEF TypesInv
<1>8. CASE GetTypeByName(table, n) = None
  <2> DEFINE s == Fresh(table)
  <2>1. table' = Create(table, s, <<n, 0>>, b) /\ Return(Ident(s))
    BY <1>1, <1>8 DEF GetOrCreate
  <2>2. s \in Struct /\ s \notin table.made
    BY <1>1, <1>8, FreshIsFree DEF TypesInv
  <2> HIDE DEF s, b, g
  <2>3. TableOK' /\ NamesAreUnique'
    <3>1. /\ <<n, 0>> \in FullName
          /\ <<n, 0>> = <<NoName, 0>> \/ \A x \in table.made : table.name[x] # <<n, 0>>
      BY <1>3, <1>8, NotFoundIsFree DEF TypesInv
    <3> QED BY <2>1, <2>2, <3>1, TablePut DEF TypesInv
  <2>4. ASSUME got.agreed
        PROVE  /\ Ident(s) \in RefsOf(table')[f.type] /\ Agrees(table', got.type)
               /\ \A k \in 1 .. Len(making) : \A i \in 1 .. Len(making[k].refs) :
                    making[k].refs[i] \in RefsOf(table')[making[k].type[3][i]]
    <3>1. b = IF f.type[1] = "opaque" THEN NoBody ELSE BodyOf(f.refs, f.type[2][2])
      BY DEF b
    <3>2. Ident(s) \in RefsOf(Create(table, s, <<NameOf(f.type), 0>>, b))[f.type]
      BY <1>1, <1>2, <1>6, <2>2, <2>4, <3>1, NewLifted DEF TypesInv
    <3>3. Ident(s) \in RefsOf(table')[f.type] BY <2>1, <3>2 DEF n
    <3>4. Agrees(table', got.type)
      BY <1>2, <1>6, <1>8, <2>1, <2>2, <2>4, <3>3, AgreesGrow DEF TypesInv, n
    <3>5. \A t \in Pure : RefsOf(table)[t] \subseteq RefsOf(table')[t]
      BY <2>1, <2>2, RefsGrow DEF TypesInv, TypeOK
    <3> QED BY <1>6, <2>4, <3>3, <3>4, <3>5
  <2>5. MadeSoFar' /\ RoundTrips'
    BY <1>1, <2>1, <2>4, ReturnLifts DEF TypesInv, f
  <2>6. TypeOK'
    BY <1>1, <1>5, <2>3 DEF TypesInv, TypeOK, TableOK, FramesTyped
  <2> QED BY <1>4, <2>3, <2>5, <2>6 DEF TypesInv
<1> QED BY <1>7, <1>8

(* The other operations give a struct a name that is free, or none. *)
LEMMA ProgramStep ==
  ASSUME TypesInv, NEW s \in Struct, NEW n \in Name \cup {NoName}, NEW u \in Unique(table, s, n),
         NEW b, table' = Create(table, s, u, b), making' = << >>, got' = None, crashed' = crashed
  PROVE  TypesInv'
<1>1. TableOK' /\ NamesAreUnique'
  BY TablePut, UniqueIsFree DEF TypesInv
<1>2. FramesOK' /\ MadeSoFar' /\ RoundTrips' BY NoneRunning
<1>3. TypeOK'
  BY <1>1 DEF TypesInv, TypeOK, TableOK
<1> QED BY <1>1, <1>2, <1>3 DEF TypesInv

LEMMA QuietStep ==
  ASSUME TypesInv, table' = table, crashed' \in BOOLEAN,
         \/ making' = << >> /\ got' = None
         \/ making' = making /\ got' = got
  PROVE  TypesInv'
<1>1. CASE making' = << >> /\ got' = None
  <2>1. FramesOK' /\ MadeSoFar' /\ RoundTrips' BY <1>1, NoneRunning
  <2> QED BY <1>1, <2>1 DEF TypesInv, TypeOK, NamesAreUnique
<1>2. CASE making' = making /\ got' = got
  BY <1>2 DEF TypesInv, TypeOK, NamesAreUnique, FramesOK, MadeSoFar, RoundTrips
<1> QED BY <1>1, <1>2

LEMMA TypesInvNext ==
  ASSUME TypesInv, [Next]_vars
  PROVE  TypesInv'
<1>1. ASSUME NEW t \in Pure, CallGetRef(t) PROVE TypesInv'
  BY <1>1, CallGetRefStep
<1>2. CASE GetRefInside BY <1>2, GetRefInsideStep
<1>3. CASE GetStructural BY <1>3, GetStructuralStep
<1>4. CASE GetIdentified BY <1>4, GetIdentifiedStep
<1>5. ASSUME NEW n \in Name \cup {NoName}, NEW b, CallCreate(n, b) PROVE TypesInv'
  <2>1. Fresh(table) \in Struct BY <1>5, FreshIsFree DEF CallCreate, TypesInv
  <2>2. PICK u \in Unique(table, Fresh(table), n) : table' = Create(table, Fresh(table), u, b)
    BY <1>5 DEF CallCreate
  <2> QED BY <1>5, <2>1, <2>2, ProgramStep DEF CallCreate, Idle
<1>6. ASSUME NEW n \in Name \cup {NoName}, ParseRecursive(n) PROVE TypesInv'
  <2>1. Fresh(table) \in Struct BY <1>6, FreshIsFree DEF ParseRecursive, TypesInv
  <2>2. PICK u \in Unique(table, Fresh(table), n) :
          table' = Create(table, Fresh(table), u, BodyOf(<<Pointer(Ident(Fresh(table)), 0)>>, FALSE))
    BY <1>6 DEF ParseRecursive
  <2> QED BY <1>6, <2>1, <2>2, ProgramStep DEF ParseRecursive, Idle
<1>7. ASSUME NEW s \in Struct, NEW n \in Name \cup {NoName}, SetName(s, n) PROVE TypesInv'
  <2>1. PICK u \in Unique(table, s, n) : table' = Create(table, s, u, table.body[s])
    BY <1>7 DEF SetName
  <2> QED BY <1>7, <2>1, ProgramStep DEF SetName, Idle
<1>8. ASSUME NEW s \in Struct, SetBody(s) \/ CallPurify(s) PROVE TypesInv'
  BY <1>8, QuietStep DEF SetBody, CallPurify, Idle, TypesInv, TypeOK
<1>9. CASE LiftOne \/ UNCHANGED vars
  BY <1>9, QuietStep DEF LiftOne, vars, TypesInv, TypeOK
<1> QED BY <1>1, <1>2, <1>3, <1>4, <1>5, <1>6, <1>7, <1>8, <1>9 DEF Next

(* The table names each struct once, and getRef has made the beginning of  *)
(* what it was asked for.                                                  *)
THEOREM TypesInvariant == Spec => []TypesInv
<1>1. Init => TypesInv BY TypesInvInit
<1>2. TypesInv /\ [Next]_vars => TypesInv' BY TypesInvNext
<1> QED BY <1>1, <1>2, PTL DEF Spec

-----------------------------------------------------------------------------
(* Theorems.                                                               *)

(* A struct that is not in the table has neither name nor body, and what   *)
(* getRef is making are pure types.                                        *)
THEOREM TypeCorrect == Spec => []TypeOK
<1>1. TypesInv => TypeOK BY DEF TypesInv
<1> QED BY <1>1, TypesInvariant, PTL

(* A context has one struct of a name, wherever the names come from.       *)
THEOREM NamesUnique == Spec => []NamesAreUnique
<1>1. TypesInv => NamesAreUnique BY DEF TypesInv
<1> QED BY <1>1, TypesInvariant, PTL

(* What getRef makes of a pure type that agrees with the context is lifted *)
(* by purify to that type.                                                 *)
THEOREM PureTypesRoundTrip == Spec => []RoundTrips
<1>1. TypesInv => RoundTrips BY DEF TypesInv
<1> QED BY <1>1, TypesInvariant, PTL

(* purify lifts an LLVM type to one pure type, in any context: so no two   *)
(* pure types that survive the round trip have one LLVM type.              *)
THEOREM LiftedOnce ==
  ASSUME NEW tab, NEW t \in Pure, NEW u \in Pure, NEW r,
         r \in RefsOf(tab)[t], r \in RefsOf(tab)[u]
  PROVE  t = u
<1> DEFINE S == {v \in Pure : \A w \in Pure : RefsOf(tab)[v] \cap RefsOf(tab)[w] # {} => v = w}
<1>1. ASSUME NEW v \in Pure, \A i \in DOMAIN v[3] : v[3][i] \in S
      PROVE  v \in S
  <2> SUFFICES ASSUME NEW w \in Pure, NEW x \in RefsOf(tab)[v], x \in RefsOf(tab)[w]
               PROVE  v = w
    OBVIOUS
  <2>1. x \in LiftedTo(tab, RefsOf(tab), v) /\ x \in LiftedTo(tab, RefsOf(tab), w)
    BY RefsEquation
  <2>2. /\ Inside(tab, x) \in Matches(RefsOf(tab), v[3]) /\ PurifyKind(tab, x, v[3]) = v
        /\ Inside(tab, x) \in Matches(RefsOf(tab), w[3]) /\ PurifyKind(tab, x, w[3]) = w
    BY <2>1 DEF LiftedTo
  <2>3. /\ Inside(tab, x) = [i \in DOMAIN v[3] |-> Inside(tab, x)[i]]
        /\ Inside(tab, x) = [i \in DOMAIN w[3] |-> Inside(tab, x)[i]]
        /\ \A i \in DOMAIN v[3] : Inside(tab, x)[i] \in RefsOf(tab)[v[3][i]]
        /\ \A i \in DOMAIN w[3] : Inside(tab, x)[i] \in RefsOf(tab)[w[3][i]]
    BY <2>2, MatchesMeans
  <2>4. DOMAIN v[3] = DOMAIN w[3] BY <2>3
  <2>5. v[3] \in Seq(Pure) /\ w[3] \in Seq(Pure) BY PureAssumption
  <2>6. ASSUME NEW i \in DOMAIN v[3] PROVE v[3][i] = w[3][i]
    <3>1. v[3][i] \in S /\ w[3][i] \in Pure BY <1>1, <2>4, <2>5
    <3>2. Inside(tab, x)[i] \in RefsOf(tab)[v[3][i]] \cap RefsOf(tab)[w[3][i]]
      BY <2>3, <2>4
    <3> QED BY <3>1, <3>2
  <2>7. v[3] = w[3] BY <2>4, <2>5, <2>6
  <2> QED BY <2>2, <2>7
<1>2. \A v \in Pure : v \in S
  <2>1. S \in SUBSET Pure OBVIOUS
  <2> HIDE DEF S
  <2> QED BY <1>1, <2>1, TypeInduction
<1> QED BY <1>2

(* Creating a struct changes none that exists. *)
LEMMA OthersAreKept ==
  ASSUME TypeOK, NEW s, s \notin table.made, NEW u, NEW b, table' = Create(table, s, u, b)
  PROVE  \A x \in table.made : table'.body[x] = table.body[x] /\ table'.name[x] = table.name[x]
BY DEF TypeOK, Create

Stable ==
  \A s \in table.made :
    /\ table'.body[s] = table.body[s]
    /\ \/ table'.name[s] = table.name[s]
       \/ \E n \in Name \cup {NoName} : SetName(s, n)

LEMMA StableStep ==
  ASSUME TypeOK, Next
  PROVE  Stable
<1>1. ASSUME table' = table PROVE Stable BY <1>1 DEF Stable
<1>2. CASE GetIdentified
  <2> DEFINE f == Last(making)
             b == IF f.type[1] = "opaque" THEN NoBody ELSE BodyOf(f.refs, f.type[2][2])
             n == NameOf(f.type)
  <2>1. /\ GetTypeByName(table, n) = None => table.made # Struct
        /\ table' = GetOrCreate(table, n, b).table
    BY <1>2 DEF GetIdentified
  <2> HIDE DEF n, b
  <2>2. \/ table' = table
        \/ table.made # Struct /\ table' = Create(table, Fresh(table), <<n, 0>>, b)
    BY <2>1 DEF GetOrCreate
  <2> QED BY <1>1, <2>1, <2>2, FreshIsFree, OthersAreKept DEF Stable
<1>3. ASSUME NEW n, NEW b, CallCreate(n, b) PROVE Stable
  BY <1>3, FreshIsFree, OthersAreKept DEF CallCreate, Stable
<1>4. ASSUME NEW n, ParseRecursive(n) PROVE Stable
  BY <1>4, FreshIsFree, OthersAreKept DEF ParseRecursive, Stable
<1>5. ASSUME NEW s \in Struct, NEW n \in Name \cup {NoName}, SetName(s, n) PROVE Stable
  <2>1. PICK u \in Unique(table, s, n) : table' = Create(table, s, u, table.body[s])
    BY <1>5 DEF SetName
  <2>2. \A x \in Struct : /\ table'.body[x] = table.body[x]
                          /\ x # s => table'.name[x] = table.name[x]
    BY <2>1 DEF TypeOK, Create
  <2>3. table.made \subseteq Struct BY DEF TypeOK
  <2> HIDE DEF SetName
  <2> QED BY <1>5, <2>2, <2>3 DEF Stable
<1>6. ASSUME NEW t, CallGetRef(t) PROVE Stable BY <1>1, <1>6 DEF CallGetRef
<1>7. ASSUME NEW s, SetBody(s) \/ CallPurify(s) PROVE Stable
  BY <1>1, <1>7 DEF SetBody, CallPurify
<1>8. CASE GetRefInside \/ GetStructural \/ LiftOne
  BY <1>1, <1>8 DEF GetRefInside, GetStructural, LiftOne
<1> QED BY <1>2, <1>3, <1>4, <1>5, <1>6, <1>7, <1>8 DEF Next

(* Types that exist are not changed by making others.                      *)
THEOREM StructsStable == Spec => StructsAreStable
<1>1. TypeOK /\ [Next]_vars => [Stable]_vars BY StableStep
<1> QED BY <1>1, TypeCorrect, PTL DEF Spec, StructsAreStable, Stable
=============================================================================
