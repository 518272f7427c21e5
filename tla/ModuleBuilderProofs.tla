------------------------ MODULE ModuleBuilderProofs ------------------------
(* The invariants of ModuleBuilder hold for any number of functions,       *)
(* variables, blocks, names, instructions and nested bodies.               *)
EXTENDS ModuleBuilder, SequenceTheorems, TLAPS

(* Each symbol that was made is in its list once, or loose. *)
SymbolsListed ==
  /\ created \cap Symbol = Symbols \cup (loose \cap Symbol)
  /\ Symbols \cap loose = {}
  /\ IsInjective(functions) /\ IsInjective(globals)

(* What is in some list. *)
Listed(O, list) == UNION {Range(list[o]) : o \in O}

(* Each element that was made is in the list of one owner once, or loose;  *)
(* owners that were not made have empty lists.  Of two sets instead of two *)
(* variables, so that the lemmas about it are about the next state too.    *)
Kept(made, free, O, E, list) ==
  /\ made \cap E = Listed(O, list) \cup (free \cap E)
  /\ Listed(O, list) \cap free = {}
  /\ \A o \in O : IsInjective(list[o])
  /\ \A o, p \in O : o # p => Range(list[o]) \cap Range(list[p]) = {}
  /\ \A o \in O \ made : list[o] = << >>

BlocksListed == Kept(created, loose, Fun, Block, blocks)
CodeListed == Kept(created, loose, Block, Inst, code)

(* The inductive invariant. *)
BuilderInv ==
  /\ TypeOK
  /\ SymbolsListed
  /\ BlocksListed
  /\ CodeListed
  /\ BodiesRunInModule
  /\ EntryComesFirst
  /\ NamesAreUnique
-----------------------------------------------------------------------------
(* t begins with the elements of s, each where it is in s. *)
Extends(s, t) == \A i \in DOMAIN s : i \in DOMAIN t /\ t[i] = s[i]

(* Appending to a list adds the element to its range, behind the others... *)
LEMMA RangeOfAppend ==
  ASSUME NEW S, NEW s \in Seq(S), NEW e \in S
  PROVE  /\ Append(s, e) \in Seq(S)
         /\ Range(Append(s, e)) = Range(s) \cup {e}
         /\ Extends(s, Append(s, e))
         /\ Len(s) + 1 \in DOMAIN Append(s, e)
         /\ Append(s, e)[Len(s) + 1] = e
<1>1. /\ Append(s, e) \in Seq(S)
      /\ Len(Append(s, e)) = Len(s) + 1
      /\ \A i \in 1 .. Len(s) : Append(s, e)[i] = s[i]
      /\ Append(s, e)[Len(s) + 1] = e
  BY AppendProperties
<1>2. DOMAIN s = 1 .. Len(s) /\ DOMAIN Append(s, e) = 1 .. (Len(s) + 1)
      /\ Len(s) \in Nat
  BY <1>1, LenProperties
<1>3. Range(Append(s, e)) = Range(s) \cup {e}
  BY <1>1, <1>2 DEF Range
<1>4. Extends(s, Append(s, e)) /\ Len(s) + 1 \in DOMAIN Append(s, e)
  BY <1>1, <1>2 DEF Extends
<1>. QED
  BY <1>1, <1>3, <1>4

(* ...and keeps a list without repetitions so if the element is new. *)
LEMMA InjectiveAppend ==
  ASSUME NEW S, NEW s \in Seq(S), NEW e \in S, IsInjective(s), e \notin Range(s)
  PROVE  IsInjective(Append(s, e))
<1>1. /\ Append(s, e) \in Seq(S)
      /\ Len(Append(s, e)) = Len(s) + 1
      /\ \A i \in 1 .. Len(s) : Append(s, e)[i] = s[i]
      /\ Append(s, e)[Len(s) + 1] = e
  BY AppendProperties
<1>2. DOMAIN s = 1 .. Len(s) /\ DOMAIN Append(s, e) = 1 .. (Len(s) + 1)
      /\ Len(s) \in Nat
  BY <1>1, LenProperties
<1>. QED
  BY <1>1, <1>2 DEF Range, IsInjective

(* The first k elements of a list. *)
LEMMA FirstOf ==
  ASSUME NEW S, NEW s \in Seq(S), NEW k \in 0 .. Len(s)
  PROVE  /\ SubSeq(s, 1, k) \in Seq(S)
         /\ Len(SubSeq(s, 1, k)) = k
         /\ DOMAIN SubSeq(s, 1, k) = 1 .. k
         /\ \A i \in 1 .. k : SubSeq(s, 1, k)[i] = s[i]
<1>1. Len(s) \in Nat /\ \A i \in 1 .. k : s[i] \in S
  BY LenProperties, ElementOfSeq
<1>2. /\ SubSeq(s, 1, k) \in Seq(S)
      /\ Len(SubSeq(s, 1, k)) = IF 1 <= k THEN k - 1 + 1 ELSE 0
      /\ \A i \in 1 .. k - 1 + 1 : SubSeq(s, 1, k)[i] = s[1 + i - 1]
  BY <1>1, SubSeqProperties
<1>3. Len(SubSeq(s, 1, k)) = k
  BY <1>1, <1>2
<1>4. DOMAIN SubSeq(s, 1, k) = 1 .. k
  BY <1>2, <1>3, LenProperties
<1>. QED
  BY <1>1, <1>2, <1>3, <1>4
-----------------------------------------------------------------------------
(* An element e that is in no list enters that of an owner o that was      *)
(* made: what was made, what is loose and the lists, before and after.     *)
Enters(O, E, o, e, made, free, list, made2, free2, list2) ==
  /\ e \in E \ Listed(O, list) /\ o \in O
  /\ list2 = [list EXCEPT ![o] = Append(@, e)]
  /\ made2 \cap E = (made \cap E) \cup {e}
  /\ made \cap O \subseteq made2 /\ o \in made2
  /\ free2 \cap E = (free \cap E) \ {e}

LEMMA ElementEnters ==
  ASSUME NEW O, NEW E, NEW o, NEW e, NEW made, NEW free, NEW list,
         NEW made2, NEW free2, NEW list2,
         Enters(O, E, o, e, made, free, list, made2, free2, list2),
         list \in [O -> Seq(E)], Kept(made, free, O, E, list)
  PROVE  /\ list2 \in [O -> Seq(E)]
         /\ Kept(made2, free2, O, E, list2)
         /\ \A p \in O : Extends(list[p], list2[p])
         /\ Len(list[o]) + 1 \in DOMAIN list2[o]
         /\ list2[o][Len(list[o]) + 1] = e
<1>. e \in E /\ o \in O
  BY DEF Enters
<1>1. /\ list2[o] = Append(list[o], e)
      /\ \A p \in O \ {o} : list2[p] = list[p]
      /\ e \notin Range(list[o])
  BY DEF Enters, Listed
<1>2. /\ list2[o] \in Seq(E)
      /\ Range(list2[o]) = Range(list[o]) \cup {e}
      /\ Extends(list[o], list2[o])
      /\ Len(list[o]) + 1 \in DOMAIN list2[o]
      /\ list2[o][Len(list[o]) + 1] = e
  BY <1>1, RangeOfAppend
<1>3. IsInjective(list2[o])
  BY <1>1, InjectiveAppend DEF Kept
<1>4. list2 \in [O -> Seq(E)]
  BY <1>1, <1>2 DEF Enters
<1>5. \A p \in O : Extends(list[p], list2[p])
  BY <1>1, <1>2 DEF Extends
<1>6. Listed(O, list2) = Listed(O, list) \cup {e}
  BY <1>1, <1>2 DEF Listed
<1>7. Listed(O, list2) \subseteq E
  <2>1. \A p \in O : Range(list2[p]) \subseteq E
    BY <1>4, RangeOfSeq
  <2>. QED
    BY <2>1 DEF Listed
<1>8. /\ made2 \cap E = Listed(O, list2) \cup (free2 \cap E)
      /\ Listed(O, list2) \cap free2 = {}
  BY <1>6, <1>7 DEF Kept, Enters
<1>9. ASSUME NEW p \in O, NEW q \in O, p # q
      PROVE  Range(list2[p]) \cap Range(list2[q]) = {}
  <2>1. Range(list[p]) \cap Range(list[q]) = {}
    BY <1>9 DEF Kept
  <2>2. e \notin Range(list[p]) /\ e \notin Range(list[q])
    BY DEF Enters, Listed
  <2>. QED
    BY <1>1, <1>2, <1>9, <2>1, <2>2
<1>10. \A p \in O \ made2 : list2[p] = << >>
  BY <1>1 DEF Kept, Enters
<1>. QED
  BY <1>1, <1>2, <1>3, <1>4, <1>5, <1>8, <1>9, <1>10 DEF Kept

(* The lists stay, and what was made besides is loose. *)
LEMMA ListsStay ==
  ASSUME NEW O, NEW E, NEW list, NEW made, NEW free,
         Kept(made, free, O, E, list),
         NEW made2, made \cap O \subseteq made2,
         NEW free2, made2 \cap E = Listed(O, list) \cup (free2 \cap E),
         Listed(O, list) \cap free2 = {}
  PROVE  Kept(made2, free2, O, E, list)
BY DEF Kept

(* The same, of blocks and of instructions in their lists. *)
LEMMA BlocksStay ==
  ASSUME BuilderInv, UNCHANGED blocks, created \cap Fun \subseteq created',
         created' \cap Block = Listed(Fun, blocks) \cup (loose' \cap Block),
         Listed(Fun, blocks) \cap loose' = {}
  PROVE  BlocksListed'
<1>1. Kept(created, loose, Fun, Block, blocks)
  BY DEF BuilderInv, BlocksListed
<1>2. Kept(created', loose', Fun, Block, blocks)
  BY <1>1, ListsStay
<1>. QED
  BY <1>2 DEF BlocksListed, Kept, Listed

LEMMA CodeStays ==
  ASSUME BuilderInv, UNCHANGED code, created \cap Block \subseteq created',
         created' \cap Inst = Listed(Block, code) \cup (loose' \cap Inst),
         Listed(Block, code) \cap loose' = {}
  PROVE  CodeListed'
<1>1. Kept(created, loose, Block, Inst, code)
  BY DEF BuilderInv, CodeListed
<1>2. Kept(created', loose', Block, Inst, code)
  BY <1>1, ListsStay
<1>. QED
  BY <1>2 DEF CodeListed, Kept, Listed

(* What the invariant says of lists without a word about how. *)
LEMMA ListsHold ==
  ASSUME BuilderInv
  PROVE  /\ Listed(Fun, blocks) \subseteq Block \cap created
         /\ Listed(Block, code) \subseteq Inst \cap created
         /\ Symbols \subseteq Symbol \cap created
         /\ loose \subseteq created
         /\ (Listed(Fun, blocks) \cup Listed(Block, code) \cup Symbols) \cap loose = {}
         /\ created \cap Block = Listed(Fun, blocks) \cup (loose \cap Block)
         /\ created \cap Inst = Listed(Block, code) \cup (loose \cap Inst)
         /\ \A f \in Fun \ created : blocks[f] = << >>
<1>1. Listed(Fun, blocks) \subseteq Block
  BY RangeOfSeq DEF BuilderInv, TypeOK, Listed
<1>2. Listed(Block, code) \subseteq Inst
  BY RangeOfSeq DEF BuilderInv, TypeOK, Listed
<1>3. Symbols \subseteq Symbol
  BY RangeOfSeq DEF BuilderInv, TypeOK, Symbols, Symbol
<1>. QED
  BY <1>1, <1>2, <1>3
  DEF BuilderInv, TypeOK, SymbolsListed, BlocksListed, CodeListed, Kept
-----------------------------------------------------------------------------
(* A symbol enters a list of the module and gets a name that is free. *)
LEMMA SymbolEnters ==
  ASSUME BuilderInv,
         NEW s \in Symbol \ Symbols, NEW n \in Name \cup {NoName},
         NEW u \in Unique(s, n),
         \/ /\ s \in Fun
            /\ functions' = Append(functions, s) /\ globals' = globals
         \/ /\ s \in Glob
            /\ globals' = Append(globals, s) /\ functions' = functions,
         name' = [name EXCEPT ![s] = u],
         created' \cap Symbol = (created \cap Symbol) \cup {s},
         loose' \cap Symbol = (loose \cap Symbol) \ {s}
  PROVE  /\ functions' \in Seq(Fun) /\ globals' \in Seq(Glob)
         /\ name' \in [Symbol -> FullName]
         /\ SymbolsListed' /\ NamesAreUnique'
         /\ Range(functions) \subseteq Range(functions)'
<1>1. /\ functions \in Seq(Fun) /\ globals \in Seq(Glob)
      /\ name \in [Symbol -> FullName]
      /\ IsInjective(functions) /\ IsInjective(globals)
      /\ Symbols \cap loose = {} /\ Symbols \subseteq created
      /\ created \cap Symbol = Symbols \cup (loose \cap Symbol)
  BY DEF BuilderInv, TypeOK, SymbolsListed
<1>2. s \notin Range(functions) /\ s \notin Range(globals)
  BY DEF Symbols
<1>3. /\ functions' \in Seq(Fun) /\ globals' \in Seq(Glob)
      /\ IsInjective(functions') /\ IsInjective(globals')
      /\ Symbols' = Symbols \cup {s}
      /\ Range(functions) \subseteq Range(functions)'
  <2>1. CASE /\ s \in Fun
             /\ functions' = Append(functions, s) /\ globals' = globals
    BY <1>1, <1>2, <2>1, RangeOfAppend, InjectiveAppend DEF Symbols
  <2>2. CASE /\ s \in Glob
             /\ globals' = Append(globals, s) /\ functions' = functions
    BY <1>1, <1>2, <2>2, RangeOfAppend, InjectiveAppend DEF Symbols
  <2>. QED
    BY <2>1, <2>2
<1>4. u \in FullName /\ (u = NoName \/ \A t \in Symbols \ {s} : name[t] # u)
  BY BoundAssumption DEF Unique, FullName
<1>5. name' \in [Symbol -> FullName]
  BY <1>1, <1>4
<1>6. NamesAreUnique'
  BY <1>1, <1>3, <1>4 DEF BuilderInv, NamesAreUnique, Symbols
<1>7. SymbolsListed'
  BY <1>1, <1>3 DEF SymbolsListed
<1>. QED
  BY <1>3, <1>5, <1>6, <1>7

(* Where the lists of symbols stay, and no listed symbol is renamed. *)
LEMMA SymbolsUntouched ==
  ASSUME BuilderInv, UNCHANGED <<functions, globals>>,
         \A s \in Symbols : name'[s] = name[s],
         created' \cap Symbol = Symbols \cup (loose' \cap Symbol),
         Symbols \cap loose' = {}
  PROVE  SymbolsListed' /\ NamesAreUnique'
BY DEF BuilderInv, SymbolsListed, NamesAreUnique, Symbols

-----------------------------------------------------------------------------
(* What the invariant says of the body of frame r: where it runs, where it *)
(* runs if it is not nested in a body of its function, and if in that of q.*)
RunsInModule(r) == r.fun \in Range(functions) /\ r.block \in Range(blocks[r.fun])
RunsInEntry(r) == 1 \in DOMAIN blocks[r.fun] /\ blocks[r.fun][1] = r.block
RunsBehind(q, r) ==
  \E i, j \in DOMAIN blocks[r.fun] :
    i < j /\ blocks[r.fun][i] = q.block /\ blocks[r.fun][j] = r.block
Nests(q, r) == IF q.fun = r.fun THEN RunsBehind(q, r) ELSE RunsInEntry(r)

(* The lists that were there go on as they were. *)
Grown ==
  /\ Range(functions) \subseteq Range(functions)'
  /\ \A f \in Fun : Extends(blocks[f], blocks'[f])

LEMMA FramesAreFrames ==
  ASSUME frames \in Seq(Frame)
  PROVE  /\ Len(frames) \in Nat /\ DOMAIN frames = 1 .. Len(frames)
         /\ \A k \in 1 .. Len(frames) : frames[k] \in Frame
         /\ frames # << >> <=> Len(frames) > 0
BY LenProperties, ElementOfSeq, EmptySeq

(* A list that is not empty has a first element. *)
LEMMA FirstElement ==
  ASSUME NEW S, NEW s \in Seq(S)
  PROVE  s # << >> <=> 1 \in DOMAIN s
BY LenProperties, EmptySeq

LEMMA FrameByFrame ==
  ASSUME BuilderInv
  PROVE  /\ \A k \in 1 .. Len(frames) : RunsInModule(frames[k])
         /\ Len(frames) > 0 => RunsInEntry(frames[1])
         /\ \A k \in 2 .. Len(frames) : Nests(frames[k - 1], frames[k])
<1>1. /\ Len(frames) \in Nat /\ DOMAIN frames = 1 .. Len(frames)
      /\ \A k \in 1 .. Len(frames) : frames[k] \in Frame
  BY FramesAreFrames DEF BuilderInv, TypeOK
<1>2. \A k \in 1 .. Len(frames) : RunsInModule(frames[k])
  BY <1>1 DEF BuilderInv, BodiesRunInModule, RunsInModule
<1>3. \A k \in 1 .. Len(frames) : blocks[frames[k].fun] \in Seq(Block)
  BY <1>1 DEF BuilderInv, TypeOK, Frame
<1>4. Len(frames) > 0 => RunsInEntry(frames[1])
  <2>. SUFFICES ASSUME Len(frames) > 0 PROVE RunsInEntry(frames[1])
    OBVIOUS
  <2>1. 1 \in DOMAIN frames /\ 1 \in 1 .. Len(frames)
    BY <1>1
  <2>2. blocks[frames[1].fun] # << >> /\ blocks[frames[1].fun][1] = frames[1].block
    BY <2>1 DEF BuilderInv, EntryComesFirst
  <2>. QED
    BY <1>3, <2>1, <2>2, FirstElement DEF RunsInEntry
<1>5. ASSUME NEW k \in 2 .. Len(frames)
      PROVE  Nests(frames[k - 1], frames[k])
  <2>1. k \in DOMAIN frames /\ k > 1 /\ k \in 1 .. Len(frames)
    BY <1>1
  <2>2. CASE frames[k - 1].fun = frames[k].fun
    <3>1. RunsBehind(frames[k - 1], frames[k])
      BY <2>1, <2>2 DEF BuilderInv, EntryComesFirst, RunsBehind
    <3>. QED
      BY <2>2, <3>1 DEF Nests
  <2>3. CASE frames[k - 1].fun # frames[k].fun
    <3>1. blocks[frames[k].fun] # << >> /\ blocks[frames[k].fun][1] = frames[k].block
      BY <2>1, <2>3 DEF BuilderInv, EntryComesFirst
    <3>2. RunsInEntry(frames[k])
      BY <1>3, <2>1, <3>1, FirstElement DEF RunsInEntry
    <3>. QED
      BY <2>3, <3>2 DEF Nests
  <2>. QED
    BY <2>2, <2>3
<1>. QED
  BY <1>2, <1>4, <1>5

(* The same of the next state, the other way around. *)
LEMMA FrameByFrameNext ==
  ASSUME frames' \in Seq(Frame),
         \A k \in 1 .. Len(frames') : RunsInModule(frames[k])',
         Len(frames') > 0 => RunsInEntry(frames[1])',
         \A k \in 2 .. Len(frames') : Nests(frames[k - 1], frames[k])'
  PROVE  BodiesRunInModule' /\ EntryComesFirst'
<1>1. Len(frames') \in Nat /\ DOMAIN frames' = 1 .. Len(frames')
  BY LenProperties
<1>2. BodiesRunInModule'
  BY <1>1 DEF BodiesRunInModule, RunsInModule
<1>3. ASSUME NEW k \in DOMAIN frames'
      PROVE  (LET list == blocks[frames[k].fun]
                  nested == k > 1 /\ frames[k - 1].fun = frames[k].fun
              IN  /\ ~ nested => list # << >> /\ list[1] = frames[k].block
                  /\ nested => \E i, j \in DOMAIN list :
                       i < j /\ list[i] = frames[k - 1].block
                             /\ list[j] = frames[k].block)'
  <2>1. DOMAIN << >> = {}
    OBVIOUS
  <2>2. CASE k = 1
    <3>1. RunsInEntry(frames[k])'
      BY <1>1, <2>2
    <3>. QED
      BY <2>1, <2>2, <3>1 DEF RunsInEntry
  <2>3. CASE k > 1
    <3>1. Nests(frames[k - 1], frames[k])'
      BY <1>1, <2>3
    <3>2. CASE frames'[k - 1].fun = frames'[k].fun
      BY <2>3, <3>1, <3>2 DEF Nests, RunsBehind
    <3>3. CASE frames'[k - 1].fun # frames'[k].fun
      BY <2>1, <3>1, <3>3 DEF Nests, RunsInEntry
    <3>. QED
      BY <3>2, <3>3
  <2>. QED
    BY <1>1, <2>2, <2>3
<1>4. EntryComesFirst'
  BY <1>3 DEF EntryComesFirst
<1>. QED
  BY <1>2, <1>4

(* What holds of a frame holds while lists only grow. *)
LEMMA FrameKept ==
  ASSUME Grown, NEW r \in Frame
  PROVE  /\ RunsInModule(r) => RunsInModule(r)'
         /\ RunsInEntry(r) => RunsInEntry(r)'
         /\ \A q \in Frame : Nests(q, r) => Nests(q, r)'
<1>1. r.fun \in Fun
  BY DEF Frame
<1>2. /\ Range(functions) \subseteq Range(functions)'
      /\ Extends(blocks[r.fun], blocks'[r.fun])
  BY <1>1 DEF Grown
<1>3. RunsInModule(r) => RunsInModule(r)'
  BY <1>2 DEF RunsInModule, Extends, Range
<1>4. RunsInEntry(r) => RunsInEntry(r)'
  BY <1>2 DEF RunsInEntry, Extends
<1>5. ASSUME NEW q \in Frame, RunsBehind(q, r) PROVE RunsBehind(q, r)'
  <2>1. PICK i \in DOMAIN blocks[r.fun], j \in DOMAIN blocks[r.fun] :
          i < j /\ blocks[r.fun][i] = q.block /\ blocks[r.fun][j] = r.block
    BY <1>5 DEF RunsBehind
  <2>2. /\ i \in DOMAIN blocks'[r.fun] /\ blocks'[r.fun][i] = q.block
        /\ j \in DOMAIN blocks'[r.fun] /\ blocks'[r.fun][j] = r.block
    BY <1>2, <2>1 DEF Extends
  <2>. QED
    BY <2>1, <2>2 DEF RunsBehind
<1>6. \A q \in Frame : Nests(q, r) => Nests(q, r)'
  BY <1>4, <1>5 DEF Nests
<1>. QED
  BY <1>3, <1>4, <1>6

(* Running bodies stay where they run if lists only grow, and so do the    *)
(* first of them.                                                          *)
LEMMA FramesKept ==
  ASSUME BuilderInv, Grown, frames' \in Seq(Frame), Len(frames') <= Len(frames),
         \A k \in 1 .. Len(frames') : frames'[k] = frames[k]
  PROVE  BodiesRunInModule' /\ EntryComesFirst'
<1>1. /\ Len(frames) \in Nat /\ Len(frames') \in Nat
      /\ \A k \in 1 .. Len(frames) : frames[k] \in Frame
  BY FramesAreFrames, LenProperties DEF BuilderInv, TypeOK
<1>2. /\ \A k \in 1 .. Len(frames) : RunsInModule(frames[k])
      /\ Len(frames) > 0 => RunsInEntry(frames[1])
      /\ \A k \in 2 .. Len(frames) : Nests(frames[k - 1], frames[k])
  BY FrameByFrame
<1>3. ASSUME NEW k \in 1 .. Len(frames')
      PROVE  RunsInModule(frames[k])'
  <2>1. PICK r \in Frame : r = frames[k] /\ r = frames'[k]
    BY <1>1
  <2>2. RunsInModule(r)'
    BY <1>1, <1>2, <2>1, FrameKept
  <2>. QED
    BY <2>1, <2>2 DEF RunsInModule
<1>4. ASSUME Len(frames') > 0
      PROVE  RunsInEntry(frames[1])'
  <2>1. PICK r \in Frame : r = frames[1] /\ r = frames'[1]
    BY <1>1, <1>4
  <2>2. RunsInEntry(r)'
    BY <1>1, <1>2, <1>4, <2>1, FrameKept
  <2>. QED
    BY <2>1, <2>2 DEF RunsInEntry
<1>5. ASSUME NEW k \in 2 .. Len(frames')
      PROVE  Nests(frames[k - 1], frames[k])'
  <2>1. PICK r \in Frame : r = frames[k] /\ r = frames'[k]
    BY <1>1
  <2>2. PICK q \in Frame : q = frames[k - 1] /\ q = frames'[k - 1]
    BY <1>1
  <2>3. Nests(q, r)
    BY <1>1, <1>2, <2>1, <2>2
  <2>4. Nests(q, r)'
    BY <2>3, FrameKept
  <2>5. RunsBehind(q, r)' <=> RunsBehind(frames[k - 1], frames[k])'
    BY <2>1, <2>2 DEF RunsBehind
  <2>6. RunsInEntry(r)' <=> RunsInEntry(frames[k])'
    BY <2>1, <2>2 DEF RunsInEntry
  <2>. QED
    BY <2>1, <2>2, <2>4, <2>5, <2>6 DEF Nests
<1>. QED
  BY <1>3, <1>4, <1>5, FrameByFrameNext

LEMMA FramesUntouched ==
  ASSUME BuilderInv, Grown, UNCHANGED frames
  PROVE  BodiesRunInModule' /\ EntryComesFirst'
<1>1. frames' \in Seq(Frame) /\ Len(frames') <= Len(frames)
      /\ \A k \in 1 .. Len(frames') : frames'[k] = frames[k]
  BY LenProperties DEF BuilderInv, TypeOK
<1>. QED
  BY <1>1, FramesKept

(* A body starts in a block of its function: behind that of the body       *)
(* around it if that is one of the same function, and first otherwise.     *)
LEMMA FramePushed ==
  ASSUME BuilderInv, Grown, NEW r \in Frame, frames' = Append(frames, r),
         RunsInModule(r)',
         frames = << >> => RunsInEntry(r)',
         \A q \in Frame : frames # << >> /\ q = Top => Nests(q, r)'
  PROVE  frames' \in Seq(Frame) /\ BodiesRunInModule' /\ EntryComesFirst'
<1>1. /\ frames \in Seq(Frame) /\ Len(frames) \in Nat
      /\ frames # << >> <=> Len(frames) > 0
      /\ \A k \in 1 .. Len(frames) : frames[k] \in Frame
  BY FramesAreFrames DEF BuilderInv, TypeOK
<1>2. /\ frames' \in Seq(Frame) /\ Len(frames') = Len(frames) + 1
      /\ \A k \in 1 .. Len(frames) : frames'[k] = frames[k]
      /\ frames'[Len(frames) + 1] = r
  BY <1>1, AppendProperties
<1>3. /\ \A k \in 1 .. Len(frames) : RunsInModule(frames[k])
      /\ Len(frames) > 0 => RunsInEntry(frames[1])
      /\ \A k \in 2 .. Len(frames) : Nests(frames[k - 1], frames[k])
  BY FrameByFrame
<1>4. ASSUME NEW k \in 1 .. Len(frames')
      PROVE  RunsInModule(frames[k])'
  <2>1. PICK q \in Frame : /\ q = frames'[k]
                           /\ \/ k \in 1 .. Len(frames) /\ q = frames[k]
                              \/ q = r
    BY <1>1, <1>2
  <2>2. RunsInModule(q)'
    BY <1>3, <2>1, FrameKept
  <2>. QED
    BY <2>1, <2>2 DEF RunsInModule
<1>5. RunsInEntry(frames[1])'
  <2>1. PICK q \in Frame : /\ q = frames'[1]
                           /\ \/ Len(frames) > 0 /\ q = frames[1]
                              \/ frames = << >> /\ q = r
    BY <1>1, <1>2
  <2>2. RunsInEntry(q)'
    BY <1>3, <2>1, FrameKept
  <2>. QED
    BY <2>1, <2>2 DEF RunsInEntry
<1>6. ASSUME NEW k \in 2 .. Len(frames')
      PROVE  Nests(frames[k - 1], frames[k])'
  <2>1. PICK q \in Frame : q = frames[k - 1] /\ q = frames'[k - 1]
    BY <1>1, <1>2
  <2>2. PICK t \in Frame : /\ t = frames'[k]
                           /\ \/ k \in 2 .. Len(frames) /\ t = frames[k]
                              \/ k = Len(frames) + 1 /\ t = r
    BY <1>1, <1>2
  <2>3. Nests(q, t)'
    <3>1. CASE k \in 2 .. Len(frames) /\ t = frames[k]
      <4>1. Nests(q, t)
        BY <1>3, <2>1, <3>1
      <4>. QED
        BY <4>1, FrameKept
    <3>2. CASE k = Len(frames) + 1 /\ t = r
      <4>1. frames # << >> /\ q = Top
        BY <1>1, <2>1, <3>2 DEF Top
      <4>. QED
        BY <3>2, <4>1
    <3>. QED
      BY <2>2, <3>1, <3>2
  <2>4. RunsBehind(q, t)' <=> RunsBehind(frames[k - 1], frames[k])'
    BY <2>1, <2>2 DEF RunsBehind
  <2>5. RunsInEntry(t)' <=> RunsInEntry(frames[k])'
    BY <2>1, <2>2 DEF RunsInEntry
  <2>. QED
    BY <2>1, <2>2, <2>3, <2>4, <2>5 DEF Nests
<1>. QED
  BY <1>2, <1>4, <1>5, <1>6, FrameByFrameNext
-----------------------------------------------------------------------------
(* A block enters the list of a function that was made, at its end. *)
LEMMA BlockEnters ==
  ASSUME BuilderInv,
         NEW b \in Block \ Listed(Fun, blocks), NEW f \in Fun,
         blocks' = WithBlock(f, b),
         created' \cap Block = (created \cap Block) \cup {b},
         loose' \cap Block = (loose \cap Block) \ {b},
         created \cap Fun \subseteq created', f \in created'
  PROVE  /\ blocks' \in [Fun -> Seq(Block)]
         /\ BlocksListed'
         /\ \A g \in Fun : Extends(blocks[g], blocks'[g])
         /\ Len(blocks[f]) + 1 \in DOMAIN blocks'[f]
         /\ blocks'[f][Len(blocks[f]) + 1] = b
         /\ b \in Range(blocks'[f])
<1>1. blocks \in [Fun -> Seq(Block)] /\ Kept(created, loose, Fun, Block, blocks)
  BY DEF BuilderInv, TypeOK, BlocksListed
<1>2. blocks' = [blocks EXCEPT ![f] = Append(@, b)]
  BY DEF WithBlock
<1>3. /\ blocks' \in [Fun -> Seq(Block)]
      /\ Kept(created', loose', Fun, Block, blocks')
      /\ \A g \in Fun : Extends(blocks[g], blocks'[g])
      /\ Len(blocks[f]) + 1 \in DOMAIN blocks'[f]
      /\ blocks'[f][Len(blocks[f]) + 1] = b
  <2>1. Enters(Fun, Block, f, b, created, loose, blocks, created', loose', blocks')
    BY <1>2 DEF Enters
  <2>. QED
    BY <1>1, <2>1, ElementEnters
<1>4. BlocksListed'
  BY <1>3 DEF BlocksListed, Kept, Listed
<1>5. b \in Range(blocks'[f])
  BY <1>3 DEF Range
<1>. QED
  BY <1>3, <1>4, <1>5

(* An instruction enters the list of a block that was made. *)
LEMMA InstructionEnters ==
  ASSUME BuilderInv,
         NEW i \in Inst \ Listed(Block, code), NEW b \in Block,
         code' = [code EXCEPT ![b] = Append(@, i)],
         created' \cap Inst = (created \cap Inst) \cup {i},
         loose' \cap Inst = (loose \cap Inst) \ {i},
         created \cap Block \subseteq created', b \in created'
  PROVE  code' \in [Block -> Seq(Inst)] /\ CodeListed'
<1>1. code \in [Block -> Seq(Inst)] /\ Kept(created, loose, Block, Inst, code)
  BY DEF BuilderInv, TypeOK, CodeListed
<1>2. /\ code' \in [Block -> Seq(Inst)]
      /\ Kept(created', loose', Block, Inst, code')
  <2>1. Enters(Block, Inst, b, i, created, loose, code, created', loose', code')
    BY DEF Enters
  <2>. QED
    BY <1>1, <2>1, ElementEnters
<1>3. CodeListed'
  BY <1>2 DEF CodeListed, Kept, Listed
<1>. QED
  BY <1>2, <1>3

(* Lists that are as they were have grown. *)
LEMMA GrownIfSame ==
  ASSUME Range(functions) \subseteq Range(functions)', UNCHANGED blocks
  PROVE  Grown
BY DEF Grown, Extends
-----------------------------------------------------------------------------
(* The invariant holds initially... *)
LEMMA BuilderInit == Init => BuilderInv
<1>. SUFFICES ASSUME Init PROVE BuilderInv
  OBVIOUS
<1>1. /\ << >> \in Seq(Fun) /\ << >> \in Seq(Glob) /\ << >> \in Seq(Block)
      /\ << >> \in Seq(Inst) /\ << >> \in Seq(Frame)
      /\ DOMAIN << >> = {} /\ Range(<< >>) = {} /\ IsInjective(<< >>)
  BY DEF Range, IsInjective
<1>2. Symbols = {} /\ Listed(Fun, blocks) = {} /\ Listed(Block, code) = {}
  BY <1>1 DEF Init, Symbols, Listed
<1>3. TypeOK
  BY <1>1 DEF Init, TypeOK, FullName
<1>4. SymbolsListed
  BY <1>1, <1>2 DEF Init, SymbolsListed
<1>5. BlocksListed
  BY <1>1, <1>2 DEF Init, BlocksListed, Kept
<1>6. CodeListed
  BY <1>1, <1>2 DEF Init, CodeListed, Kept
<1>7. BodiesRunInModule /\ EntryComesFirst
  BY <1>1 DEF Init, BodiesRunInModule, EntryComesFirst
<1>8. NamesAreUnique
  BY <1>2 DEF NamesAreUnique
<1>. QED
  BY <1>3, <1>4, <1>5, <1>6, <1>7, <1>8 DEF BuilderInv

(* ...and every action preserves it.  First those that touch symbols. *)
LEMMA SymbolStep ==
  ASSUME BuilderInv,
         SymbolsListed', NamesAreUnique',
         functions' \in Seq(Fun), globals' \in Seq(Glob),
         name' \in [Symbol -> FullName],
         created' \in SUBSET (Symbol \cup Block \cup Inst), loose' \subseteq created',
         created \subseteq created',
         created' \cap (Block \cup Inst) = created \cap (Block \cup Inst),
         loose' \cap (Block \cup Inst) = loose \cap (Block \cup Inst),
         Range(functions) \subseteq Range(functions)',
         UNCHANGED <<blocks, code, frames>>
  PROVE  BuilderInv'
<1>1. Grown
  BY GrownIfSame
<1>2. BlocksListed'
  BY ListsHold, BlocksStay
<1>3. CodeListed'
  BY ListsHold, CodeStays
<1>4. BodiesRunInModule' /\ EntryComesFirst'
  BY <1>1, FramesUntouched
<1>5. TypeOK'
  BY DEF BuilderInv, TypeOK
<1>. QED
  BY <1>2, <1>3, <1>4, <1>5 DEF BuilderInv

LEMMA AddGlobalStep ==
  ASSUME BuilderInv, NEW g \in Glob, NEW n \in Name \cup {NoName}, AddGlobal(g, n)
  PROVE  BuilderInv'
<1>1. PICK u \in Unique(g, n) : name' = [name EXCEPT ![g] = u]
  BY DEF AddGlobal
<1>2. g \in Symbol \ Symbols /\ g \notin loose /\ g \notin Block /\ g \notin Inst
  BY ListsHold, SymbolAssumption DEF AddGlobal, Symbol
<1>3. /\ functions' \in Seq(Fun) /\ globals' \in Seq(Glob)
      /\ name' \in [Symbol -> FullName] /\ SymbolsListed' /\ NamesAreUnique'
      /\ Range(functions) \subseteq Range(functions)'
  BY <1>1, <1>2, SymbolEnters DEF AddGlobal
<1>. QED
  BY <1>2, <1>3, SymbolStep DEF AddGlobal, BuilderInv, TypeOK

LEMMA DeclareStep ==
  ASSUME BuilderInv, NEW f \in Fun, NEW n \in Name \cup {NoName}, Declare(f, n)
  PROVE  BuilderInv'
<1>1. PICK u \in Unique(f, n) : name' = [name EXCEPT ![f] = u]
  BY DEF Declare
<1>2. f \in Symbol \ Symbols /\ f \notin loose /\ f \notin Block /\ f \notin Inst
  BY ListsHold, SymbolAssumption DEF Declare, Symbol
<1>3. /\ functions' \in Seq(Fun) /\ globals' \in Seq(Glob)
      /\ name' \in [Symbol -> FullName] /\ SymbolsListed' /\ NamesAreUnique'
      /\ Range(functions) \subseteq Range(functions)'
  BY <1>1, <1>2, SymbolEnters DEF Declare
<1>. QED
  BY <1>2, <1>3, SymbolStep DEF Declare, BuilderInv, TypeOK

LEMMA AppendSymbolStep ==
  ASSUME BuilderInv, NEW s \in Symbol, AppendSymbol(s)
  PROVE  BuilderInv'
<1>1. PICK u \in Unique(s, Given(name[s])) : name' = [name EXCEPT ![s] = u]
  BY DEF AppendSymbol
<1>2. s \in Symbol \ Symbols /\ s \in created /\ s \notin Block /\ s \notin Inst
  BY SymbolAssumption DEF AppendSymbol, BuilderInv, SymbolsListed, TypeOK, Symbol
<1>3. Given(name[s]) \in Name \cup {NoName}
  BY DEF BuilderInv, TypeOK, FullName, Given
<1>4. /\ functions' \in Seq(Fun) /\ globals' \in Seq(Glob)
      /\ name' \in [Symbol -> FullName] /\ SymbolsListed' /\ NamesAreUnique'
      /\ Range(functions) \subseteq Range(functions)'
  BY <1>1, <1>2, <1>3, SymbolEnters DEF AppendSymbol, Symbol
<1>. QED
  BY <1>2, <1>4, SymbolStep DEF AppendSymbol, BuilderInv, TypeOK

LEMMA CreateSymbolStep ==
  ASSUME BuilderInv, NEW s \in Symbol, NEW n \in Name \cup {NoName},
         CreateSymbol(s, n)
  PROVE  BuilderInv'
<1>1. s \notin Symbols /\ s \notin loose /\ s \notin Block /\ s \notin Inst
  BY ListsHold, SymbolAssumption DEF CreateSymbol, Symbol
<1>2. Plain(n) \in FullName
  BY BoundAssumption DEF Plain, FullName
<1>3. name' \in [Symbol -> FullName] /\ \A t \in Symbols : name'[t] = name[t]
  BY <1>1, <1>2, ListsHold DEF CreateSymbol, BuilderInv, TypeOK
<1>4. SymbolsListed' /\ NamesAreUnique'
  BY <1>1, <1>3, SymbolsUntouched DEF CreateSymbol, BuilderInv, SymbolsListed
<1>. QED
  BY <1>1, <1>3, <1>4, SymbolStep DEF CreateSymbol, BuilderInv, TypeOK

LEMMA SetNameStep ==
  ASSUME BuilderInv, NEW s \in Symbol, NEW n \in Name \cup {NoName}, SetName(s, n)
  PROVE  BuilderInv'
<1>1. PICK u \in IF s \in loose THEN {Plain(n)} ELSE Unique(s, n) :
        name' = [name EXCEPT ![s] = u]
  BY DEF SetName
<1>2. /\ u \in FullName
      /\ s \notin loose => u = NoName \/ \A t \in Symbols \ {s} : name[t] # u
  BY <1>1, BoundAssumption DEF Plain, Unique, FullName
<1>3. Symbols \subseteq Symbol /\ name \in [Symbol -> FullName] /\ Symbols' = Symbols
  BY ListsHold DEF BuilderInv, TypeOK, SetName, Symbols
<1>4. name' \in [Symbol -> FullName]
  BY <1>1, <1>2, <1>3
<1>5. NamesAreUnique'
  BY <1>1, <1>2, <1>3 DEF BuilderInv, NamesAreUnique, SymbolsListed
<1>6. SymbolsListed'
  BY <1>3 DEF SetName, BuilderInv, SymbolsListed
<1>. QED
  BY <1>4, <1>5, <1>6, SymbolStep DEF SetName, BuilderInv, TypeOK

(* Those that touch blocks and instructions. *)
LEMMA CreateLooseStep ==
  ASSUME BuilderInv, NEW o \in Block \cup Inst, CreateLoose(o)
  PROVE  BuilderInv'
<1>1. /\ o \notin created /\ o \notin Symbol
      /\ blocks' = blocks /\ code' = code /\ frames' = frames
      /\ functions' = functions /\ globals' = globals /\ name' = name
      /\ created' = created \cup {o} /\ loose' = loose \cup {o}
  BY SymbolAssumption DEF CreateLoose, Symbol
<1>2. SymbolsListed' /\ NamesAreUnique'
  BY <1>1, SymbolsUntouched DEF BuilderInv, SymbolsListed
<1>3. BlocksListed'
  <2>1. /\ created' \cap Block = Listed(Fun, blocks) \cup (loose' \cap Block)
        /\ Listed(Fun, blocks) \cap loose' = {}
    BY <1>1, ListsHold
  <2>. QED
    BY <1>1, <2>1, BlocksStay
<1>4. CodeListed'
  <2>1. /\ created' \cap Inst = Listed(Block, code) \cup (loose' \cap Inst)
        /\ Listed(Block, code) \cap loose' = {}
    BY <1>1, ListsHold
  <2>. QED
    BY <1>1, <2>1, CodeStays
<1>5. BodiesRunInModule' /\ EntryComesFirst'
  BY <1>1, GrownIfSame, FramesUntouched
<1>6. TypeOK'
  BY <1>1 DEF BuilderInv, TypeOK
<1>. QED
  BY <1>2, <1>3, <1>4, <1>5, <1>6 DEF BuilderInv

LEMMA AppendBasicBlockStep ==
  ASSUME BuilderInv, NEW b \in Block, NEW f \in Fun, AppendBasicBlock(b, f)
  PROVE  BuilderInv'
<1>1. /\ b \in loose /\ b \in created /\ f \in created
      /\ b \notin Symbol /\ b \notin Inst
      /\ blocks' = WithBlock(f, b)
      /\ code' = code /\ frames' = frames /\ functions' = functions
      /\ globals' = globals /\ name' = name
      /\ created' = created /\ loose' = loose \ {b}
  BY SymbolAssumption, ListsHold DEF AppendBasicBlock, Symbol
<1>2. /\ blocks' \in [Fun -> Seq(Block)]
      /\ BlocksListed'
      /\ \A g \in Fun : Extends(blocks[g], blocks'[g])
  <2>1. b \notin Listed(Fun, blocks)
    BY <1>1, ListsHold
  <2>. QED
    BY <1>1, <2>1, BlockEnters
<1>3. SymbolsListed' /\ NamesAreUnique'
  BY <1>1, SymbolsUntouched DEF BuilderInv, SymbolsListed
<1>4. CodeListed'
  <2>1. /\ created' \cap Inst = Listed(Block, code) \cup (loose' \cap Inst)
        /\ Listed(Block, code) \cap loose' = {}
    BY <1>1, ListsHold
  <2>. QED
    BY <1>1, <2>1, CodeStays
<1>5. BodiesRunInModule' /\ EntryComesFirst'
  <2>1. Grown
    BY <1>1, <1>2 DEF Grown
  <2>. QED
    BY <1>1, <2>1, FramesUntouched
<1>6. TypeOK'
  BY <1>1, <1>2 DEF BuilderInv, TypeOK
<1>. QED
  BY <1>2, <1>3, <1>4, <1>5, <1>6 DEF BuilderInv

(* An instruction is appended: a new one, or a loose one. *)
LEMMA CodeStep ==
  ASSUME BuilderInv, NEW i \in Inst, NEW b \in Block, b \in created,
         i \notin Listed(Block, code),
         code' = [code EXCEPT ![b] = Append(@, i)],
         created' = created \cup {i}, loose' = loose \ {i},
         UNCHANGED <<functions, globals, name, blocks, frames>>
  PROVE  BuilderInv'
<1>1. /\ functions' = functions /\ globals' = globals /\ name' = name
      /\ blocks' = blocks /\ frames' = frames
      /\ i \notin Symbol /\ i \notin Block
  BY SymbolAssumption DEF Symbol
<1>2. code' \in [Block -> Seq(Inst)] /\ CodeListed'
  <2>1. /\ created' \cap Inst = (created \cap Inst) \cup {i}
        /\ loose' \cap Inst = (loose \cap Inst) \ {i}
        /\ created \cap Block \subseteq created' /\ b \in created'
    OBVIOUS
  <2>. QED
    BY <2>1, InstructionEnters
<1>3. SymbolsListed' /\ NamesAreUnique'
  BY <1>1, SymbolsUntouched DEF BuilderInv, SymbolsListed
<1>4. BlocksListed'
  <2>1. /\ created' \cap Block = Listed(Fun, blocks) \cup (loose' \cap Block)
        /\ Listed(Fun, blocks) \cap loose' = {}
    BY <1>1, ListsHold
  <2>. QED
    BY <1>1, <2>1, BlocksStay
<1>5. BodiesRunInModule' /\ EntryComesFirst'
  BY <1>1, GrownIfSame, FramesUntouched
<1>6. TypeOK'
  BY <1>1, <1>2 DEF BuilderInv, TypeOK
<1>. QED
  BY <1>2, <1>3, <1>4, <1>5, <1>6 DEF BuilderInv

LEMMA AppendInstructionStep ==
  ASSUME BuilderInv, NEW i \in Inst, NEW b \in Block, AppendInstruction(i, b)
  PROVE  BuilderInv'
<1>1. i \in created /\ i \notin Listed(Block, code)
  BY ListsHold DEF AppendInstruction
<1>2. created' = created \cup {i}
  BY <1>1 DEF AppendInstruction
<1>. QED
  BY <1>1, <1>2, CodeStep DEF AppendInstruction

(* The running body is one of the frames. *)
LEMMA TopIsFrame ==
  ASSUME BuilderInv, frames # << >>
  PROVE  /\ Top \in Frame /\ Top.fun \in Fun /\ Top.block \in Block
         /\ RunsInModule(Top)
         /\ Top.fun \in created /\ Top.block \in Listed(Fun, blocks)
<1>1. Len(frames) \in Nat \ {0} /\ frames \in Seq(Frame)
  BY FramesAreFrames DEF BuilderInv, TypeOK
<1>2. Top \in Frame /\ RunsInModule(Top)
  BY <1>1, FramesAreFrames, FrameByFrame DEF Top
<1>3. Top.fun \in Fun /\ Top.block \in Block
  BY <1>2 DEF Frame
<1>4. Top.fun \in created /\ Top.block \in Listed(Fun, blocks)
  BY <1>2, <1>3, ListsHold DEF RunsInModule, Symbols, Listed
<1>. QED
  BY <1>2, <1>3, <1>4

LEMMA EmitStep ==
  ASSUME BuilderInv, NEW i \in Inst, Emit(i)
  PROVE  BuilderInv'
<1>1. PICK b \in Block : b = Top.block /\ b \in created
  BY TopIsFrame, ListsHold DEF Emit
<1>2. i \notin Listed(Block, code) /\ loose' = loose \ {i}
  BY ListsHold DEF Emit
<1>. QED
  BY <1>1, <1>2, CodeStep DEF Emit

LEMMA LabelStep ==
  ASSUME BuilderInv, NEW b \in Block, Label(b)
  PROVE  BuilderInv'
<1>1. /\ b \notin Symbol /\ b \notin Inst /\ b \notin created /\ b \notin loose
      /\ b \notin Listed(Fun, blocks) /\ frames # << >>
      /\ blocks' = WithBlock(Top.fun, b)
      /\ code' = code /\ frames' = Append(frames, [Top EXCEPT !.block = b])
      /\ functions' = functions /\ globals' = globals /\ name' = name
      /\ created' = created \cup {b} /\ loose' = loose
  BY ListsHold, SymbolAssumption DEF Label, Symbol
<1>2. PICK q \in Frame : q = Top
  BY <1>1, TopIsFrame
<1>3. PICK r \in Frame : r = [q EXCEPT !.block = b]
  BY DEF Frame
<1>4. PICK f \in Fun : f = q.fun /\ f = r.fun /\ r.block = b
  BY <1>3 DEF Frame
<1>5. f \in Range(functions) /\ f \in created /\ q.block \in Range(blocks[f])
  BY <1>1, <1>2, <1>4, TopIsFrame DEF RunsInModule
<1>6. /\ blocks' \in [Fun -> Seq(Block)]
      /\ BlocksListed'
      /\ \A g \in Fun : Extends(blocks[g], blocks'[g])
      /\ Len(blocks[f]) + 1 \in DOMAIN blocks'[f]
      /\ blocks'[f][Len(blocks[f]) + 1] = b
      /\ b \in Range(blocks'[f])
  <2>1. /\ created' \cap Block = (created \cap Block) \cup {b}
        /\ loose' \cap Block = (loose \cap Block) \ {b}
        /\ created \cap Fun \subseteq created' /\ f \in created'
    BY <1>1, <1>5
  <2>2. blocks' = WithBlock(f, b)
    BY <1>1, <1>2, <1>4
  <2>. QED
    BY <1>1, <2>1, <2>2, BlockEnters
<1>7. SymbolsListed' /\ NamesAreUnique'
  BY <1>1, SymbolsUntouched DEF BuilderInv, SymbolsListed
<1>8. CodeListed'
  <2>1. /\ created' \cap Inst = Listed(Block, code) \cup (loose' \cap Inst)
        /\ Listed(Block, code) \cap loose' = {}
    BY <1>1, ListsHold
  <2>. QED
    BY <1>1, <2>1, CodeStays
<1>9. frames' \in Seq(Frame) /\ BodiesRunInModule' /\ EntryComesFirst'
  <2>1. Grown
    BY <1>1, <1>6 DEF Grown
  <2>2. RunsInModule(r)'
    BY <1>1, <1>4, <1>5, <1>6 DEF RunsInModule
  <2>3. Nests(q, r)'
    <3>1. PICK i \in DOMAIN blocks[f] : blocks[f][i] = q.block
      BY <1>5 DEF Range
    <3>2. i \in 1 .. Len(blocks[f]) /\ Len(blocks[f]) \in Nat
      BY <3>1, LenProperties DEF BuilderInv, TypeOK
    <3>3. i \in DOMAIN blocks'[f] /\ blocks'[f][i] = q.block
      BY <1>6, <3>1 DEF Extends
    <3>4. i < Len(blocks[f]) + 1
      BY <3>2
    <3>5. RunsBehind(q, r)'
      BY <1>4, <1>6, <3>3, <3>4 DEF RunsBehind
    <3>. QED
      BY <1>4, <3>5 DEF Nests
  <2>4. frames' = Append(frames, r)
    BY <1>1, <1>2, <1>3
  <2>. QED
    BY <1>1, <1>2, <2>1, <2>2, <2>3, <2>4, FramePushed
<1>10. TypeOK'
  BY <1>1, <1>6, <1>9 DEF BuilderInv, TypeOK
<1>. QED
  BY <1>6, <1>7, <1>8, <1>9, <1>10 DEF BuilderInv

LEMMA DefineStep ==
  ASSUME BuilderInv, NEW f \in Fun, NEW b \in Block, NEW n \in Name \cup {NoName},
         Define(f, b, n)
  PROVE  BuilderInv'
<1>1. PICK u \in Unique(f, n) : name' = [name EXCEPT ![f] = u]
  BY DEF Define
<1>2. /\ f \in Symbol \ Symbols /\ f \notin loose /\ f \notin Block /\ f \notin Inst
      /\ b \notin Listed(Fun, blocks) /\ b \notin Symbol /\ b \notin Inst
      /\ b \notin loose /\ f \notin created /\ b \notin created /\ f \notin Glob
      /\ blocks[f] = << >>
      /\ blocks' = WithBlock(f, b)
      /\ code' = code /\ loose' = loose /\ globals' = globals
      /\ functions' = Append(functions, f) /\ created' = created \cup {f, b}
      /\ frames' = Append(frames, [fun |-> f, block |-> b])
  BY ListsHold, SymbolAssumption DEF Define, Symbol
<1>3. /\ functions' \in Seq(Fun) /\ globals' \in Seq(Glob)
      /\ name' \in [Symbol -> FullName] /\ SymbolsListed' /\ NamesAreUnique'
      /\ Range(functions) \subseteq Range(functions)'
  BY <1>1, <1>2, SymbolEnters
<1>4. /\ blocks' \in [Fun -> Seq(Block)]
      /\ BlocksListed'
      /\ \A g \in Fun : Extends(blocks[g], blocks'[g])
      /\ Len(blocks[f]) + 1 \in DOMAIN blocks'[f]
      /\ blocks'[f][Len(blocks[f]) + 1] = b
      /\ b \in Range(blocks'[f])
  <2>1. /\ created' \cap Block = (created \cap Block) \cup {b}
        /\ loose' \cap Block = (loose \cap Block) \ {b}
        /\ created \cap Fun \subseteq created' /\ f \in created'
    BY <1>2
  <2>. QED
    BY <1>2, <2>1, BlockEnters
<1>5. CodeListed'
  <2>1. /\ created' \cap Inst = Listed(Block, code) \cup (loose' \cap Inst)
        /\ Listed(Block, code) \cap loose' = {}
    BY <1>2, ListsHold
  <2>. QED
    BY <1>2, <2>1, CodeStays
<1>6. f \in Range(functions)'
  BY <1>2, RangeOfAppend DEF BuilderInv, TypeOK
<1>7. frames' \in Seq(Frame) /\ BodiesRunInModule' /\ EntryComesFirst'
  <2>1. PICK r \in Frame : r = [fun |-> f, block |-> b]
    BY DEF Frame
  <2>2. r.fun = f /\ r.block = b
    BY <2>1
  <2>3. Grown
    BY <1>3, <1>4 DEF Grown
  <2>4. RunsInModule(r)'
    BY <1>4, <1>6, <2>2 DEF RunsInModule
  <2>5. RunsInEntry(r)'
    <3>1. Len(blocks[f]) + 1 = 1
      BY <1>2, EmptySeq
    <3>. QED
      BY <1>4, <2>2, <3>1 DEF RunsInEntry
  <2>6. ASSUME NEW q \in Frame, frames # << >>, q = Top
        PROVE  Nests(q, r)'
    <3>1. q.fun # r.fun
      BY <1>2, <2>2, <2>6, TopIsFrame
    <3>. QED
      BY <2>5, <3>1 DEF Nests
  <2>. QED
    BY <1>2, <2>1, <2>3, <2>4, <2>5, <2>6, FramePushed
<1>8. TypeOK'
  BY <1>2, <1>3, <1>4, <1>7 DEF BuilderInv, TypeOK, Symbol
<1>. QED
  BY <1>3, <1>4, <1>5, <1>7, <1>8 DEF BuilderInv

(* Those that end bodies. *)
LEMMA LeaveStep ==
  ASSUME BuilderInv, NEW k \in 0 .. Len(frames) - 1,
         frames' = SubSeq(frames, 1, k),
         UNCHANGED <<functions, globals, name, created, loose, blocks, code>>
  PROVE  BuilderInv'
<1>1. /\ functions' = functions /\ globals' = globals /\ name' = name
      /\ created' = created /\ loose' = loose /\ blocks' = blocks /\ code' = code
  OBVIOUS
<1>2. /\ frames' \in Seq(Frame) /\ Len(frames') <= Len(frames)
      /\ \A j \in 1 .. Len(frames') : frames'[j] = frames[j]
  <2>1. Len(frames) \in Nat /\ frames \in Seq(Frame)
    BY LenProperties DEF BuilderInv, TypeOK
  <2>. QED
    BY <2>1, FirstOf
<1>3. BodiesRunInModule' /\ EntryComesFirst'
  BY <1>1, <1>2, GrownIfSame, FramesKept
<1>4. BlocksListed'
  BY <1>1, ListsHold, BlocksStay
<1>5. CodeListed'
  BY <1>1, ListsHold, CodeStays
<1>6. SymbolsListed' /\ NamesAreUnique'
  BY <1>1, SymbolsUntouched DEF BuilderInv, SymbolsListed
<1>7. TypeOK'
  BY <1>1, <1>2 DEF BuilderInv, TypeOK
<1>. QED
  BY <1>3, <1>4, <1>5, <1>6, <1>7 DEF BuilderInv

LEMMA ThrowStep ==
  ASSUME BuilderInv, Throw
  PROVE  BuilderInv'
BY LeaveStep DEF Throw

LEMMA ReturnStep ==
  ASSUME BuilderInv, Return
  PROVE  BuilderInv'
<1>1. Len(frames) - 1 \in 0 .. Len(frames) - 1
  BY FramesAreFrames DEF BuilderInv, TypeOK, Return
<1>. QED
  BY <1>1, LeaveStep DEF Return

LEMMA IdleStep ==
  ASSUME BuilderInv, UNCHANGED vars
  PROVE  BuilderInv'
<1>1. /\ functions' = functions /\ globals' = globals /\ name' = name
      /\ created' = created /\ loose' = loose /\ blocks' = blocks /\ code' = code
      /\ frames' = frames
  BY DEF vars
<1>2. SymbolsListed' /\ NamesAreUnique'
  BY <1>1, SymbolsUntouched DEF BuilderInv, SymbolsListed
<1>. QED
  BY <1>1, <1>2, SymbolStep DEF BuilderInv, TypeOK

(* The invariant is an invariant. *)
THEOREM BuilderInvariance == Spec => []BuilderInv
<1>1. BuilderInv /\ [Next]_vars => BuilderInv'
  <2>. SUFFICES ASSUME BuilderInv, [Next]_vars PROVE BuilderInv'
    OBVIOUS
  <2>1. ASSUME NEW n \in Name \cup {NoName}, NEW g \in Glob, AddGlobal(g, n)
        PROVE  BuilderInv'
    BY <2>1, AddGlobalStep
  <2>2. ASSUME NEW n \in Name \cup {NoName}, NEW f \in Fun, Declare(f, n)
        PROVE  BuilderInv'
    BY <2>2, DeclareStep
  <2>3. ASSUME NEW n \in Name \cup {NoName}, NEW f \in Fun, NEW b \in Block,
               Define(f, b, n)
        PROVE  BuilderInv'
    BY <2>3, DefineStep
  <2>4. ASSUME NEW n \in Name \cup {NoName}, NEW s \in Symbol, SetName(s, n)
        PROVE  BuilderInv'
    BY <2>4, SetNameStep
  <2>5. ASSUME NEW n \in Name \cup {NoName}, NEW s \in Symbol, CreateSymbol(s, n)
        PROVE  BuilderInv'
    BY <2>5, CreateSymbolStep
  <2>6. ASSUME NEW s \in Symbol, AppendSymbol(s) PROVE BuilderInv'
    BY <2>6, AppendSymbolStep
  <2>7. ASSUME NEW b \in Block, Label(b) PROVE BuilderInv'
    BY <2>7, LabelStep
  <2>8. ASSUME NEW o \in Block \cup Inst, CreateLoose(o) PROVE BuilderInv'
    BY <2>8, CreateLooseStep
  <2>9. ASSUME NEW b \in Block, NEW f \in Fun, AppendBasicBlock(b, f)
        PROVE  BuilderInv'
    BY <2>9, AppendBasicBlockStep
  <2>10. ASSUME NEW i \in Inst, NEW b \in Block, AppendInstruction(i, b)
         PROVE  BuilderInv'
    BY <2>10, AppendInstructionStep
  <2>11. ASSUME NEW i \in Inst, Emit(i) PROVE BuilderInv'
    BY <2>11, EmitStep
  <2>12. CASE Return
    BY <2>12, ReturnStep
  <2>13. CASE Throw
    BY <2>13, ThrowStep
  <2>14. CASE UNCHANGED vars
    BY <2>14, IdleStep
  <2>. QED
    BY <2>1, <2>2, <2>3, <2>4, <2>5, <2>6, <2>7, <2>8, <2>9, <2>10, <2>11,
       <2>12, <2>13, <2>14 DEF Next
<1>. QED
  BY BuilderInit, <1>1, PTL DEF Spec
-----------------------------------------------------------------------------
(* Symbols, blocks, instructions and frames are where they belong: each in *)
(* the list of its own kind (module.cpp:125-146, function.cpp:49-55).      *)
THEOREM TypeCorrect == Spec => []TypeOK
<1>1. BuilderInv => TypeOK
  BY DEF BuilderInv
<1>. QED
  BY <1>1, BuilderInvariance, PTL

(* Whatever fails in whichever body, nothing that builders made is outside *)
(* the module or in two places of it (Builders.lean:93-98, 108-110).       *)
THEOREM AllIsAttached == Spec => []EverythingAttached
<1>1. BuilderInv => EverythingAttached
  <2>. SUFFICES ASSUME BuilderInv PROVE EverythingAttached
    OBVIOUS
  <2>1. ASSUME NEW O, NEW E, NEW list, Kept(created, loose, O, E, list)
        PROVE  Placed(O, E, list)
    <3>1. UNION {Range(list[o]) : o \in O \cap created} = Listed(O, list)
      <4>1. Range(<< >>) = {}
        BY DEF Range
      <4>. QED
        BY <2>1, <4>1 DEF Kept, Listed
    <3>. QED
      BY <2>1, <3>1 DEF Kept, Placed
  <2>2. Placed(Fun, Block, blocks) /\ Placed(Block, Inst, code)
    BY <2>1 DEF BuilderInv, BlocksListed, CodeListed
  <2>. QED
    BY <2>2 DEF BuilderInv, SymbolsListed, EverythingAttached
<1>. QED
  BY <1>1, BuilderInvariance, PTL

(* Bodies run in a block of a function of the module (Builders.lean:91-111).*)
THEOREM BodiesInModule == Spec => []BodiesRunInModule
<1>1. BuilderInv => BodiesRunInModule
  BY DEF BuilderInv
<1>. QED
  BY <1>1, BuilderInvariance, PTL

(* The body of `define` runs in the entry block of its function, whatever  *)
(* is appended meanwhile and fails in it (Builders.lean:93-98, 107-110).   *)
THEOREM EntryIsFirst == Spec => []EntryComesFirst
<1>1. BuilderInv => EntryComesFirst
  BY DEF BuilderInv
<1>. QED
  BY <1>1, BuilderInvariance, PTL

(* No two symbols of a module share a name (module.cpp:103-123). *)
THEOREM NamesUnique == Spec => []NamesAreUnique
<1>1. BuilderInv => NamesAreUnique
  BY DEF BuilderInv
<1>. QED
  BY <1>1, BuilderInvariance, PTL

(* A function of the module stays in it, and only setName renames it. *)
LEMMA FunctionStays ==
  ASSUME BuilderInv, [Next]_vars, NEW f \in Range(functions)
  PROVE  /\ f \in Range(functions)'
         /\ \/ name'[f] = name[f]
            \/ \E m \in Name \cup {NoName} : SetName(f, m)
<1>1. /\ functions \in Seq(Fun) /\ name \in [Symbol -> FullName]
      /\ f \in created /\ f \notin loose /\ f \in Symbol /\ f \in Fun
  BY RangeOfSeq DEF BuilderInv, TypeOK, SymbolsListed, Symbols, Symbol
<1>2. ASSUME NEW s \in Symbol, f # s, NEW u, name' = [name EXCEPT ![s] = u]
      PROVE  name'[f] = name[f]
  BY <1>1, <1>2
<1>3. ASSUME NEW n \in Name \cup {NoName}, NEW g \in Glob, AddGlobal(g, n)
      PROVE  f \in Range(functions)' /\ name'[f] = name[f]
  BY <1>1, <1>3 DEF AddGlobal, Symbol
<1>4. ASSUME NEW n \in Name \cup {NoName}, NEW g \in Fun, Declare(g, n)
      PROVE  f \in Range(functions)' /\ name'[f] = name[f]
  BY <1>1, <1>4, RangeOfAppend DEF Declare, Symbol
<1>5. ASSUME NEW n \in Name \cup {NoName}, NEW g \in Fun, NEW b \in Block,
             Define(g, b, n)
      PROVE  f \in Range(functions)' /\ name'[f] = name[f]
  BY <1>1, <1>5, RangeOfAppend DEF Define, Symbol
<1>6. ASSUME NEW n \in Name \cup {NoName}, NEW s \in Symbol, SetName(s, n)
      PROVE  f \in Range(functions)' /\ (name'[f] = name[f] \/ s = f)
  BY <1>1, <1>6 DEF SetName
<1>7. ASSUME NEW n \in Name \cup {NoName}, NEW s \in Symbol, CreateSymbol(s, n)
      PROVE  f \in Range(functions)' /\ name'[f] = name[f]
  BY <1>1, <1>7 DEF CreateSymbol
<1>8. ASSUME NEW s \in Symbol, AppendSymbol(s)
      PROVE  f \in Range(functions)' /\ name'[f] = name[f]
  <2>1. f \in Range(functions)'
    <3>1. CASE s \in Fun /\ functions' = Append(functions, s)
      BY <1>1, <3>1, RangeOfAppend
    <3>2. CASE functions' = functions
      BY <3>2
    <3>. QED
      BY <1>8, <3>1, <3>2 DEF AppendSymbol
  <2>2. s # f /\ \E u : name' = [name EXCEPT ![s] = u]
    BY <1>1, <1>8 DEF AppendSymbol
  <2>. QED
    BY <1>2, <2>1, <2>2
<1>9. CASE UNCHANGED <<functions, name>>
  BY <1>9
<1>. QED
  BY <1>3, <1>4, <1>5, <1>6, <1>7, <1>8, <1>9 DEF Next, vars, Label, CreateLoose,
     AppendBasicBlock, AppendInstruction, Return, Throw, Emit

(* What a name stands for is stable until the function is renamed          *)
(* (Jit.lean:9, module.cpp:103-123).                                       *)
THEOREM LookupsStable == Spec => LookupsAreStable
<1>1. ASSUME BuilderInv, BuilderInv', [Next]_vars, NEW n \in Name
      PROVE  LET f == GetFunction(n) IN
               \/ f = None
               \/ GetFunction(n)' = f
               \/ \E m \in Name \cup {NoName} : SetName(f, m)
  <2>. SUFFICES ASSUME GetFunction(n) # None,
                       ~ \E m \in Name \cup {NoName} : SetName(GetFunction(n), m)
                PROVE  GetFunction(n)' = GetFunction(n)
    OBVIOUS
  <2>1. PICK f : f = GetFunction(n)
    OBVIOUS
  <2>2. f \in Range(functions) /\ name[f] = <<n, 0>>
    BY <2>1 DEF GetFunction
  <2>3. f \in Range(functions)' /\ name'[f] = <<n, 0>>
    BY <1>1, <2>1, <2>2, FunctionStays
  <2>4. <<n, 0>> # NoName
    BY NameAssumption, BoundAssumption
  <2>5. \A g \in Range(functions)' : name'[g] = <<n, 0>> => g = f
    BY <1>1, <2>3, <2>4 DEF BuilderInv, NamesAreUnique, Symbols
  <2>6. GetFunction(n)' = f
    BY <2>3, <2>5 DEF GetFunction
  <2>. QED
    BY <2>1, <2>6
<1>. QED
  <2>1. BuilderInv /\ BuilderInv' /\ [Next]_vars =>
          \A n \in Name : LET f == GetFunction(n) IN
            \/ f = None
            \/ GetFunction(n)' = f
            \/ \E m \in Name \cup {NoName} : SetName(f, m)
    BY <1>1
  <2>. QED
    BY <2>1, BuilderInvariance, PTL DEF Spec, LookupsAreStable

(* When a body ends, the code around it goes on in the block it was in     *)
(* (Builders.lean:91-111).                                                 *)
THEOREM Bracketed == Spec => BodiesAreBracketed
<1>1. ASSUME BuilderInv, [Next]_vars, NEW k \in DOMAIN frames \cap DOMAIN frames'
      PROVE  frames'[k] = frames[k]
  <2>1. /\ frames \in Seq(Frame) /\ Len(frames) \in Nat
        /\ DOMAIN frames = 1 .. Len(frames)
        /\ k \in 1 .. Len(frames)
    BY <1>1, FramesAreFrames DEF BuilderInv, TypeOK
  <2>2. CASE frames' = frames
    BY <2>2
  <2>3. CASE \E r \in Frame : frames' = Append(frames, r)
    BY <2>1, <2>3, AppendProperties
  <2>4. CASE \E j \in 0 .. Len(frames) - 1 : frames' = SubSeq(frames, 1, j)
    <3>1. PICK j \in 0 .. Len(frames) - 1 : frames' = SubSeq(frames, 1, j)
      BY <2>4
    <3>2. j \in 0 .. Len(frames)
      BY <2>1
    <3>3. DOMAIN frames' = 1 .. j /\ \A i \in 1 .. j : frames'[i] = frames[i]
      BY <2>1, <3>1, <3>2, FirstOf
    <3>. QED
      BY <1>1, <3>3
  <2>5. ASSUME NEW f \in Fun, NEW b \in Block, NEW n \in Name \cup {NoName},
               Define(f, b, n)
        PROVE  frames'[k] = frames[k]
    <3>1. \E r \in Frame : frames' = Append(frames, r)
      BY <2>5 DEF Define, Frame
    <3>. QED
      BY <2>3, <3>1
  <2>6. ASSUME NEW b \in Block, Label(b)
        PROVE  frames'[k] = frames[k]
    <3>1. \E r \in Frame : frames' = Append(frames, r)
      BY <1>1, <2>6, TopIsFrame DEF Label, Frame
    <3>. QED
      BY <2>3, <3>1
  <2>7. CASE Return
    <3>1. Len(frames) - 1 \in 0 .. Len(frames) - 1
      BY <2>1, <2>7, FramesAreFrames DEF Return
    <3>2. frames' = SubSeq(frames, 1, Len(frames) - 1)
      BY <2>7 DEF Return
    <3>. QED
      BY <2>4, <3>1, <3>2
  <2>8. CASE Throw
    BY <2>4, <2>8 DEF Throw
  <2>. QED
    BY <1>1, <2>2, <2>5, <2>6, <2>7, <2>8 DEF Next, vars, AddGlobal, Declare,
       SetName, CreateSymbol, AppendSymbol, CreateLoose, AppendBasicBlock,
       AppendInstruction, Emit
<1>. QED
  <2>1. BuilderInv /\ [Next]_vars =>
          \A k \in DOMAIN frames \cap DOMAIN frames' : frames'[k] = frames[k]
    BY <1>1
  <2>. QED
    BY <2>1, BuilderInvariance, PTL DEF Spec, BodiesAreBracketed
=============================================================================
