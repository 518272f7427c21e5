------------------------ MODULE ExecutionEngineProofs ------------------------
(* Engines never invalidate a module, for any number of engines, contexts  *)
(* and references, and whichever engine kinds programs ask for.            *)
EXTENDS ExecutionEngine, LinkedRefsProofs

(* The finalizer takes back all that the engine owns, so that nothing but  *)
(* a context deletes a module.                                             *)
TakenBack == freed = {} /\ \A e \in Engine : owned[e] \subseteq modules[e]

(* The inductive invariant: that of LinkedRefs, and the books of engines.  *)
EngineInv == EngineTypeOK /\ IInv /\ LiveNotDeleted /\ TakenBack
-----------------------------------------------------------------------------
(* Without engines there is nothing to give back. *)
LEMMA EngineInitEstablishes == EngineInit => EngineInv
<1> SUFFICES ASSUME EngineInit PROVE EngineInv
  OBVIOUS
<1>1. IInv
  BY InitEstablishes DEF EngineInit
<1>2. LiveNotDeleted /\ TakenBack
  BY DEF EngineInit, Init, LiveNotDeleted, TakenBack
<1>3. EngineTypeOK
  BY <1>1 DEF EngineInit, EngineTypeOK, IInv
<1>. QED
  BY <1>1, <1>2, <1>3 DEF EngineInv

(* The steps that leave references and contexts alone. *)
LEMMA ReferencesUntouched ==
  ASSUME EngineInv, UNCHANGED vars
  PROVE  TypeOK' /\ IInv' /\ LiveNotDeleted'
<1>1. IInv'
  BY NextPreserves DEF EngineInv
<1>. QED
  BY <1>1 DEF EngineInv, IInv, LiveNotDeleted, vars

(* Every step, of LinkedRefs or of an engine, preserves the invariant. *)
LEMMA EngineNextPreserves ==
  EngineInv /\ [EngineNext]_<<vars, engineVars>> => EngineInv'
<1> SUFFICES ASSUME EngineInv, [EngineNext]_<<vars, engineVars>>
             PROVE  EngineInv'
  OBVIOUS
<1>1. CASE Next /\ UNCHANGED engineVars
  <2>1. IInv'
    BY <1>1, NextPreserves DEF EngineInv
  <2>2. LiveNotDeleted'
    BY <1>1, <2>1, NextLinks, ContextAssumption
    DEF EngineInv, LiveNotDeleted, LinkStep, IInv, TypeOK
  <2>3. TakenBack' /\ EngineTypeOK'
    BY <1>1, <2>1 DEF EngineInv, TakenBack, EngineTypeOK, engineVars, IInv
  <2>. QED
    BY <2>1, <2>2, <2>3 DEF EngineInv
<1>2. CASE InitNativeTarget
  BY <1>2, ReferencesUntouched
  DEF InitNativeTarget, EngineInv, EngineTypeOK, TakenBack
<1>3. ASSUME NEW r \in Cell, NEW e \in Engine, NEW want \in Wanted,
             NEW found \in BOOLEAN, CreateForModule(r, e, want, found)
      PROVE  EngineInv'
  <2>1. TypeOK' /\ IInv' /\ LiveNotDeleted'
    BY <1>3, ReferencesUntouched DEF CreateForModule
  <2>2. Create(want, found) \in {"jit", "interpreter", None}
    BY DEF Create
  <2>3. /\ target[r] \in Module
        /\ kind' = [kind EXCEPT ![e] = Create(want, found)]
        /\ owned' = [owned EXCEPT ![e] = {target[r]}]
        /\ modules' = [modules EXCEPT ![e] = {target[r]}]
        /\ UNCHANGED <<targetReady, freed>>
    BY <1>3 DEF CreateForModule
  <2>4. EngineTypeOK'
    BY <2>1, <2>2, <2>3 DEF EngineInv, EngineTypeOK
  <2>5. TakenBack'
    BY <2>3 DEF EngineInv, EngineTypeOK, TakenBack
  <2>. QED
    BY <2>1, <2>4, <2>5 DEF EngineInv
<1>4. ASSUME NEW r \in Cell, NEW want \in Wanted, NEW found \in BOOLEAN,
             CreateFails(r, want, found)
      PROVE  EngineInv'
  BY <1>4, ReferencesUntouched
  DEF CreateFails, ReleasedByBuilder, EngineInv, EngineTypeOK, TakenBack
<1>5. ASSUME NEW e \in Engine, DropEngine(e)
      PROVE  EngineInv'
  <2>1. TypeOK' /\ IInv' /\ LiveNotDeleted'
    BY <1>5, ReferencesUntouched DEF DropEngine
  <2>2. freed' = {}
    BY <1>5 DEF DropEngine, EngineInv, TakenBack
  <2>3. /\ kind' = [kind EXCEPT ![e] = None]
        /\ owned' = [owned EXCEPT ![e] = {}]
        /\ modules' = [modules EXCEPT ![e] = {}]
        /\ UNCHANGED targetReady
    BY <1>5 DEF DropEngine
  <2>4. EngineTypeOK'
    BY <2>1, <2>2, <2>3 DEF EngineInv, EngineTypeOK
  <2>5. TakenBack'
    BY <2>2, <2>3 DEF EngineInv, EngineTypeOK, TakenBack
  <2>. QED
    BY <2>1, <2>4, <2>5 DEF EngineInv
<1>6. CASE UNCHANGED <<vars, engineVars>>
  BY <1>6, ReferencesUntouched
  DEF EngineInv, EngineTypeOK, TakenBack, engineVars
<1>. QED
  BY <1>1, <1>2, <1>3, <1>4, <1>5, <1>6 DEF EngineNext

(* The inductive invariant: that of the references, and that engines note  *)
(* every module they own (execution_engine.cpp:12-36 and 93-98).           *)
THEOREM EngineInvariance == EngineSpec => []EngineInv
BY EngineInitEstablishes, EngineNextPreserves, PTL DEF EngineSpec
-----------------------------------------------------------------------------
(* The object a live cell points to exists. *)
LEMMA TargetsExist ==
  ASSUME EngineInv, NEW r \in live \cap Cell
  PROVE  home[target[r]] \notin deleted
<1>1. home[target[r]] = link[r] /\ link[r] \in live
  BY LinkIsCounted DEF EngineInv, IInv, LinksOwned
<1>. QED
  BY <1>1 DEF EngineInv, LiveNotDeleted

(* No module reference dangles: an engine that dies, or that cannot be     *)
(* built, gives its module back (execution_engine.cpp:28-36 and 93-98).    *)
THEOREM EnginesKeepModules == EngineSpec => []ModuleRefsAreValid
<1>1. EngineInv => ModuleRefsAreValid
  BY TargetsExist DEF EngineInv, TakenBack, ModuleRefsAreValid, Gone
<1>. QED
  BY <1>1, EngineInvariance, PTL

(* A function that Lean code holds has its module, whether or not the      *)
(* ModuleRef is still held (execution_engine.cpp:105-111).                 *)
THEOREM FunctionsRun == EngineSpec => []HeldFunctionsRun
<1>1. ASSUME EngineInv, NEW f \in Cell, held[f] > 0
      PROVE  home[target[f]] \notin deleted
  <2>1. f \in live \cap Cell
    BY <1>1, HeldIsLive DEF EngineInv, Node
  <2>. QED
    BY <1>1, <2>1, TargetsExist
<1>2. EngineInv => HeldFunctionsRun
  BY <1>1 DEF EngineInv, TakenBack, HeldFunctionsRun, Gone
<1>. QED
  BY <1>2, EngineInvariance, PTL
=============================================================================
