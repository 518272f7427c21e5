-------------------------- MODULE ExecutionEngine --------------------------
(***************************************************************************)
(* Execution engines over the modules of LinkedRefs.                       *)
(*                                                                         *)
(* LLVM gives a module one owner that deletes it.  In Papyrus that is the  *)
(* LLVMContext: deleting the context deletes its modules.  While an engine *)
(* is built the EngineBuilder, and then the engine, holds the module in a  *)
(* unique_ptr too; the binding takes the module back from whichever of the *)
(* two dies.  An ExecutionEngineRef has no link to a context.              *)
(***************************************************************************)
EXTENDS LinkedRefs

CONSTANTS
  Engine,     \* Lean ExecutionEngineRef objects
  Wanted      \* the engine kinds programs ask for

ASSUME WantedAssumption == Wanted \subseteq {"either", "jit", "interpreter"}

VARIABLES
  targetReady,  \* initNativeTarget has registered the native target
  kind,         \* the LLVM engine an object holds, None if not allocated
  modules,      \* EEExternal.modules: what the finalizer removes
  owned,        \* the modules that LLVM deletes with the engine
  freed         \* the modules an engine or a builder has deleted

engineVars == <<targetReady, kind, modules, owned, freed>>

(* The types of the variables: an engine, once made, is one of the two     *)
(* kinds that LLVM has, and what it notes and owns are modules.            *)
EngineTypeOK ==
  /\ TypeOK
  /\ targetReady \in BOOLEAN
  /\ kind \in [Engine -> {"jit", "interpreter", None}]
  /\ modules \in [Engine -> SUBSET Module]
  /\ owned \in [Engine -> SUBSET Module]
  /\ freed \in SUBSET Module

EngineInit ==
  /\ Init
  /\ targetReady = FALSE
  /\ kind = [e \in Engine |-> None]
  /\ modules = [e \in Engine |-> {}]
  /\ owned = [e \in Engine |-> {}]
  /\ freed = {}
-----------------------------------------------------------------------------
(* A module that no longer exists. *)
Gone(m) == m \in freed \/ home[m] \in deleted

(* Variant with a bug: the kind that was asked for is the kind of the      *)
(* engine.                                                                 *)
CreateAsAsked(want, found) ==
  IF found \/ want # "jit" THEN want ELSE None

(* EngineBuilder::create: MCJIT where it is allowed and a target was       *)
(* found, else the interpreter where it is allowed, else failure.          *)
Create(want, found) ==
  IF found /\ want # "interpreter" THEN "jit"
  ELSE IF want # "jit" THEN "interpreter"
  ELSE None

(* Variant with a bug: the builder that failed deletes the module. *)
KeptByBuilder(m) == {m}

(* The builder fails and releases the module before it is destroyed. *)
ReleasedByBuilder(m) == {}

(* initNativeTarget *)
InitNativeTarget ==
  /\ ~targetReady
  /\ targetReady' = TRUE
  /\ UNCHANGED <<vars, kind, modules, owned, freed>>

(* createForModule succeeds: the engine owns the module, and the external  *)
(* object notes that it has to take it back.                               *)
CreateForModule(r, e, want, found) ==
  /\ held[r] > 0 /\ target[r] \in Module
  /\ kind[e] = None
  /\ found => targetReady
  /\ Create(want, found) # None
  /\ kind' = [kind EXCEPT ![e] = Create(want, found)]
  /\ owned' = [owned EXCEPT ![e] = {target[r]}]
  /\ modules' = [modules EXCEPT ![e] = {target[r]}]
  /\ UNCHANGED <<vars, targetReady, freed>>

(* createForModule fails: no engine, and the module stays. *)
CreateFails(r, want, found) ==
  /\ held[r] > 0 /\ target[r] \in Module
  /\ found => targetReady
  /\ Create(want, found) = None
  /\ freed' = freed \cup ReleasedByBuilder(target[r])
  /\ UNCHANGED <<vars, targetReady, kind, modules, owned>>

(* Variant with a bug: the finalizer removes nothing from the engine. *)
DropEngineWithModules(e) ==
  /\ kind[e] # None
  /\ freed' = freed \cup owned[e]
  /\ kind' = [kind EXCEPT ![e] = None]
  /\ owned' = [owned EXCEPT ![e] = {}]
  /\ modules' = [modules EXCEPT ![e] = {}]
  /\ UNCHANGED <<vars, targetReady>>

(* The last count of an engine goes: ~EEExternal removes the modules it    *)
(* noted, then the engine is deleted with the modules it still owns.       *)
DropEngine(e) ==
  /\ kind[e] # None
  /\ freed' = freed \cup (owned[e] \ modules[e])
  /\ kind' = [kind EXCEPT ![e] = None]
  /\ owned' = [owned EXCEPT ![e] = {}]
  /\ modules' = [modules EXCEPT ![e] = {}]
  /\ UNCHANGED <<vars, targetReady>>

EngineNext ==
  \/ Next /\ UNCHANGED engineVars
  \/ InitNativeTarget
  \/ \E r \in Cell, want \in Wanted, found \in BOOLEAN :
       \/ \E e \in Engine : CreateForModule(r, e, want, found)
       \/ CreateFails(r, want, found)
  \/ \E e \in Engine : DropEngine(e)

EngineSpec == EngineInit /\ [][EngineNext]_<<vars, engineVars>>
-----------------------------------------------------------------------------
(* No module reference dangles, however many engines were built over the   *)
(* module, failed to be built or died (execution_engine.cpp:28-36 and      *)
(* 93-98).                                                                 *)
ModuleRefsAreValid ==
  \A r \in live \cap Cell : target[r] \in Module => ~Gone(target[r])

(* A function that Lean code holds can be run in every engine over a       *)
(* module of its context: runFunction finds the module.  Neither the       *)
(* function nor the engine keeps the ModuleRef alive; the link of the      *)
(* function to the context does.                                           *)
HeldFunctionsRun ==
  \A e \in Engine, f \in Cell : \A m \in modules[e] :
    held[f] > 0 /\ home[target[f]] = home[m] => ~Gone(m)

(* The finalizer of an interpreter finds the modules it removes: they have *)
(* not been deleted (execution_engine.cpp:29 "remove all the modules from  *)
(* the execution engine so they don't get deleted").                       *)
FinalizerFindsModules ==
  \A e \in Engine : kind[e] = "interpreter" =>
    \A m \in modules[e] : ~Gone(m)
=============================================================================
