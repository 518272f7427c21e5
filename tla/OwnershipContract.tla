-------------------------- MODULE OwnershipContract --------------------------
(***************************************************************************)
(* What Papyrus promises about the lifetime of the external objects that   *)
(* Lean code holds, stated as a garbage collector and without a single     *)
(* counter.                                                                *)
(*                                                                         *)
(* A ContextRef is an OwnedPtr: "deleted upon being garbage collected".    *)
(* A ModuleRef, TypeRef or ValueRef is a LinkedPtr: its context "should    *)
(* not be deleted until this one is garbage collected by Lean".  So at     *)
(* every moment the live objects are exactly the ones Lean holds and the   *)
(* contexts those are linked to: nothing dies earlier, nothing dies later. *)
(***************************************************************************)
CONSTANTS
  Context,   \* LLVM contexts, each with its OwnedPtr object
  Cell       \* LinkedPtr objects

VARIABLES
  roots,     \* the objects Lean code holds
  link,      \* link[r]: the context the linked pointer r is linked to
  live,      \* the objects that exist
  deleted    \* the contexts whose LLVMContext has been deleted

contractVars == <<roots, link, live, deleted>>

Node == Context \cup Cell

(* What the roots R keep alive when the linked pointers have the links L. *)
Reachable(R, L) == R \cup {L[r] : r \in R \cap Cell}

Init ==
  /\ roots = {}
  /\ live = {}
  /\ deleted = {}

(***************************************************************************)
(* One call, or one step of Lean code between calls.  It may drop and      *)
(* duplicate what it holds; a linked pointer it obtains is linked to a     *)
(* context that was alive; a context it obtains is a new one or one that   *)
(* was alive.  Collection is immediate.                                    *)
(***************************************************************************)
Next ==
  /\ roots' \subseteq Node
  /\ \A r \in roots \cap roots' \cap Cell : link'[r] = link[r]
  /\ \A r \in (roots' \ roots) \cap Cell : link'[r] \in live \cap Context
  /\ (roots' \cap Context) \ live \subseteq Context \ deleted
  /\ live' = Reachable(roots', link')
  /\ deleted' = deleted \cup ((live \cap Context) \ live')

Spec == Init /\ [][Next]_contractVars
=============================================================================
