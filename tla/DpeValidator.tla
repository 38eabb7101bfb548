---------------------------- MODULE DpeValidator ----------------------------
(***************************************************************************)
(* DpeValidator::validate_dpe of dpe/src/validation.rs, which checks a     *)
(* State found in memory, and an instance that executes commands on a      *)
(* State so accepted.                                                      *)
(*                                                                         *)
(* The validator promises no order among the errors of a state that has    *)
(* several, so each check is a predicate and a state is accepted when all  *)
(* of them hold.  The marker and the version of State, which no command    *)
(* changes, are taken to be right.                                         *)
(***************************************************************************)
EXTENDS DpeProperties

CONSTANT StoredContexts  \* what the slots of a kept State may hold

(***************************************************************************)
(* A kept slot has the layout of Context, but parent_idx may be any byte   *)
(* and children may have any of its 64 bits set.                           *)
(***************************************************************************)
StoredContext ==
  [ handle                   : Handles,
    tci_type                 : TciTypes,
    tci_cumulative           : Seq(Measurements),
    tci_locality             : Localities,
    children                 : SUBSET (0 .. 63),
    locality                 : Localities,
    parent_idx               : 0 .. 255,
    context_type             : ContextType,
    state                    : ContextState,
    uses_internal_input_info : BOOLEAN,
    uses_internal_input_dice : BOOLEAN,
    allow_x509               : BOOLEAN,
    allow_export_cdi         : BOOLEAN,
    allow_recursive          : BOOLEAN ]

ASSUME StoredAssumption == StoredContexts \subseteq StoredContext

-----------------------------------------------------------------------------
(***************************************************************************)
(* validate_dpe_state: each context by itself and with its neighbours.     *)
(***************************************************************************)

(***************************************************************************)
(* Errors SimulationNotSupported, InternalDiceNotSupported,                *)
(* InternalInfoNotSupported, AllowX509NotSupported.                        *)
(***************************************************************************)
CheckSupport(c) ==
  /\ c.context_type = "Simulation" => "SIMULATION" \in Support
  /\ c.uses_internal_input_dice => "INTERNAL_DICE" \in Support
  /\ c.uses_internal_input_info => "INTERNAL_INFO" \in Support
  /\ c.parent_idx # ROOT_INDEX /\ c.allow_x509 => "X509" \in Support

(***************************************************************************)
(* Errors InactiveContextInvalidParent, InactiveContextWithChildren,       *)
(* InactiveContextWithMeasurement, InactiveContextWithFlagSet.             *)
(***************************************************************************)
ValidateInactiveContext(c) ==
  /\ c.parent_idx = ROOT_INDEX
  /\ c.children = {}
  /\ c.tci_type = 0 /\ c.tci_cumulative = << >> /\ c.tci_locality = 0
  /\ ~c.uses_internal_input_dice /\ ~c.allow_x509 /\ ~c.uses_internal_input_info

(***************************************************************************)
(* Errors ParentDoesNotExist, InactiveParent, ParentChildLinksCorrupted.   *)
(***************************************************************************)
CheckParent(cs, i) ==
  LET p == cs[i].parent_idx
  IN  p # ROOT_INDEX => p \in Slots /\ cs[p].state # "Inactive" /\ i \in cs[p].children

(***************************************************************************)
(* Errors ChildDoesNotExist, InactiveChild, ParentChildLinksCorrupted.     *)
(***************************************************************************)
CheckChildren(cs, i) ==
  \A k \in cs[i].children :
    k \in Slots /\ cs[k].state # "Inactive" /\ cs[k].parent_idx = i

(***************************************************************************)
(* Mutant of CheckChildrenAndParent: the children are not looked at.       *)
(***************************************************************************)
CheckParentOnly(cs, i) == CheckParent(cs, i)

CheckChildrenAndParent(cs, i) == CheckParent(cs, i) /\ CheckChildren(cs, i)

(***************************************************************************)
(* The loop over the contexts.  Besides the errors above:                  *)
(* DpeNotMarkedInitialized, DanglingRetiredContext, LocalityMismatch.      *)
(***************************************************************************)
ValidateContext(cs, initialized, i) ==
  /\ CheckSupport(cs[i])
  /\ cs[i].state = "Inactive" => ValidateInactiveContext(cs[i])
  /\ cs[i].state # "Inactive" => CheckChildrenAndParent(cs, i)
  /\ cs[i].state = "Active" /\ cs[i].context_type = "Normal" => initialized
  /\ cs[i].state = "Retired" => cs[i].children \cap Slots # {}
  /\ cs[i].locality = cs[i].tci_locality

(***************************************************************************)
(* Errors MultipleDefaultContexts and MixedContextLocality.                *)
(***************************************************************************)
DefaultIn(cs, l) == ActiveWith(cs, DEFAULT, l)

CheckContextHandlesPerLocality(cs) ==
  \A l \in {cs[i].locality : i \in Slots} :
    /\ \A i, j \in DefaultIn(cs, l) : i = j
    /\ DefaultIn(cs, l) = {} \/ ActiveIn(cs, l) \subseteq DefaultIn(cs, l)

-----------------------------------------------------------------------------
(***************************************************************************)
(* validate_context_forest: the children bitmaps as a graph, searched      *)
(* depth first from the contexts no bitmap mentions.                       *)
(***************************************************************************)
ParentsOf(cs, k) == {i \in Slots : k \in cs[i].children}

ForestRoots(cs) == {i \in Live(cs) : ParentsOf(cs, i) = {}}

(***************************************************************************)
(* The slots detect_invalid_subtree marks as seen from root r.  As none    *)
(* has two parents and r has none, it comes to no slot twice.              *)
(***************************************************************************)
Subtree(cs, r) ==
  Reachable({r}, [j \in Slots |-> cs[j].children \cap Slots])

(***************************************************************************)
(* Errors CyclesInTree, on an inactive slot, and                           *)
(* MixedContextTypeConnectedComponents.                                    *)
(***************************************************************************)
ValidSubtree(cs, r) ==
  \A k \in Subtree(cs, r) :
    cs[k].state # "Inactive" /\ cs[k].context_type = cs[r].context_type

(***************************************************************************)
(* Mutants of ValidateContextForest: what was not seen is not looked for,  *)
(* and Normal trees are not counted.                                       *)
(***************************************************************************)
ValidateTreesOnly(cs) ==
  /\ \A k \in Slots : \A i, j \in ParentsOf(cs, k) : i = j
  /\ \A r \in ForestRoots(cs) : ValidSubtree(cs, r)
  /\ \A r, s \in ForestRoots(cs) :
        cs[r].context_type = "Normal" /\ cs[s].context_type = "Normal" => r = s

ValidateForestUncounted(cs) ==
  /\ \A k \in Slots : \A i, j \in ParentsOf(cs, k) : i = j
  /\ \A r \in ForestRoots(cs) : ValidSubtree(cs, r)
  /\ \A i \in Live(cs) : \E r \in ForestRoots(cs) : i \in Subtree(cs, r)

(***************************************************************************)
(* Errors ChildWithMultipleParents, MultipleNormalConnectedComponents, and *)
(* CyclesInTree for a live slot no search has seen.                        *)
(***************************************************************************)
ValidateContextForest(cs) ==
  /\ \A k \in Slots : \A i, j \in ParentsOf(cs, k) : i = j
  /\ \A r \in ForestRoots(cs) : ValidSubtree(cs, r)
  /\ \A r, s \in ForestRoots(cs) :
        cs[r].context_type = "Normal" /\ cs[s].context_type = "Normal" => r = s
  /\ \A i \in Live(cs) : \E r \in ForestRoots(cs) : i \in Subtree(cs, r)

ValidateDpe(cs, initialized) ==
  /\ \A i \in Slots : ValidateContext(cs, initialized, i)
  /\ CheckContextHandlesPerLocality(cs)
  /\ ValidateContextForest(cs)

-----------------------------------------------------------------------------
(***************************************************************************)
(* An instance whose State was kept and accepted.  The crypto layer starts *)
(* with no exported CDI.                                                   *)
(***************************************************************************)
RestoredInit ==
  /\ contexts \in [Slots -> StoredContexts]
  /\ has_initialized \in BOOLEAN
  /\ ValidateDpe(contexts, has_initialized)
  /\ export_cdi_slots = {}
  /\ resp = NoResponse

RestoredSpec == RestoredInit /\ [][Next]_vars

-----------------------------------------------------------------------------
(***************************************************************************)
(* "Validates that the shape of the DPE instance is well-formed and that   *)
(* there is no illegal state present within the DPE": the validator        *)
(* accepts every state the commands can produce.                           *)
(***************************************************************************)
ValidatorAccepts == ValidateDpe(contexts, has_initialized)

(***************************************************************************)
(* With simulation contexts InitializeContext can put one beside a default *)
(* context.  Nothing else that the commands do is refused.                 *)
(***************************************************************************)
RejectedOnlyForMixing ==
  /\ \A i \in Slots : ValidateContext(contexts, has_initialized, i)
  /\ ValidateContextForest(contexts)
=============================================================================
