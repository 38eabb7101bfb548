--------------------------- MODULE DpeRefinement ---------------------------
(***************************************************************************)
(* A DPE instance implements ContextForest: its live slots are the nodes,  *)
(* parent_idx their parents, and the active ones are held.                 *)
(***************************************************************************)
EXTENDS DpeProperties

node_parent == [i \in Live(contexts) |-> contexts[i].parent_idx]

node_handle == [i \in ActiveSlots |-> contexts[i].handle]

node_log == [i \in Live(contexts) |-> contexts[i].tci_cumulative]

Forest ==
  INSTANCE ContextForest WITH
    Nodes  <- Slots,
    NONE   <- ROOT_INDEX,
    parent <- node_parent,
    handle <- node_handle,
    log    <- node_log

(***************************************************************************)
(* Every command of the instance, whatever it writes into how many slots,  *)
(* is one step of the forest or none: derivations only add a leaf below    *)
(* the context they name, destroy_context takes exactly the subtree and    *)
(* the retired ancestors that are left without children, and nothing else  *)
(* changes a parent, a measurement log or another context's handle.        *)
(***************************************************************************)
ImplementsForest == Forest!Spec
=============================================================================
