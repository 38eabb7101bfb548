--------------------------- MODULE ContextForest ---------------------------
(***************************************************************************)
(* What a DPE instance promises about its contexts, without slots that are *)
(* reused, bitmaps, flags or errors: a forest whose nodes each carry a log *)
(* of measurements, some of them held by a client who knows a handle.      *)
(*                                                                         *)
(* Clients act on nodes they hold.  A node nobody holds any longer stays   *)
(* only for those derived from it.                                         *)
(***************************************************************************)
EXTENDS Integers, Sequences, FiniteSets

CONSTANTS
  Nodes,         \* the nodes a forest may have
  NONE,          \* the parent of a root, not a node
  Handles,       \* what clients name nodes with
  Measurements   \* what a log records

VARIABLES
  parent,   \* the parent of every node of the forest
  handle,   \* the handle of every node that is held
  log       \* the measurements of every node

vars == << parent, handle, log >>

-----------------------------------------------------------------------------
Forest == DOMAIN parent

Held == DOMAIN handle

Added(f, n, v) == [k \in DOMAIN f \cup {n} |-> IF k = n THEN v ELSE f[k]]

Without(f, R) == [k \in DOMAIN f \ R |-> f[k]]

ChildrenOf(n) == {k \in Forest : parent[k] = n}

(***************************************************************************)
(* The node n and all that derives from it: the least set that contains n  *)
(* and the children of each of its members.                                *)
(***************************************************************************)
Subtree(n) ==
  {k \in Forest :
     \A D \in SUBSET Forest :
        (n \in D /\ \A j \in D : ChildrenOf(j) \subseteq D) => k \in D}

-----------------------------------------------------------------------------
Init ==
  \/ /\ parent = << >> /\ handle = << >> /\ log = << >>
  \/ \E n \in Nodes, h \in Handles :
       /\ parent = [k \in {n} |-> NONE]
       /\ handle = [k \in {n} |-> h]
       /\ log = [k \in {n} |-> << >>] \/ \E m \in Measurements : log = [k \in {n} |-> << m >>]

(***************************************************************************)
(* A root appears, held by whoever asked for it.                           *)
(***************************************************************************)
Plant ==
  \E n \in Nodes \ Forest, h \in Handles :
    /\ parent' = Added(parent, n, NONE)
    /\ handle' = Added(handle, n, h)
    /\ log' = Added(log, n, << >>)

(***************************************************************************)
(* A node is derived from one that is held, whose handle is replaced or    *)
(* given up.                                                               *)
(***************************************************************************)
Grow ==
  \E p \in Held, n \in Nodes \ Forest, h \in Handles, m \in Measurements :
    /\ parent' = Added(parent, n, p)
    /\ log' = Added(log, n, << m >>)
    /\ \/ \E ph \in Handles : handle' = Added([handle EXCEPT ![p] = ph], n, h)
       \/ handle' = Added(Without(handle, {p}), n, h)

(***************************************************************************)
(* A held node takes one more measurement.  The handles that may change    *)
(* with it are its own and its parent's.                                   *)
(***************************************************************************)
Extend ==
  \E n \in Held, m \in Measurements :
    /\ log' = [log EXCEPT ![n] = Append(@, m)]
    /\ handle' \in [Held -> Handles]
    /\ \A k \in Held \ {n, parent[n]} : handle'[k] = handle[k]
    /\ UNCHANGED parent

(***************************************************************************)
(* A held node is used, and its handle replaced.                           *)
(***************************************************************************)
Reissue ==
  \E n \in Held, h \in Handles :
    /\ handle' = [handle EXCEPT ![n] = h]
    /\ UNCHANGED << parent, log >>

(***************************************************************************)
(* A node that others derive from is given up.                             *)
(***************************************************************************)
Retire ==
  \E n \in Held :
    /\ ChildrenOf(n) # {}
    /\ handle' = Without(handle, {n})
    /\ UNCHANGED << parent, log >>

(***************************************************************************)
(* R is what goes when n is destroyed: its subtree, and of the others only *)
(* nodes that nobody holds and that lose all their children; and every     *)
(* such node goes.                                                         *)
(***************************************************************************)
Withers(n, R) ==
  /\ Subtree(n) \subseteq R
  /\ \A k \in R \ Subtree(n) : k \notin Held /\ ChildrenOf(k) \subseteq R
  /\ \A k \in Forest \ R : k \in Held \/ ~(ChildrenOf(k) \subseteq R)

Prune ==
  \E n \in Held, R \in SUBSET Forest :
    /\ Withers(n, R)
    /\ parent' = Without(parent, R)
    /\ handle' = Without(handle, R)
    /\ log' = Without(log, R)

Next == Plant \/ Grow \/ Extend \/ Reissue \/ Retire \/ Prune

Spec == Init /\ [][Next]_vars
=============================================================================
