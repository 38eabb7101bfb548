----------------------------- MODULE DpeContext -----------------------------
(***************************************************************************)
(* The context array of a DPE instance: one record per slot, as laid out   *)
(* by dpe/src/context.rs, and the searches dpe/src/state.rs makes in it.   *)
(*                                                                         *)
(* This module has no variables: every operator takes the array, cs, that  *)
(* it reads, so that commands can apply them to a copy they have not yet   *)
(* committed.                                                              *)
(*                                                                         *)
(* Abstractions.  A context handle is a model value.  A cumulative TCI is  *)
(* the sequence of measurements hashed into it (the hash is taken to be    *)
(* free of collisions), so the current TCI is its last element and is not  *)
(* kept.  The children bitmap is the set of its bits.  SVNs, which no      *)
(* command branches on, are left out.                                      *)
(***************************************************************************)
EXTENDS Integers, Sequences, FiniteSets

CONSTANTS
  MAX_HANDLES,   \* number of slots of the context array
  Localities,    \* hardware localities that issue commands; 0 is the reset value
  TciTypes,      \* INPUT_TYPE values; 0 is the reset value
  Measurements,  \* measurements a command may carry
  RandHandles,   \* handles rand_bytes may produce
  DEFAULT,       \* ContextHandle::DEFAULT, all zeros
  INVALID        \* ContextHandle::INVALID, all ones

(***************************************************************************)
(* context.rs asserts at compile time that the children bitmap, a u64, has *)
(* a bit for every slot.  Keeping MAX_HANDLES below 64 also keeps          *)
(* ROOT_INDEX, 0xFF, from being a slot.                                    *)
(***************************************************************************)
ASSUME SlotsAssumption == MAX_HANDLES \in 1..64

ASSUME ResetValuesAssumption == 0 \in Localities /\ 0 \in TciTypes

ASSUME HandlesAssumption == DEFAULT # INVALID

Slots == 0 .. MAX_HANDLES - 1

ROOT_INDEX == 255

Handles == RandHandles \cup {DEFAULT, INVALID}

ContextState == {"Inactive", "Active", "Retired"}

ContextType == {"Normal", "Simulation"}

(***************************************************************************)
(* The tci_* fields are those of the TciNodeData embedded in the context.  *)
(***************************************************************************)
Context ==
  [ handle                   : Handles,
    tci_type                 : TciTypes,
    tci_cumulative           : Seq(Measurements),
    tci_locality             : Localities,
    children                 : SUBSET Slots,
    locality                 : Localities,
    parent_idx               : Slots \cup {ROOT_INDEX},
    context_type             : ContextType,
    state                    : ContextState,
    uses_internal_input_info : BOOLEAN,
    uses_internal_input_dice : BOOLEAN,
    allow_x509               : BOOLEAN,
    allow_export_cdi         : BOOLEAN,
    allow_recursive          : BOOLEAN ]

(***************************************************************************)
(* Context::new: the contents of a slot that was never used.               *)
(***************************************************************************)
NewContext ==
  [ handle                   |-> DEFAULT,
    tci_type                 |-> 0,
    tci_cumulative           |-> << >>,
    tci_locality             |-> 0,
    children                 |-> {},
    locality                 |-> 0,
    parent_idx               |-> ROOT_INDEX,
    context_type             |-> "Normal",
    state                    |-> "Inactive",
    uses_internal_input_info |-> FALSE,
    uses_internal_input_dice |-> FALSE,
    allow_x509               |-> FALSE,
    allow_export_cdi         |-> TRUE,
    allow_recursive          |-> FALSE ]

(***************************************************************************)
(* Context::activate: every field is set, from the ActiveContextArgs or to *)
(* its initial value.                                                      *)
(***************************************************************************)
Activated(args) ==
  [ handle                   |-> args.handle,
    tci_type                 |-> args.tci_type,
    tci_cumulative           |-> << >>,
    tci_locality             |-> args.locality,
    children                 |-> {},
    locality                 |-> args.locality,
    parent_idx               |-> args.parent_idx,
    context_type             |-> args.context_type,
    state                    |-> "Active",
    uses_internal_input_info |-> args.uses_internal_input_info,
    uses_internal_input_dice |-> args.uses_internal_input_dice,
    allow_x509               |-> args.allow_x509,
    allow_export_cdi         |-> args.allow_export_cdi,
    allow_recursive          |-> args.allow_recursive ]

(***************************************************************************)
(* Mutants of Destroyed: one forgets the measurement fields, one takes the *)
(* number of slots for ROOT_INDEX.                                         *)
(***************************************************************************)
DestroyedKeepsTci(c) ==
  [ c EXCEPT
      !.handle     = INVALID,
      !.children   = {},
      !.locality   = 0,
      !.parent_idx = ROOT_INDEX,
      !.state      = "Inactive" ]

DestroyedPastTheEnd(c) ==
  [ c EXCEPT
      !.handle         = INVALID,
      !.tci_type       = 0,
      !.tci_cumulative = << >>,
      !.children       = {},
      !.parent_idx     = MAX_HANDLES,
      !.state          = "Inactive" ]

(***************************************************************************)
(* Context::destroy.  The type and allow_export_cdi keep their old values. *)
(***************************************************************************)
Destroyed(c) ==
  [ c EXCEPT
      !.handle                   = INVALID,
      !.tci_type                 = 0,
      !.tci_cumulative           = << >>,
      !.tci_locality             = 0,
      !.children                 = {},
      !.locality                 = 0,
      !.parent_idx               = ROOT_INDEX,
      !.state                    = "Inactive",
      !.uses_internal_input_info = FALSE,
      !.uses_internal_input_dice = FALSE,
      !.allow_x509               = FALSE,
      !.allow_recursive          = FALSE ]

(***************************************************************************)
(* DpeInstance::add_tci_measurement on a context that passed its checks.   *)
(***************************************************************************)
Measured(c, m) == [c EXCEPT !.tci_cumulative = Append(@, m)]

-----------------------------------------------------------------------------
(***************************************************************************)
(* Searches.                                                               *)
(***************************************************************************)

(***************************************************************************)
(* The first index an iterator over the array, or over the bits of a       *)
(* bitmap, meets.                                                          *)
(***************************************************************************)
Lowest(S) == CHOOSE i \in S : \A j \in S : i <= j

ActiveIn(cs, l) == {i \in Slots : cs[i].state = "Active" /\ cs[i].locality = l}

ActiveWith(cs, h, l) == {i \in ActiveIn(cs, l) : cs[i].handle = h}

(***************************************************************************)
(* State::get_active_context_pos: the error it returns, and the index when *)
(* there is none.                                                          *)
(***************************************************************************)
LookupStatus(cs, h, l) ==
  IF ActiveIn(cs, l) = {} THEN "InvalidLocality"
  ELSE IF ActiveWith(cs, h, l) = {} THEN "InvalidHandle"
  ELSE "NoError"

GetActiveContextPos(cs, h, l) == Lowest(ActiveWith(cs, h, l))

(***************************************************************************)
(* Mutant of InactiveSlots: a retired context counts as free.              *)
(***************************************************************************)
NotActiveSlots(cs) == {i \in Slots : cs[i].state # "Active"}

(***************************************************************************)
(* State::get_next_inactive_context_pos, when some slot is inactive.       *)
(***************************************************************************)
InactiveSlots(cs) == {i \in Slots : cs[i].state = "Inactive"}

GetNextInactiveContextPos(cs) == Lowest(InactiveSlots(cs))

(***************************************************************************)
(* The slots reached from those in start by following next any number of   *)
(* times: the least set that contains start and is closed under next.      *)
(***************************************************************************)
Reachable(start, next) ==
  {k \in Slots :
     \A D \in SUBSET Slots :
        (start \subseteq D /\ \A j \in D : next[j] \subseteq D) => k \in D}

(***************************************************************************)
(* State::get_descendants: the bits of the children bitmap and those of    *)
(* every context found that way.  It fails on an inactive context.         *)
(***************************************************************************)
Descendants(cs, i) ==
  Reachable(cs[i].children, [j \in Slots |-> cs[j].children])

DescendantsStatus(cs, i) ==
  IF \E j \in Descendants(cs, i) : cs[j].state = "Inactive"
    THEN "InvalidHandle"
    ELSE "NoError"

(***************************************************************************)
(* The nodes RootToChildIter visits for leaf i: i and its ancestors.       *)
(***************************************************************************)
ParentOf(cs, i) == IF cs[i].parent_idx = ROOT_INDEX THEN {} ELSE {cs[i].parent_idx}

Lineage(cs, i) == Reachable({i}, [j \in Slots |-> ParentOf(cs, j)])

(***************************************************************************)
(* RootToChildIter::new fails on the first inactive context of the path.   *)
(***************************************************************************)
LineageStatus(cs, i) ==
  IF \E j \in Lineage(cs, i) : cs[j].state = "Inactive"
    THEN "InvalidHandle"
    ELSE "NoError"

(***************************************************************************)
(* What DpeInstance::compute_measurement_hash hashes: the TCI and the      *)
(* allow_x509 flag of every node from the root to the leaf, then the       *)
(* instance's own information and certificates if any node asks for them.  *)
(***************************************************************************)
MeasurementHash(cs, leaf) ==
  LET path     == Lineage(cs, leaf)
      Depth(i) == Cardinality(Lineage(cs, i))
      NodeAt(d) == CHOOSE i \in path : Depth(i) = d
      Node(i)  == << cs[i].tci_type, cs[i].tci_cumulative,
                     cs[i].tci_locality, cs[i].allow_x509 >>
  IN  [ nodes |-> [d \in 1 .. Cardinality(path) |-> Node(NodeAt(d))],
        info  |-> \E i \in path : cs[i].uses_internal_input_info,
        dice  |-> \E i \in path : cs[i].uses_internal_input_dice ]

-----------------------------------------------------------------------------
(***************************************************************************)
(* destroy_context in commands/destroy_context.rs.                         *)
(***************************************************************************)

(***************************************************************************)
(* Mutant of LoneRetiredParent: an active parent goes with its only child. *)
(***************************************************************************)
LoneParent(cs, i) ==
  {p \in ParentOf(cs, i) : \E k \in Slots : cs[p].children = {k}}

(***************************************************************************)
(* The parent of i when it is retired and i is its only child: the context *)
(* that has nothing left to be kept for once i is destroyed.               *)
(***************************************************************************)
LoneRetiredParent(cs, i) ==
  {p \in ParentOf(cs, i) :
     /\ cs[p].state = "Retired"
     /\ \E k \in Slots : cs[p].children = {k}}

(***************************************************************************)
(* Mutant of RetiredAncestors: the loop stops at the first retired         *)
(* ancestor.                                                               *)
(***************************************************************************)
RetiredParentOnly(cs, i) == LoneRetiredParent(cs, i)

RetiredAncestors(cs, i) ==
  Reachable(LoneRetiredParent(cs, i),
            [j \in Slots |-> LoneRetiredParent(cs, j)])

ToDestroy(cs, i) == Descendants(cs, i) \cup {i} \cup RetiredAncestors(cs, i)

(***************************************************************************)
(* Mutant of DestroyContext: the bits of the destroyed slots stay set.     *)
(***************************************************************************)
DestroyContextKeepsBits(cs, i) ==
  [k \in Slots |-> IF k \in ToDestroy(cs, i) THEN Destroyed(cs[k]) ELSE cs[k]]

(***************************************************************************)
(* The array after destroy_context of slot i: the destroyed slots are      *)
(* cleared and their bits removed from every children bitmap.              *)
(***************************************************************************)
DestroyContext(cs, i) ==
  [k \in Slots |->
     IF k \in ToDestroy(cs, i)
       THEN Destroyed(cs[k])
       ELSE [cs[k] EXCEPT !.children = @ \ ToDestroy(cs, i)]]
=============================================================================
