------------------------- MODULE DpeValidatorProofs -------------------------
(***************************************************************************)
(* Theorems about the validator: what it accepts is a forest, the commands *)
(* keep it one, and the validator accepts it again.                        *)
(*                                                                         *)
(* ForestInv is what all this rests on.  An accepted array has it, and so  *)
(* has the array of a fresh instance; every command keeps it; and an array *)
(* that has it is refused for its default contexts only.                   *)
(***************************************************************************)
EXTENDS DpeValidator, DpeForestProofs

(***************************************************************************)
(* What validate_dpe_state looks at in a slot, its neighbours aside.       *)
(***************************************************************************)
SlotOK(c, initialized) ==
  /\ CheckSupport(c)
  /\ c.state = "Inactive" => ValidateInactiveContext(c)
  /\ c.state = "Active" /\ c.context_type = "Normal" => initialized
  /\ c.locality = c.tci_locality

SlotsOK == \A i \in Slots : SlotOK(contexts[i], has_initialized)

(***************************************************************************)
(* RetiredIsNeeded without the handle, which the validator ignores.        *)
(***************************************************************************)
RetiredHasChild ==
  \A i \in Slots : contexts[i].state = "Retired" => contexts[i].children # {}

ForestInv ==
  /\ TypeOK /\ SlotsOK /\ RetiredHasChild
  /\ LinksAgree /\ NoCycle /\ OneNormalTree

-----------------------------------------------------------------------------
(***************************************************************************)
(* Accepted arrays.                                                        *)
(***************************************************************************)

(***************************************************************************)
(* An accepted array has the type of a context array, although a stored    *)
(* slot may hold any byte for its parent and any bit for a child.          *)
(***************************************************************************)
LEMMA AcceptedType ==
  ASSUME RestoredInit
  PROVE  TypeOK
<1>1. ASSUME NEW i \in Slots
      PROVE  contexts[i] \in Context
  <2>1. contexts[i] \in StoredContext /\ ValidateContext(contexts, has_initialized, i)
    BY StoredAssumption DEF RestoredInit, ValidateDpe
  <2>2. contexts[i].parent_idx \in Slots \cup {ROOT_INDEX}
    BY <2>1 DEF ValidateContext, ValidateInactiveContext, CheckChildrenAndParent, CheckParent
  <2>3. contexts[i].children \in SUBSET Slots
    BY <2>1 DEF ValidateContext, ValidateInactiveContext, CheckChildrenAndParent, CheckChildren
  <2>4. QED
    BY <2>1, <2>2, <2>3 DEF StoredContext, Context
<1>2. contexts \in [Slots -> Context]
  BY <1>1 DEF RestoredInit
<1>3. IsFiniteSet(export_cdi_slots) /\ Cardinality(export_cdi_slots) <= MAX_CDI_HANDLES
  BY FS_EmptySet, BoundsAssumption DEF RestoredInit
<1>4. resp \in Response
  BY InputsAssumption DEF RestoredInit, NoResponse, Response, Commands, Statuses
<1>5. QED
  BY <1>2, <1>3, <1>4 DEF RestoredInit, TypeOK

(***************************************************************************)
(* check_children_and_parent, passed by every live context, is agreement   *)
(* of the links.                                                           *)
(***************************************************************************)
LEMMA AcceptedLinks ==
  ASSUME TypeOK, RejectedOnlyForMixing
  PROVE  LinksAgree
<1>1. \A i \in Live(contexts) : CheckParent(contexts, i) /\ CheckChildren(contexts, i)
  BY DEF RejectedOnlyForMixing, ValidateContext, CheckChildrenAndParent, Live
<1>2. QED
  BY <1>1 DEF CheckParent, CheckChildren, LinksAgree, IsRoot, Parent, Live

(***************************************************************************)
(* An inactive slot is nobody's parent, so a context without parent_idx is *)
(* a root of the graph the children bitmaps make, and the other way round. *)
(***************************************************************************)
LEMMA RootsAreRoots ==
  ASSUME TypeOK, LinksAgree,
         \A p \in Slots : contexts[p].state = "Inactive" => contexts[p].children = {},
         NEW i \in Live(contexts)
  PROVE  i \in ForestRoots(contexts) <=> IsRoot(contexts, i)
<1>1. ROOT_INDEX \notin Slots
  BY SlotsAssumption DEF Slots, ROOT_INDEX
<1>2. ASSUME IsRoot(contexts, i), NEW p \in Slots, i \in contexts[p].children
      PROVE  FALSE
  <2>1. p \in Live(contexts)
    BY <1>2 DEF Live
  <2>2. contexts[i].parent_idx = p
    BY <1>2, <2>1 DEF LinksAgree
  <2>3. QED
    BY <1>1, <1>2, <2>2 DEF IsRoot
<1>3. ASSUME ~IsRoot(contexts, i)
      PROVE  ParentsOf(contexts, i) # {}
  <2>1. contexts[i].parent_idx \in Slots /\ i \in contexts[contexts[i].parent_idx].children
    BY <1>3 DEF LinksAgree, Live, Parent
  <2>2. QED
    BY <2>1 DEF ParentsOf
<1>4. QED
  BY <1>2, <1>3 DEF ForestRoots, ParentsOf

(* So it is in an accepted array. *)
LEMMA AcceptedRoots ==
  ASSUME TypeOK, RejectedOnlyForMixing, NEW i \in Live(contexts)
  PROVE  i \in ForestRoots(contexts) <=> IsRoot(contexts, i)
<1>1. \A p \in Slots : contexts[p].state = "Inactive" => contexts[p].children = {}
  BY DEF RejectedOnlyForMixing, ValidateContext, ValidateInactiveContext
<1>2. QED
  BY <1>1, AcceptedLinks, RootsAreRoots

(***************************************************************************)
(* The depth-first search sees every live context, so their links have no  *)
(* cycle: a set of contexts whose parents are all in it is never entered.  *)
(***************************************************************************)
LEMMA AcceptedNoCycle ==
  ASSUME TypeOK, RejectedOnlyForMixing
  PROVE  NoCycle
<1>1. LinksAgree
  BY AcceptedLinks
<1>2. SUFFICES ASSUME NEW D \in SUBSET Live(contexts), D # {},
                      \A i \in D : contexts[i].parent_idx \in D
               PROVE  FALSE
  BY DEF NoCycle
<1> DEFINE E == Slots \ D
           next == [j \in Slots |-> contexts[j].children \cap Slots]
<1>3. ROOT_INDEX \notin Slots /\ D \subseteq Slots
  BY SlotsAssumption DEF Slots, ROOT_INDEX, Live
<1>4. \A p \in Slots : contexts[p].state = "Inactive" => contexts[p].children = {}
  BY DEF RejectedOnlyForMixing, ValidateContext, ValidateInactiveContext
<1>5. ASSUME NEW j \in E
      PROVE  next[j] \subseteq E
  <2>1. SUFFICES ASSUME NEW k \in contexts[j].children, k \in D
                 PROVE  FALSE
    OBVIOUS
  <2>2. j \in Live(contexts)
    BY <1>4 DEF Live
  <2>3. contexts[k].parent_idx = j
    BY <1>1, <2>2 DEF LinksAgree
  <2>4. QED
    BY <1>2, <2>1, <2>3
<1>6. ASSUME NEW r \in ForestRoots(contexts)
      PROVE  r \in E
  <2>1. IsRoot(contexts, r) /\ r \in Live(contexts)
    BY <1>6, AcceptedRoots DEF ForestRoots
  <2>2. QED
    BY <1>2, <1>3, <2>1 DEF IsRoot, Live
<1>7. ASSUME NEW r \in ForestRoots(contexts)
      PROVE  Subtree(contexts, r) \subseteq E
  <2>1. {r} \subseteq E /\ E \in SUBSET Slots
    BY <1>6, <1>7
  <2>2. Reachable({r}, next) \subseteq E
    <3> HIDE DEF next, E
    <3> QED
      BY <1>5, <2>1, ReachableIsLeast
  <2>3. QED
    BY <2>2 DEF Subtree
<1>8. \A i \in Live(contexts) : \E r \in ForestRoots(contexts) : i \in Subtree(contexts, r)
  BY DEF RejectedOnlyForMixing, ValidateContextForest
<1>9. QED
  BY <1>2, <1>7, <1>8

(***************************************************************************)
(* In a finite forest some member of every set has no child in the set.    *)
(* Otherwise the parents of its members are all its members, so there are  *)
(* as many members with a parent in the set as members.                    *)
(***************************************************************************)
LEMMA SomeHasNoChild ==
  ASSUME TypeOK, LinksAgree, NoCycle, NEW D \in SUBSET Live(contexts), D # {}
  PROVE  \E i \in D : contexts[i].children \cap D = {}
<1> SUFFICES ASSUME \A i \in D : \E k \in D : k \in contexts[i].children
             PROVE  FALSE
  OBVIOUS
<1> DEFINE E == {k \in D : contexts[k].parent_idx \in D}
           f == [k \in E |-> contexts[k].parent_idx]
<1>1. IsFiniteSet(D) /\ IsFiniteSet(E) /\ E \in SUBSET D
  <2>1. IsFiniteSet(0 .. (MAX_HANDLES - 1))
    BY FS_Interval, SlotsAssumption
  <2>2. D \subseteq 0 .. (MAX_HANDLES - 1)
    BY DEF Live, Slots
  <2>3. QED
    BY <2>1, <2>2, FS_Subset
<1>2. f \in Surjection(E, D)
  <2>1. f \in [E -> D]
    OBVIOUS
  <2>2. ASSUME NEW i \in D
        PROVE  \E k \in E : f[k] = i
    BY DEF LinksAgree
  <2>3. QED
    BY <2>1, <2>2 DEF Surjection
<1>3. Cardinality(D) <= Cardinality(E)
  <2> HIDE DEF E, f
  <2> QED
    BY <1>1, <1>2, FS_Surjection
<1>4. Cardinality(E) <= Cardinality(D) /\ (Cardinality(D) = Cardinality(E) => D = E)
  <2> HIDE DEF E
  <2> QED
    BY <1>1, FS_Subset
<1>5. D = E
  <2>1. Cardinality(D) \in Nat /\ Cardinality(E) \in Nat
    <3> HIDE DEF E
    <3> QED
      BY <1>1, FS_CardinalityType
  <2>2. QED
    BY <1>3, <1>4, <2>1
<1>6. QED
  BY <1>5 DEF NoCycle

(***************************************************************************)
(* A tree of an accepted array has one type, and has_initialized is set if *)
(* it is Normal: some context of it is active, because a retired one has   *)
(* children.                                                               *)
(***************************************************************************)
LEMMA AcceptedTree ==
  ASSUME TypeOK, RejectedOnlyForMixing
  PROVE  OneNormalTree
<1>1. LinksAgree /\ NoCycle
  BY AcceptedLinks, AcceptedNoCycle
<1>2. ASSUME NEW i \in Live(contexts), ~IsRoot(contexts, i)
      PROVE  contexts[i].context_type = Parent(i).context_type
  <2> DEFINE p == contexts[i].parent_idx
             next == [j \in Slots |-> contexts[j].children \cap Slots]
  <2>1. p \in Live(contexts) /\ i \in contexts[p].children /\ i \in Slots
    BY <1>1, <1>2 DEF LinksAgree, Parent, Live
  <2>2. PICK r \in ForestRoots(contexts) : p \in Subtree(contexts, r)
    BY <2>1 DEF RejectedOnlyForMixing, ValidateContextForest
  <2>3. r \in Slots /\ p \in Slots
    BY <2>1 DEF ForestRoots, Live
  <2>4. next[p] \subseteq Subtree(contexts, r)
    <3>1. next \in [Slots -> SUBSET Slots] /\ {r} \in SUBSET Slots
      BY <2>3
    <3>2. \A j \in Reachable({r}, next) : next[j] \subseteq Reachable({r}, next)
      <4> HIDE DEF next
      <4> QED
        BY <3>1, ReachableIsClosed
    <3>3. QED
      BY <2>2, <3>2 DEF Subtree
  <2>5. i \in Subtree(contexts, r)
    BY <2>1, <2>3, <2>4
  <2>6. ValidSubtree(contexts, r)
    BY <2>2 DEF RejectedOnlyForMixing, ValidateContextForest
  <2>7. QED
    BY <2>2, <2>5, <2>6 DEF ValidSubtree, Parent
<1>3. ASSUME NEW i \in Live(contexts), contexts[i].context_type = "Normal"
      PROVE  has_initialized
  <2> DEFINE D == {k \in Live(contexts) : contexts[k].context_type = "Normal"}
  <2>1. PICK k \in D : contexts[k].children \cap D = {}
    <3>1. D \in SUBSET Live(contexts) /\ D # {}
      BY <1>3
    <3> HIDE DEF D
    <3>2. QED
      BY <1>1, <3>1, SomeHasNoChild
  <2>2. k \in Slots /\ ValidateContext(contexts, has_initialized, k)
    BY <2>1 DEF Live, RejectedOnlyForMixing
  <2>3. CASE contexts[k].state = "Active"
    BY <2>1, <2>2, <2>3 DEF ValidateContext
  <2>4. CASE contexts[k].state # "Active"
    <3>1. contexts[k].state = "Retired"
      BY <2>1, <2>2, <2>4 DEF TypeOK, Context, ContextState, Live
    <3>2. PICK j \in contexts[k].children : TRUE
      BY <2>2, <3>1 DEF ValidateContext
    <3>3. j \in Live(contexts) /\ contexts[j].parent_idx = k
      BY <1>1, <2>1, <3>2 DEF LinksAgree
    <3>4. ~IsRoot(contexts, j)
      BY <2>2, <3>3, SlotsAssumption DEF IsRoot, Slots, ROOT_INDEX
    <3>5. contexts[j].context_type = "Normal"
      BY <1>2, <2>1, <3>3, <3>4 DEF Parent
    <3>6. QED
      BY <2>1, <3>2, <3>3, <3>5
  <2>5. QED
    BY <2>3, <2>4
<1>4. ASSUME NEW i \in Live(contexts), NEW j \in Live(contexts),
             contexts[i].context_type = "Normal", IsRoot(contexts, i),
             contexts[j].context_type = "Normal", IsRoot(contexts, j)
      PROVE  i = j
  <2>1. i \in ForestRoots(contexts) /\ j \in ForestRoots(contexts)
    BY <1>4, AcceptedRoots
  <2>2. QED
    BY <1>4, <2>1 DEF RejectedOnlyForMixing, ValidateContextForest
<1>5. QED
  BY <1>2, <1>3, <1>4 DEF OneNormalTree

(* The other parts of ForestInv are checked slot by slot. *)
LEMMA AcceptedForest ==
  ASSUME TypeOK, RejectedOnlyForMixing
  PROVE  ForestInv
<1>1. SlotsOK
  BY DEF RejectedOnlyForMixing, ValidateContext, SlotsOK, SlotOK
<1>2. RetiredHasChild
  BY DEF RejectedOnlyForMixing, ValidateContext, RetiredHasChild
<1>3. QED
  BY <1>1, <1>2, AcceptedLinks, AcceptedNoCycle, AcceptedTree DEF ForestInv

-----------------------------------------------------------------------------
(***************************************************************************)
(* The other way round: what has ForestInv passes every check but that of  *)
(* the default contexts.                                                   *)
(***************************************************************************)
LEMMA ForestIsAccepted ==
  ASSUME ForestInv
  PROVE  RejectedOnlyForMixing
<1> USE DEF ForestInv
<1> DEFINE next == [j \in Slots |-> contexts[j].children \cap Slots]
<1>1. ROOT_INDEX \notin Slots /\ contexts \in [Slots -> Context]
  BY SlotsAssumption DEF Slots, ROOT_INDEX, TypeOK
<1>2. \A p \in Slots : contexts[p].state = "Inactive" => contexts[p].children = {}
  BY DEF SlotsOK, SlotOK, ValidateInactiveContext
<1>3. \A r \in Live(contexts) : r \in ForestRoots(contexts) <=> IsRoot(contexts, r)
  BY <1>2, RootsAreRoots
<1>4. ASSUME NEW i \in Slots
      PROVE  ValidateContext(contexts, has_initialized, i)
  <2>1. SlotOK(contexts[i], has_initialized)
    BY DEF SlotsOK
  <2>2. contexts[i].state = "Retired" => contexts[i].children \cap Slots # {}
    BY <1>1 DEF RetiredHasChild, Context
  <2>3. contexts[i].state # "Inactive" => CheckParent(contexts, i) /\ CheckChildren(contexts, i)
    BY DEF CheckParent, CheckChildren, LinksAgree, IsRoot, Parent, Live
  <2>4. QED
    BY <2>1, <2>2, <2>3 DEF ValidateContext, SlotOK, CheckChildrenAndParent
<1>5. ASSUME NEW k \in Slots, NEW i \in ParentsOf(contexts, k), NEW j \in ParentsOf(contexts, k)
      PROVE  i = j
  <2>1. i \in Live(contexts) /\ j \in Live(contexts)
    BY <1>2, <1>5 DEF ParentsOf, Live
  <2>2. QED
    BY <1>5, <2>1 DEF ParentsOf, LinksAgree
<1>6. ASSUME NEW r \in ForestRoots(contexts)
      PROVE  /\ ValidSubtree(contexts, r)
             /\ r \in Subtree(contexts, r)
             /\ \A j \in Subtree(contexts, r) : contexts[j].children \subseteq Subtree(contexts, r)
  <2> DEFINE D == {k \in Live(contexts) : contexts[k].context_type = contexts[r].context_type}
  <2>1. /\ {r} \in SUBSET Slots /\ next \in [Slots -> SUBSET Slots]
        /\ D \in SUBSET Slots /\ {r} \subseteq D
    BY DEF ForestRoots, Live
  <2>2. \A j \in D : next[j] \subseteq D
    <3>1. SUFFICES ASSUME NEW j \in D, NEW k \in contexts[j].children
                   PROVE  k \in D
      BY DEF Live
    <3>2. k \in Live(contexts) /\ contexts[k].parent_idx = j /\ j \in Slots
      BY <3>1 DEF LinksAgree, Live
    <3>3. contexts[k].context_type = contexts[j].context_type
      BY <1>1, <3>2 DEF OneNormalTree, IsRoot, Parent
    <3>4. QED
      BY <3>2, <3>3
  <2>3. /\ Reachable({r}, next) \subseteq D
        /\ Reachable({r}, next) \subseteq Slots /\ {r} \subseteq Reachable({r}, next)
        /\ \A j \in Reachable({r}, next) : next[j] \subseteq Reachable({r}, next)
    <3> HIDE DEF next, D
    <3> QED
      BY <2>1, <2>2, ReachableIsLeast, ReachableIsClosed
  <2>4. \A j \in Slots : next[j] = contexts[j].children
    BY <1>1 DEF Context
  <2>5. Subtree(contexts, r) = Reachable({r}, next)
    BY DEF Subtree
  <2> HIDE DEF next
  <2>6. QED
    BY <2>3, <2>4, <2>5 DEF ValidSubtree, Live
<1>7. ASSUME NEW r \in ForestRoots(contexts), NEW s \in ForestRoots(contexts),
             contexts[r].context_type = "Normal", contexts[s].context_type = "Normal"
      PROVE  r = s
  BY <1>3, <1>7 DEF ForestRoots, OneNormalTree
<1>8. ASSUME NEW i \in Live(contexts)
      PROVE  \E r \in ForestRoots(contexts) : i \in Subtree(contexts, r)
  <2> DEFINE Missed == {k \in Live(contexts) :
                          \A r \in ForestRoots(contexts) : k \notin Subtree(contexts, r)}
  <2>1. SUFFICES ASSUME Missed # {}
                 PROVE  FALSE
    OBVIOUS
  <2>2. PICK k \in Missed : contexts[k].parent_idx \notin Missed
    <3>1. Missed \in SUBSET Live(contexts)
      OBVIOUS
    <3> HIDE DEF Missed
    <3>2. QED
      BY <2>1, <3>1 DEF NoCycle
  <2>3. ~IsRoot(contexts, k)
    BY <1>3, <1>6, <2>2
  <2>4. Parent(k) = contexts[contexts[k].parent_idx] /\ k \in Parent(k).children
    BY <2>2, <2>3 DEF LinksAgree, Parent
  <2>5. contexts[k].parent_idx \in Live(contexts)
    BY <2>2, <2>3 DEF LinksAgree
  <2>6. PICK r \in ForestRoots(contexts) : contexts[k].parent_idx \in Subtree(contexts, r)
    BY <2>2, <2>5
  <2>7. k \in Subtree(contexts, r)
    BY <1>6, <2>4, <2>6
  <2>8. QED
    BY <2>2, <2>7
<1>9. QED
  BY <1>4, <1>5, <1>6, <1>7, <1>8 DEF RejectedOnlyForMixing, ValidateContextForest

-----------------------------------------------------------------------------
(***************************************************************************)
(* The commands keep ForestInv.                                            *)
(***************************************************************************)

(***************************************************************************)
(* A slot that keeps its place, and is not blanked, stays good.            *)
(***************************************************************************)
LEMMA SamePlaceIsOK ==
  ASSUME NEW c, NEW d, NEW old, NEW new, SlotOK(c, old), old => new, SamePlace(c, d),
         d.state = "Inactive" => ValidateInactiveContext(d),
         d.state = "Active" => c.state = "Active"
  PROVE  SlotOK(d, new)
BY DEF SlotOK, CheckSupport, SamePlace

(* The slots that did not change. *)
LEMMA SameIsOK ==
  ASSUME NEW i \in Slots, SlotOK(contexts[i], has_initialized),
         contexts'[i] = contexts[i], has_initialized => has_initialized'
  PROVE  SlotOK(contexts'[i], has_initialized')
BY DEF SlotOK

LEMMA RootIsOK ==
  ASSUME TypeOK, SlotsOK, RootAdded, has_initialized => has_initialized'
  PROVE  SlotsOK'
<1>1. PICK i \in Slots, type \in ContextType, l \in Localities, h \in Handles :
        /\ contexts' = [contexts EXCEPT ![i] = RootContext(type, l, h)]
        /\ type = "Normal" => ~has_initialized /\ has_initialized'
        /\ type = "Simulation" => "SIMULATION" \in Support
  BY DEF RootAdded
<1>2. /\ contexts'[i] = RootContext(type, l, h)
      /\ \A k \in Slots \ {i} : contexts'[k] = contexts[k]
  BY <1>1 DEF TypeOK
<1>3. SlotOK(contexts'[i], has_initialized')
  BY <1>1, <1>2 DEF RootContext, Activated, SlotOK, CheckSupport
<1>4. \A k \in Slots : SlotOK(contexts'[k], has_initialized')
  BY <1>2, <1>3, SameIsOK DEF SlotsOK
<1>5. QED
  BY <1>4 DEF SlotsOK

LEMMA ChildIsOK ==
  ASSUME TypeOK, SlotsOK, ChildAdded, has_initialized => has_initialized'
  PROVE  SlotsOK'
<1>1. PICK p, c \in Slots, flags \in DeriveFlagSets, t \in TciTypes, l \in Localities :
        \E ph, ch \in Handles, m \in Measurements :
          /\ contexts[p].state = "Active" /\ contexts[c].state = "Inactive"
          /\ DeriveSupported(flags)
          /\ contexts' = WithChild(p, c, TmpParent(contexts[p], flags, ph),
                                   Measured(ChildContext(p, flags, t, l, ch), m))
  BY DEF ChildAdded
<1>2. PICK ph, ch \in Handles, m \in Measurements :
        contexts' = WithChild(p, c, TmpParent(contexts[p], flags, ph),
                              Measured(ChildContext(p, flags, t, l, ch), m))
  BY <1>1
<1>3. /\ p # c /\ contexts[p] \in Context
      /\ contexts'[c] = Measured(ChildContext(p, flags, t, l, ch), m)
      /\ contexts'[p] = [TmpParent(contexts[p], flags, ph) EXCEPT !.children = @ \cup {c}]
      /\ \A k \in Slots \ {p, c} : contexts'[k] = contexts[k]
  BY <1>1, <1>2 DEF WithChild, TypeOK
<1>4. SlotOK(contexts[p], has_initialized)
  BY DEF SlotsOK
<1>5. SlotOK(contexts'[c], has_initialized')
  <2>1. /\ contexts'[c].context_type = contexts[p].context_type
        /\ contexts'[c].uses_internal_input_info = ("INTERNAL_INPUT_INFO" \in flags)
        /\ contexts'[c].uses_internal_input_dice = ("INTERNAL_INPUT_DICE" \in flags)
        /\ contexts'[c].allow_x509 = ("INPUT_ALLOW_X509" \in flags)
        /\ contexts'[c].state = "Active"
        /\ contexts'[c].locality = contexts'[c].tci_locality
    BY <1>3 DEF Measured, ChildContext, Activated
  <2>2. QED
    BY <1>1, <1>4, <2>1 DEF DeriveSupported, SlotOK, CheckSupport
<1>6. SlotOK(contexts'[p], has_initialized')
  <2>1. /\ SamePlace(contexts[p], contexts'[p])
        /\ contexts'[p].state \in {"Active", "Retired"}
    BY <1>1, <1>3 DEF TmpParent, Context, SamePlace
  <2>2. QED
    BY <1>1, <1>4, <2>1, SamePlaceIsOK
<1>7. \A k \in Slots : SlotOK(contexts'[k], has_initialized')
  BY <1>3, <1>5, <1>6, SameIsOK DEF SlotsOK
<1>8. QED
  BY <1>7 DEF SlotsOK

LEMMA DestroyedIsOK ==
  ASSUME TypeOK, SlotsOK, SubtreeDestroyed, has_initialized => has_initialized'
  PROVE  SlotsOK'
<1>1. PICK i \in Slots : contexts' = DestroyContext(contexts, i)
  BY DEF SubtreeDestroyed
<1>2. ASSUME NEW k \in Slots
      PROVE  SlotOK(contexts'[k], has_initialized')
  <2>1. contexts[k] \in Context /\ SlotOK(contexts[k], has_initialized)
    BY DEF TypeOK, SlotsOK
  <2>2. CASE k \in ToDestroy(contexts, i)
    <3>1. contexts'[k] = Destroyed(contexts[k])
      BY <1>1, <2>2 DEF DestroyContext
    <3>2. /\ contexts'[k].context_type = contexts[k].context_type
          /\ contexts'[k].state = "Inactive" /\ contexts'[k].locality = contexts'[k].tci_locality
          /\ ValidateInactiveContext(contexts'[k])
      BY <2>1, <3>1 DEF Destroyed, Context, ValidateInactiveContext
    <3>3. QED
      BY <2>1, <3>2 DEF SlotOK, CheckSupport, ValidateInactiveContext
  <2>3. CASE k \notin ToDestroy(contexts, i)
    <3>1. contexts'[k] = [contexts[k] EXCEPT !.children = @ \ ToDestroy(contexts, i)]
      BY <1>1, <2>3 DEF DestroyContext
    <3>2. SamePlace(contexts[k], contexts'[k]) /\ contexts'[k].state = contexts[k].state
      BY <2>1, <3>1 DEF Context, SamePlace
    <3>3. contexts[k].state = "Inactive" => ValidateInactiveContext(contexts'[k])
      BY <2>1, <3>1 DEF SlotOK, Context, ValidateInactiveContext
    <3>4. QED
      BY <2>1, <3>2, <3>3, SamePlaceIsOK
  <2>4. QED
    BY <2>2, <2>3
<1>3. QED
  BY <1>2 DEF SlotsOK

LEMMA SlotsStep ==
  ASSUME TypeOK, SlotsOK, [Next]_vars
  PROVE  SlotsOK'
<1>1. has_initialized => has_initialized'
  BY StepShape DEF Shape
<1>2. CASE Relabelled
  <2>1. ASSUME NEW i \in Slots
        PROVE  SlotOK(contexts'[i], has_initialized')
    <3>1. /\ SamePlace(contexts[i], contexts'[i]) /\ contexts'[i].state = contexts[i].state
          /\ contexts[i].state # "Active" => contexts'[i] = contexts[i]
      BY <1>2, RelabelledFields
    <3>2. SlotOK(contexts[i], has_initialized)
      BY DEF SlotsOK
    <3>3. contexts'[i].state = "Inactive" => ValidateInactiveContext(contexts'[i])
      BY <3>1, <3>2 DEF SlotOK
    <3>4. QED
      BY <1>1, <3>1, <3>2, <3>3, SamePlaceIsOK
  <2>2. QED
    BY <2>1 DEF SlotsOK
<1>3. CASE ParentReleased
  <2>1. PICK p \in Slots :
           /\ contexts[p].state = "Active"
           /\ \A k \in Slots \ {p} : contexts'[k] = contexts[k]
           /\ SamePlace(contexts[p], contexts'[p])
           /\ contexts'[p].state \in {"Active", "Retired"}
    BY <1>3, ParentReleasedFields
  <2>2. SlotOK(contexts'[p], has_initialized')
    <3>1. SlotOK(contexts[p], has_initialized)
      BY DEF SlotsOK
    <3>2. QED
      BY <1>1, <2>1, <3>1, SamePlaceIsOK
  <2>3. \A k \in Slots : SlotOK(contexts'[k], has_initialized')
    BY <1>1, <2>1, <2>2, SameIsOK DEF SlotsOK
  <2>4. QED
    BY <2>3 DEF SlotsOK
<1>4. QED
  BY <1>1, <1>2, <1>3, RootIsOK, ChildIsOK, DestroyedIsOK, StepShape DEF Shape

(***************************************************************************)
(* A retired context that stays has the children it had, or the survivors  *)
(* RetiredSurvivorKeepsChild finds.                                        *)
(***************************************************************************)
LEMMA RetiredChildStep ==
  ASSUME TypeOK, LinksAgree, RetiredHasChild, [Next]_vars
  PROVE  RetiredHasChild'
<1> SUFFICES ASSUME NEW k \in Slots, contexts'[k].state = "Retired"
             PROVE  contexts'[k].children # {}
  BY DEF RetiredHasChild
<1>1. contexts[k].state = "Retired" => contexts[k].children # {}
  BY DEF RetiredHasChild
<1>2. CASE Relabelled
  BY <1>1, <1>2, RelabelledFields
<1>3. CASE RootAdded \/ ChildAdded \/ ParentReleased
  <2>1. contexts'[k] = contexts[k] \/ contexts'[k].children # {}
    BY <1>3, RootAddedFields, ChildAddedFields, ParentReleasedFields
  <2>2. QED
    BY <1>1, <2>1
<1>4. CASE SubtreeDestroyed
  <2>1. PICK i \in Slots : contexts[i].state = "Active" /\ contexts' = DestroyContext(contexts, i)
    BY <1>4 DEF SubtreeDestroyed
  <2>2. /\ k \notin ToDestroy(contexts, i)
        /\ contexts[k].state = "Retired"
        /\ contexts'[k].children = contexts[k].children \ ToDestroy(contexts, i)
    BY <2>1, DestroyFields
  <2>3. QED
    BY <1>1, <2>1, <2>2, RetiredSurvivorKeepsChild
<1>5. QED
  BY <1>2, <1>3, <1>4, StepShape DEF Shape

(* Together with the lemmas about the forest, every part is kept. *)
LEMMA ForestInvStep ==
  ASSUME ForestInv, [Next]_vars
  PROVE  ForestInv'
<1> USE DEF ForestInv
<1>1. TypeOK' /\ SlotsOK' /\ RetiredHasChild' /\ LinksAgree' /\ NoCycle'
  BY TypeStep, SlotsStep, RetiredChildStep, LinksStep, NoCycleStep
<1>2. OneNormalTree'
  BY <1>1, NormalTreeStep
<1>3. QED
  BY <1>1, <1>2

(***************************************************************************)
(* A fresh instance has it too: its slots are as Context::new left them,   *)
(* but for a Normal root when it is initialised automatically.             *)
(***************************************************************************)
LEMMA InitForest ==
  ASSUME Init
  PROVE  ForestInv
<1>1. TypeOK /\ RetiredHasChild /\ LinksAgree
  BY InitType, InitFields DEF RetiredHasChild, LinksAgree, Live, IsRoot
<1>2. NoCycle
  BY InitFields, SlotsAssumption DEF NoCycle, Live, Slots, ROOT_INDEX
<1>3. OneNormalTree
  BY InitFields DEF OneNormalTree, Live, IsRoot
<1>4. ASSUME NEW root \in AutoInitRoots
      PROVE  SlotOK(root, TRUE)
  <2> DEFINE r == RootContext("Normal", AutoInitLocality, DEFAULT)
  <2>1. SlotOK(r, TRUE) /\ r.state = "Active"
    BY DEF RootContext, Activated, SlotOK, CheckSupport
  <2>2. r \in Context
    BY RootContextType, InputsAssumption DEF ContextType, Handles
  <2> HIDE DEF r
  <2>3. ASSUME NEW m, NEW t, root = [Measured(r, m) EXCEPT !.tci_type = t]
        PROVE  SlotOK(root, TRUE)
    <3>1. /\ root.context_type = r.context_type /\ root.state = "Active"
          /\ root.parent_idx = r.parent_idx /\ root.allow_x509 = r.allow_x509
          /\ root.uses_internal_input_info = r.uses_internal_input_info
          /\ root.uses_internal_input_dice = r.uses_internal_input_dice
          /\ root.locality = r.locality /\ root.tci_locality = r.tci_locality
      BY <2>1, <2>2, <2>3 DEF Measured, Context
    <3>2. QED
      BY <2>1, <3>1 DEF SlotOK, CheckSupport
  <2>4. root = r \/ \E m, t : root = [Measured(r, m) EXCEPT !.tci_type = t]
    BY DEF AutoInitRoots, r
  <2>5. QED
    BY <2>1, <2>3, <2>4
<1>5. \A b \in BOOLEAN : SlotOK(NewContext, b)
  BY DEF NewContext, SlotOK, CheckSupport, ValidateInactiveContext
<1>6. ASSUME NEW i \in Slots
      PROVE  SlotOK(contexts[i], has_initialized)
  <2>1. \/ contexts[i] = NewContext
        \/ has_initialized = TRUE /\ contexts[i] \in AutoInitRoots
    BY DEF Init, StateNew
  <2>2. has_initialized \in BOOLEAN
    BY DEF Init
  <2>3. QED
    BY <1>4, <1>5, <2>1, <2>2
<1>7. QED
  BY <1>1, <1>2, <1>3, <1>6 DEF ForestInv, SlotsOK

(* Any array the validator accepted has it. *)
LEMMA RestoredForest ==
  ASSUME RestoredInit
  PROVE  ForestInv
BY AcceptedType, AcceptedForest
   DEF RestoredInit, ValidateDpe, RejectedOnlyForMixing

(* So both kinds of instance have it for ever. *)
LEMMA ForestCorrect == (Spec \/ RestoredSpec) => []ForestInv
<1>1. Init \/ RestoredInit => ForestInv
  BY InitForest, RestoredForest
<1>2. ForestInv /\ [Next]_vars => ForestInv'
  BY ForestInvStep
<1>3. QED
  BY <1>1, <1>2, PTL DEF Spec, RestoredSpec

-----------------------------------------------------------------------------
(***************************************************************************)
(* Theorems.                                                               *)
(***************************************************************************)

(***************************************************************************)
(* An instance that starts from an accepted array has, after any commands, *)
(* links that agree.                                                       *)
(***************************************************************************)
THEOREM RestoredLinksCorrect == RestoredSpec => []LinksAgree
<1>1. ForestInv => LinksAgree
  BY DEF ForestInv
<1>2. QED
  BY <1>1, ForestCorrect, PTL

(***************************************************************************)
(* It has no cycle of parents either.                                      *)
(***************************************************************************)
THEOREM RestoredNoCycleCorrect == RestoredSpec => []NoCycle
<1>1. ForestInv => NoCycle
  BY DEF ForestInv
<1>2. QED
  BY <1>1, ForestCorrect, PTL

(***************************************************************************)
(* Nor does it have a second Normal tree, or one of two types.             *)
(***************************************************************************)
THEOREM RestoredNormalTreeCorrect == RestoredSpec => []OneNormalTree
<1>1. ForestInv => OneNormalTree
  BY DEF ForestInv
<1>2. QED
  BY <1>1, ForestCorrect, PTL

(***************************************************************************)
(* Fresh or restored, an instance never reaches a state that the validator *)
(* refuses for anything but a default context beside another one.          *)
(***************************************************************************)
THEOREM OnlyMixingCorrect == (Spec \/ RestoredSpec) => []RejectedOnlyForMixing
<1>1. ForestInv => RejectedOnlyForMixing
  BY ForestIsAccepted
<1>2. QED
  BY <1>1, ForestCorrect, PTL

(***************************************************************************)
(* What validate_dpe_state checks of Normal contexts and                   *)
(* check_context_handles_per_locality of handles.                          *)
(***************************************************************************)
LEMMA AcceptedDefaults ==
  ASSUME TypeOK, ValidatorAccepts, "SIMULATION" \notin Support
  PROVE  NoneBeforeInitialized /\ DefaultIsAlone
<1>1. ASSUME NEW i \in ActiveSlots
      PROVE  has_initialized
  <2>1. i \in Slots /\ ValidateContext(contexts, has_initialized, i)
    BY <1>1 DEF ActiveSlots, ValidatorAccepts, ValidateDpe
  <2>2. contexts[i].context_type = "Normal"
    BY <2>1 DEF ValidateContext, CheckSupport, TypeOK, Context, ContextType
  <2>3. QED
    BY <1>1, <2>1, <2>2 DEF ValidateContext, ActiveSlots
<1>2. ASSUME NEW i \in ActiveSlots, NEW j \in ActiveSlots,
             contexts[i].locality = contexts[j].locality, contexts[i].handle = DEFAULT
      PROVE  i = j
  <2> DEFINE l == contexts[i].locality
  <2>1. i \in Slots /\ i \in DefaultIn(contexts, l) /\ j \in ActiveIn(contexts, l)
    BY <1>2 DEF ActiveSlots, DefaultIn, ActiveWith, ActiveIn
  <2>2. /\ \A a, b \in DefaultIn(contexts, l) : a = b
        /\ DefaultIn(contexts, l) = {} \/ ActiveIn(contexts, l) \subseteq DefaultIn(contexts, l)
    BY <2>1 DEF ValidatorAccepts, ValidateDpe, CheckContextHandlesPerLocality
  <2>3. QED
    BY <2>1, <2>2
<1>3. QED
  BY <1>1, <1>2 DEF NoneBeforeInitialized, DefaultIsAlone, ActiveSlots

(***************************************************************************)
(* From an accepted array on, default contexts stay alone in their         *)
(* locality, unless simulation contexts are supported.                     *)
(***************************************************************************)
THEOREM RestoredDefaultCorrect ==
  "SIMULATION" \notin Support => (RestoredSpec => []DefaultIsAlone)
<1> SUFFICES ASSUME "SIMULATION" \notin Support
             PROVE  RestoredSpec => []DefaultIsAlone
  OBVIOUS
<1>1. RestoredInit => TypeOK /\ NoneBeforeInitialized /\ DefaultIsAlone
  BY AcceptedType, AcceptedDefaults DEF RestoredInit, ValidatorAccepts
<1>2. TypeOK /\ NoneBeforeInitialized /\ DefaultIsAlone /\ [Next]_vars
        => (TypeOK /\ NoneBeforeInitialized /\ DefaultIsAlone)'
  BY TypeStep, NoneBeforeInitializedStep, DefaultIsAloneStep
<1>3. QED
  BY <1>1, <1>2, PTL DEF RestoredSpec

(***************************************************************************)
(* Default contexts that are alone pass check_context_handles_per_locality.*)
(***************************************************************************)
LEMMA AloneIsAccepted ==
  ASSUME RejectedOnlyForMixing, DefaultIsAlone
  PROVE  ValidatorAccepts
<1>1. ASSUME NEW l, NEW d \in DefaultIn(contexts, l), NEW i \in ActiveIn(contexts, l)
      PROVE  d = i
  <2>1. /\ d \in ActiveSlots /\ contexts[d].locality = l /\ contexts[d].handle = DEFAULT
        /\ i \in ActiveSlots /\ contexts[i].locality = l
    BY <1>1 DEF DefaultIn, ActiveWith, ActiveIn, ActiveSlots
  <2>2. QED
    BY <2>1 DEF DefaultIsAlone
<1>2. \A l : DefaultIn(contexts, l) \subseteq ActiveIn(contexts, l)
  BY DEF DefaultIn, ActiveWith
<1>3. CheckContextHandlesPerLocality(contexts)
  BY <1>1, <1>2 DEF CheckContextHandlesPerLocality
<1>4. QED
  BY <1>3 DEF RejectedOnlyForMixing, ValidatorAccepts, ValidateDpe

(***************************************************************************)
(* Without simulation contexts every state that commands produce, from a   *)
(* fresh instance or from an accepted array, is accepted: validate_dpe may *)
(* be called between any two commands.                                     *)
(***************************************************************************)
THEOREM ValidatorCorrect ==
  "SIMULATION" \notin Support => (Spec \/ RestoredSpec => []ValidatorAccepts)
<1> SUFFICES ASSUME "SIMULATION" \notin Support
             PROVE  Spec \/ RestoredSpec => []ValidatorAccepts
  OBVIOUS
<1>1. (Spec => []DefaultIsAlone) /\ (RestoredSpec => []DefaultIsAlone)
  BY DefaultCorrect, RestoredDefaultCorrect
<1>2. RejectedOnlyForMixing /\ DefaultIsAlone => ValidatorAccepts
  BY AloneIsAccepted
<1>3. QED
  BY <1>1, <1>2, OnlyMixingCorrect, PTL
=============================================================================
