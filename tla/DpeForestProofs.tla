--------------------------- MODULE DpeForestProofs ---------------------------
(***************************************************************************)
(* Theorems about the context forest, for every number of slots and every  *)
(* choice of the other constants: the links of the array, what becomes of  *)
(* retired contexts, and what a child inherits.  Each is proved by cases   *)
(* on the five ways a step changes the array (StepShape).  The last part   *)
(* is about what a context has from its derivation, its permissions, its   *)
(* type and its input type; it rests on the agreement of the links.        *)
(***************************************************************************)
EXTENDS DpeTypeProofs

(***************************************************************************)
(* Two contexts have the same place in the forest: what a live context     *)
(* keeps from its activation to its destruction.                           *)
(***************************************************************************)
SamePlace(c, d) ==
  /\ d.parent_idx = c.parent_idx /\ d.tci_type = c.tci_type
  /\ d.locality = c.locality /\ d.tci_locality = c.tci_locality
  /\ d.context_type = c.context_type
  /\ d.allow_x509 = c.allow_x509 /\ d.allow_export_cdi = c.allow_export_cdi
  /\ d.allow_recursive = c.allow_recursive
  /\ d.uses_internal_input_info = c.uses_internal_input_info
  /\ d.uses_internal_input_dice = c.uses_internal_input_dice

-----------------------------------------------------------------------------
(***************************************************************************)
(* The five changes, field by field.                                       *)
(***************************************************************************)
LEMMA RelabelledFields ==
  ASSUME TypeOK, Relabelled, NEW i \in Slots
  PROVE  /\ SamePlace(contexts[i], contexts'[i])
         /\ contexts'[i].state = contexts[i].state
         /\ contexts'[i].children = contexts[i].children
         /\ contexts[i].state # "Active" => contexts'[i] = contexts[i]
<1>1. contexts[i] \in Context
  BY DEF TypeOK
<1>2. /\ contexts'[i] = [contexts[i] EXCEPT
                           !.handle         = contexts'[i].handle,
                           !.tci_cumulative = contexts'[i].tci_cumulative]
      /\ contexts[i].state # "Active" => contexts'[i] = contexts[i]
  BY DEF Relabelled
<1>3. QED
  BY <1>1, <1>2 DEF Context, SamePlace

(* Field by field, the array after a root is activated in a free slot. *)
LEMMA RootAddedFields ==
  ASSUME TypeOK, RootAdded
  PROVE  \E i \in Slots :
           /\ contexts[i].state = "Inactive"
           /\ \A k \in Slots \ {i} : contexts'[k] = contexts[k]
           /\ contexts'[i].state = "Active"
           /\ contexts'[i].parent_idx = ROOT_INDEX
           /\ contexts'[i].children = {}
           /\ contexts'[i].context_type = "Normal" => ~has_initialized /\ has_initialized'
<1>1. PICK i \in Slots, type \in ContextType, l \in Localities, h \in Handles :
        /\ contexts[i].state = "Inactive"
        /\ contexts' = [contexts EXCEPT ![i] = RootContext(type, l, h)]
        /\ type = "Normal" => ~has_initialized /\ has_initialized'
  BY DEF RootAdded
<1>2. contexts'[i] = RootContext(type, l, h) /\ \A k \in Slots \ {i} : contexts'[k] = contexts[k]
  BY <1>1 DEF TypeOK
<1>3. QED
  BY <1>1, <1>2 DEF RootContext, Activated

(* Field by field, the array after a child is activated under a parent. *)
LEMMA ChildAddedFields ==
  ASSUME TypeOK, ChildAdded
  PROVE  \E p, c \in Slots :
           /\ p # c /\ contexts[p].state = "Active" /\ contexts[c].state = "Inactive"
           /\ \A k \in Slots \ {p, c} : contexts'[k] = contexts[k]
           /\ SamePlace(contexts[p], contexts'[p])
           /\ contexts'[p].state \in {"Active", "Retired"}
           /\ contexts'[p].state = "Retired" => contexts'[p].handle = INVALID
           /\ contexts'[p].children = contexts[p].children \cup {c}
           /\ contexts'[c].state = "Active"
           /\ contexts'[c].parent_idx = p
           /\ contexts'[c].children = {}
           /\ contexts'[c].context_type = contexts[p].context_type
           /\ contexts'[c].allow_x509 => contexts[p].allow_x509
           /\ contexts'[c].allow_export_cdi => contexts[p].allow_export_cdi
           /\ contexts'[c].allow_recursive => contexts[p].allow_recursive
           /\ \A k \in contexts[p].children : contexts'[c].tci_type # contexts[k].tci_type
<1>1. PICK p, c \in Slots, flags \in DeriveFlagSets, t \in TciTypes, l \in Localities :
        \E ph, ch \in Handles, m \in Measurements :
          /\ contexts[p].state = "Active" /\ contexts[c].state = "Inactive"
          /\ DerivePermitted(contexts[p], flags)
          /\ TciTypeIsUniqueAmongChildren(contexts[p], t)
          /\ "RETAIN_PARENT_CONTEXT" \notin flags => ph = INVALID
          /\ contexts' = WithChild(p, c, TmpParent(contexts[p], flags, ph),
                                   Measured(ChildContext(p, flags, t, l, ch), m))
  BY DEF ChildAdded
<1>2. PICK ph, ch \in Handles, m \in Measurements :
          /\ contexts[p].state = "Active" /\ contexts[c].state = "Inactive"
          /\ DerivePermitted(contexts[p], flags)
          /\ TciTypeIsUniqueAmongChildren(contexts[p], t)
          /\ "RETAIN_PARENT_CONTEXT" \notin flags => ph = INVALID
          /\ contexts' = WithChild(p, c, TmpParent(contexts[p], flags, ph),
                                   Measured(ChildContext(p, flags, t, l, ch), m))
  BY <1>1
<1>3. p # c
  BY <1>2
<1>4. /\ contexts'[c] = Measured(ChildContext(p, flags, t, l, ch), m)
      /\ contexts'[p] = [TmpParent(contexts[p], flags, ph) EXCEPT !.children = @ \cup {c}]
      /\ \A k \in Slots \ {p, c} : contexts'[k] = contexts[k]
  BY <1>2, <1>3 DEF WithChild, TypeOK
<1>5. contexts[p] \in Context
  BY DEF TypeOK
<1>6. /\ SamePlace(contexts[p], contexts'[p])
      /\ contexts'[p].state \in {"Active", "Retired"}
      /\ contexts'[p].state = "Retired" => contexts'[p].handle = INVALID
      /\ contexts'[p].children = contexts[p].children \cup {c}
  <2>1. CASE "RETAIN_PARENT_CONTEXT" \in flags
    <3>1. contexts'[p] = [contexts[p] EXCEPT !.handle = ph, !.children = @ \cup {c}]
      BY <1>4, <1>5, <2>1 DEF TmpParent, Context
    <3>2. QED
      BY <1>2, <1>5, <3>1 DEF Context, SamePlace
  <2>2. CASE "RETAIN_PARENT_CONTEXT" \notin flags
    <3>1. contexts'[p] = [contexts[p] EXCEPT !.handle = INVALID, !.state = "Retired",
                                             !.children = @ \cup {c}]
      BY <1>2, <1>4, <1>5, <2>2 DEF TmpParent, Context
    <3>2. QED
      BY <1>5, <3>1 DEF Context, SamePlace
  <2>3. QED
    BY <2>1, <2>2
<1>7. /\ contexts'[c].state = "Active"
      /\ contexts'[c].parent_idx = p
      /\ contexts'[c].children = {}
      /\ contexts'[c].context_type = contexts[p].context_type
      /\ contexts'[c].tci_type = t
      /\ contexts'[c].allow_x509 = ("INPUT_ALLOW_X509" \in flags)
      /\ contexts'[c].allow_export_cdi => contexts[p].allow_export_cdi
      /\ contexts'[c].allow_recursive => contexts[p].allow_recursive
  BY <1>4 DEF Measured, ChildContext, Activated
<1>8. contexts'[c].allow_x509 => contexts[p].allow_x509
  BY <1>2, <1>7 DEF DerivePermitted
<1>9. \A k \in contexts[p].children : contexts'[c].tci_type # contexts[k].tci_type
  BY <1>2, <1>7 DEF TciTypeIsUniqueAmongChildren
<1>10. QED
  BY <1>2, <1>3, <1>4, <1>6, <1>7, <1>8, <1>9

(* Field by field, the array after an export destroys the parent it used. *)
LEMMA ParentReleasedFields ==
  ASSUME TypeOK, ParentReleased
  PROVE  \E p \in Slots :
           /\ contexts[p].state = "Active"
           /\ \A k \in Slots \ {p} : contexts'[k] = contexts[k]
           /\ SamePlace(contexts[p], contexts'[p])
           /\ contexts'[p].state \in {"Active", "Retired"}
           /\ contexts'[p].state = "Retired" =>
                contexts'[p].handle = INVALID /\ contexts[p].children # {}
           /\ contexts'[p].children = contexts[p].children
<1>1. PICK p \in Slots, flags \in DeriveFlagSets, ph \in Handles :
        /\ contexts[p].state = "Active"
        /\ "RETAIN_PARENT_CONTEXT" \notin flags => ph = INVALID /\ contexts[p].children # {}
        /\ contexts' = [contexts EXCEPT ![p] = TmpParent(@, flags, ph)]
  BY DEF ParentReleased
<1>2. /\ contexts[p] \in Context
      /\ contexts'[p] = TmpParent(contexts[p], flags, ph)
      /\ \A k \in Slots \ {p} : contexts'[k] = contexts[k]
  BY <1>1 DEF TypeOK
<1>3. QED
  BY <1>1, <1>2 DEF TmpParent, Context, SamePlace

(***************************************************************************)
(* What destroy_context of slot i does to the slots it clears and to those *)
(* it does not.                                                            *)
(***************************************************************************)
LEMMA DestroyFields ==
  ASSUME TypeOK, NEW i \in Slots, contexts' = DestroyContext(contexts, i), NEW k \in Slots
  PROVE  /\ k \in ToDestroy(contexts, i) =>
              /\ contexts'[k].state = "Inactive" /\ contexts'[k].children = {}
              /\ contexts'[k].parent_idx = ROOT_INDEX
              /\ contexts'[k].tci_cumulative = << >> /\ contexts'[k].tci_type = 0
              /\ ~contexts'[k].allow_x509 /\ ~contexts'[k].allow_recursive
              /\ ~contexts'[k].uses_internal_input_info
              /\ ~contexts'[k].uses_internal_input_dice
         /\ k \notin ToDestroy(contexts, i) =>
              /\ SamePlace(contexts[k], contexts'[k])
              /\ contexts'[k].state = contexts[k].state
              /\ contexts'[k].handle = contexts[k].handle
              /\ contexts'[k].tci_cumulative = contexts[k].tci_cumulative
              /\ contexts'[k].children = contexts[k].children \ ToDestroy(contexts, i)
<1>1. contexts[k] \in Context
  BY DEF TypeOK
<1>2. contexts'[k] = IF k \in ToDestroy(contexts, i) THEN Destroyed(contexts[k])
                     ELSE [contexts[k] EXCEPT !.children = @ \ ToDestroy(contexts, i)]
  BY DEF DestroyContext
<1>3. CASE k \in ToDestroy(contexts, i)
  BY <1>1, <1>2, <1>3 DEF Destroyed, Context
<1>4. CASE k \notin ToDestroy(contexts, i)
  BY <1>1, <1>2, <1>4 DEF Context, SamePlace
<1>5. QED
  BY <1>3, <1>4

-----------------------------------------------------------------------------
(***************************************************************************)
(* What destroy_context takes along.                                       *)
(***************************************************************************)

(***************************************************************************)
(* The children of the destroyed context and of its descendants are        *)
(* descendants.                                                            *)
(***************************************************************************)
LEMMA DescendantsAreClosed ==
  ASSUME NEW cs \in [Slots -> Context], NEW i \in Slots
  PROVE  /\ Descendants(cs, i) \subseteq Slots
         /\ \A j \in Descendants(cs, i) \cup {i} : cs[j].children \subseteq Descendants(cs, i)
<1> DEFINE next == [j \in Slots |-> cs[j].children]
<1>1. cs[i].children \in SUBSET Slots /\ next \in [Slots -> SUBSET Slots]
  BY DEF Context
<1>2. /\ Reachable(cs[i].children, next) \subseteq Slots
      /\ cs[i].children \subseteq Reachable(cs[i].children, next)
      /\ \A j \in Reachable(cs[i].children, next) : next[j] \subseteq Reachable(cs[i].children, next)
  <2> HIDE DEF next
  <2> QED
    BY <1>1, ReachableIsClosed
<1>3. QED
  BY <1>2 DEF Descendants

(***************************************************************************)
(* Where parents and children agree, the parent of a descendant is a       *)
(* descendant or the destroyed context itself.                             *)
(***************************************************************************)
LEMMA DescendantsAreChildren ==
  ASSUME NEW cs \in [Slots -> Context], NEW i \in Slots, cs[i].state # "Inactive",
         \A k \in Live(cs) : \A j \in cs[k].children :
            j \in Live(cs) /\ cs[j].parent_idx = k
  PROVE  \A j \in Descendants(cs, i) :
            j \in Live(cs) /\ cs[j].parent_idx \in Descendants(cs, i) \cup {i}
<1> DEFINE D == {j \in Descendants(cs, i) :
                   j \in Live(cs) /\ cs[j].parent_idx \in Descendants(cs, i) \cup {i}}
<1>1. /\ Descendants(cs, i) \subseteq Slots
      /\ \A j \in Descendants(cs, i) \cup {i} : cs[j].children \subseteq Descendants(cs, i)
  BY DescendantsAreClosed
<1>2. D \in SUBSET Slots
  BY <1>1
<1>3. cs[i].children \subseteq D
  BY <1>1 DEF Live
<1>4. \A j \in D : cs[j].children \subseteq D
  BY <1>1
<1>5. Reachable(cs[i].children, [j \in Slots |-> cs[j].children]) \subseteq D
  <2>1. \A j \in D : [k \in Slots |-> cs[k].children][j] \subseteq D
    BY <1>2, <1>4
  <2> HIDE DEF D
  <2>2. QED
    BY <1>2, <1>3, <2>1, ReachableIsLeast
<1>6. QED
  BY <1>5 DEF Descendants

(***************************************************************************)
(* A context that goes with its child is retired, the parent of that       *)
(* child, and has no other.                                                *)
(***************************************************************************)
LEMMA LoneRetiredParentIs ==
  ASSUME NEW cs \in [Slots -> Context], NEW k \in Slots, NEW j \in LoneRetiredParent(cs, k)
  PROVE  /\ j \in Slots /\ cs[j].state = "Retired" /\ cs[k].parent_idx = j
         /\ \E x \in Slots : cs[j].children = {x}
<1>1. cs[k] \in Context
  OBVIOUS
<1>2. QED
  BY <1>1 DEF LoneRetiredParent, ParentOf, Context

(***************************************************************************)
(* The upward loop of destroy_context collects the lone retired parents,   *)
(* from the destroyed context on, and each of them because of its child.   *)
(***************************************************************************)
LEMMA RetiredAncestorsAreClosed ==
  ASSUME NEW cs \in [Slots -> Context], NEW i \in Slots
  PROVE  /\ RetiredAncestors(cs, i) \subseteq Slots
         /\ \A j \in RetiredAncestors(cs, i) \cup {i} :
              LoneRetiredParent(cs, j) \subseteq RetiredAncestors(cs, i)
         /\ \A j \in RetiredAncestors(cs, i) :
              \E k \in RetiredAncestors(cs, i) \cup {i} : j \in LoneRetiredParent(cs, k)
<1> DEFINE next  == [j \in Slots |-> LoneRetiredParent(cs, j)]
           start == LoneRetiredParent(cs, i)
           R     == Reachable(start, next)
           D     == {j \in R : \E k \in R \cup {i} : j \in LoneRetiredParent(cs, k)}
<1>1. start \in SUBSET Slots /\ next \in [Slots -> SUBSET Slots]
  BY LoneRetiredParentIs
<1>2. R \subseteq Slots /\ start \subseteq R /\ \A j \in R : next[j] \subseteq R
  <2> HIDE DEF next, start
  <2> QED
    BY <1>1, ReachableIsClosed
<1>3. \A j \in R : LoneRetiredParent(cs, j) \subseteq R
  BY <1>2
<1>4. D \in SUBSET Slots /\ start \subseteq D /\ \A j \in D : next[j] \subseteq D
  <2> HIDE DEF R
  <2> QED
    BY <1>2, <1>3
<1>5. R \subseteq D
  <2> HIDE DEF next, start, D
  <2> QED
    BY <1>4, ReachableIsLeast
<1>6. R = RetiredAncestors(cs, i)
  BY DEF RetiredAncestors
<1>7. \A j \in R : \E k \in R \cup {i} : j \in LoneRetiredParent(cs, k)
  BY <1>5
<1> HIDE DEF R
<1>8. QED
  BY <1>2, <1>3, <1>6, <1>7

-----------------------------------------------------------------------------
(***************************************************************************)
(* Links.                                                                  *)
(***************************************************************************)

(***************************************************************************)
(* No live context outside the destroyed ones has a destroyed parent: its  *)
(* parent would be a descendant, the destroyed context, or a retired       *)
(* ancestor, whose only child is destroyed.                                *)
(***************************************************************************)
LEMMA SurvivorsKeepParents ==
  ASSUME TypeOK, LinksAgree, NEW i \in Slots, contexts[i].state = "Active",
         NEW k \in Live(contexts), k \notin ToDestroy(contexts, i), ~IsRoot(contexts, k)
  PROVE  contexts[k].parent_idx \in Live(contexts) \ ToDestroy(contexts, i)
<1> DEFINE j == contexts[k].parent_idx
<1>1. j \in Live(contexts) /\ k \in contexts[j].children
  BY DEF LinksAgree, Parent
<1>2. contexts \in [Slots -> Context]
  BY DEF TypeOK
<1>3. j \notin Descendants(contexts, i) \cup {i}
  BY <1>1, <1>2, DescendantsAreClosed DEF ToDestroy
<1>4. ASSUME j \in RetiredAncestors(contexts, i)
      PROVE  FALSE
  <2>1. PICK c \in RetiredAncestors(contexts, i) \cup {i} : j \in LoneRetiredParent(contexts, c)
    BY <1>2, <1>4, RetiredAncestorsAreClosed
  <2>2. c \in Slots
    BY <1>2, <2>1, RetiredAncestorsAreClosed
  <2>3. contexts[c].state # "Inactive"
    BY <1>2, <2>1, RetiredAncestorsAreClosed, LoneRetiredParentIs
  <2>4. contexts[c].parent_idx = j /\ \E x \in Slots : contexts[j].children = {x}
    BY <1>2, <2>1, <2>2, LoneRetiredParentIs
  <2>5. c \in contexts[j].children
    <3>1. ~IsRoot(contexts, c)
      BY <2>4 DEF IsRoot
    <3>2. QED
      BY <2>2, <2>3, <2>4, <3>1 DEF LinksAgree, Live, Parent
  <2>6. c = k
    BY <1>1, <2>4, <2>5
  <2>7. QED
    BY <2>1, <2>6 DEF ToDestroy
<1>5. QED
  BY <1>1, <1>3, <1>4 DEF ToDestroy

(***************************************************************************)
(* Every step keeps the two ends of every link in agreement.               *)
(***************************************************************************)
LEMMA LinksStep ==
  ASSUME TypeOK, LinksAgree, [Next]_vars
  PROVE  LinksAgree'
<1> USE DEF Live, IsRoot, Parent
<1>1. CASE Relabelled
  <2>1. \A i \in Slots : /\ contexts'[i].parent_idx = contexts[i].parent_idx
                        /\ contexts'[i].state = contexts[i].state
                        /\ contexts'[i].children = contexts[i].children
    BY <1>1, RelabelledFields DEF SamePlace
  <2>2. QED
    BY <2>1 DEF LinksAgree
<1>2. CASE RootAdded
  <2>1. PICK i \in Slots :
           /\ contexts[i].state = "Inactive"
           /\ \A k \in Slots \ {i} : contexts'[k] = contexts[k]
           /\ contexts'[i].state = "Active"
           /\ contexts'[i].parent_idx = ROOT_INDEX
           /\ contexts'[i].children = {}
    BY <1>2, RootAddedFields
  <2>2. QED
    BY <2>1 DEF LinksAgree
<1>3. CASE ChildAdded
  <2>1. PICK p, c \in Slots :
           /\ p # c /\ contexts[p].state = "Active" /\ contexts[c].state = "Inactive"
           /\ \A k \in Slots \ {p, c} : contexts'[k] = contexts[k]
           /\ contexts'[p].parent_idx = contexts[p].parent_idx
           /\ contexts'[p].state \in {"Active", "Retired"}
           /\ contexts'[p].children = contexts[p].children \cup {c}
           /\ contexts'[c].state = "Active"
           /\ contexts'[c].parent_idx = p
           /\ contexts'[c].children = {}
    BY <1>3, ChildAddedFields DEF SamePlace
  <2>2. \A k \in Live(contexts) :
           /\ k # c
           /\ contexts'[k].state # "Inactive"
           /\ contexts'[k].parent_idx = contexts[k].parent_idx
           /\ contexts[k].children \subseteq contexts'[k].children
    BY <2>1
  <2>3. \A k \in Live(contexts)' : k = c \/ k \in Live(contexts)
    BY <2>1
  <2>4. ASSUME NEW k \in Live(contexts)', contexts'[k].parent_idx # ROOT_INDEX
        PROVE  contexts'[k].parent_idx \in Live(contexts)' /\ k \in Parent(k)'.children
    BY <2>1, <2>2, <2>3, <2>4 DEF LinksAgree
  <2>5. ASSUME NEW k \in Live(contexts)', NEW j \in contexts'[k].children
        PROVE  j \in Live(contexts)' /\ contexts'[j].parent_idx = k
    <3>1. CASE k # c /\ j # c
      <4>1. k \in Live(contexts) /\ j \in contexts[k].children
        BY <2>1, <2>3, <2>5, <3>1
      <4>2. QED
        BY <2>2, <4>1 DEF LinksAgree
    <3>2. CASE k # c /\ j = c
      <4>1. k \in Live(contexts)
        BY <2>3, <3>2
      <4>2. c \notin contexts[k].children
        BY <2>1, <4>1 DEF LinksAgree
      <4>3. QED
        BY <2>1, <2>5, <3>2, <4>2
    <3>3. CASE k = c
      BY <2>1, <2>5, <3>3
    <3>4. QED
      BY <3>1, <3>2, <3>3
  <2>6. QED
    BY <2>4, <2>5 DEF LinksAgree
<1>4. CASE SubtreeDestroyed
  <2>1. PICK i \in Slots : contexts[i].state = "Active" /\ contexts' = DestroyContext(contexts, i)
    BY <1>4 DEF SubtreeDestroyed
  <2> DEFINE T == ToDestroy(contexts, i)
  <2>2. \A k \in Slots :
          /\ k \in T => contexts'[k].state = "Inactive"
          /\ k \notin T => /\ contexts'[k].state = contexts[k].state
                          /\ contexts'[k].parent_idx = contexts[k].parent_idx
                          /\ contexts'[k].children = contexts[k].children \ T
    BY <2>1, DestroyFields DEF SamePlace
  <2>3. \A k \in Slots : k \in Live(contexts)' <=> k \in Live(contexts) \ T
    BY <2>2
  <2>4. ASSUME NEW k \in Live(contexts)', contexts'[k].parent_idx # ROOT_INDEX
        PROVE  contexts'[k].parent_idx \in Live(contexts)' /\ k \in Parent(k)'.children
    <3>1. k \in Live(contexts) \ T /\ contexts[k].parent_idx = contexts'[k].parent_idx
      BY <2>2, <2>3
    <3>2. contexts[k].parent_idx \in Live(contexts) \ T
      BY <2>1, <2>4, <3>1, SurvivorsKeepParents
    <3>3. k \in contexts[contexts[k].parent_idx].children
      BY <2>4, <3>1 DEF LinksAgree
    <3>4. QED
      BY <2>2, <2>3, <3>1, <3>2, <3>3
  <2>5. ASSUME NEW k \in Live(contexts)', NEW j \in contexts'[k].children
        PROVE  j \in Live(contexts)' /\ contexts'[j].parent_idx = k
    <3>1. k \in Live(contexts) /\ j \in contexts[k].children \ T
      BY <2>2, <2>3, <2>5
    <3>2. j \in Live(contexts) /\ contexts[j].parent_idx = k
      BY <3>1 DEF LinksAgree
    <3>3. QED
      BY <2>2, <2>3, <3>1, <3>2
  <2>6. QED
    BY <2>4, <2>5 DEF LinksAgree
<1>5. CASE ParentReleased
  <2>1. PICK p \in Slots :
           /\ contexts[p].state = "Active"
           /\ \A k \in Slots \ {p} : contexts'[k] = contexts[k]
           /\ contexts'[p].parent_idx = contexts[p].parent_idx
           /\ contexts'[p].state \in {"Active", "Retired"}
           /\ contexts'[p].children = contexts[p].children
    BY <1>5, ParentReleasedFields DEF SamePlace
  <2>2. \A k \in Slots : /\ k \in Live(contexts)' <=> k \in Live(contexts)
                        /\ contexts'[k].parent_idx = contexts[k].parent_idx
                        /\ contexts'[k].children = contexts[k].children
    BY <2>1
  <2>3. QED
    BY <2>2 DEF LinksAgree
<1>6. QED
  BY <1>1, <1>2, <1>3, <1>4, <1>5, StepShape DEF Shape

(***************************************************************************)
(* At start-up every slot but the auto-initialised one is as               *)
(* Context::new left it, and that one is a root without children.          *)
(***************************************************************************)
LEMMA InitFields ==
  ASSUME Init, NEW i \in Slots
  PROVE  /\ contexts[i].parent_idx = ROOT_INDEX /\ contexts[i].children = {}
         /\ contexts[i].state # "Retired"
         /\ contexts[i].state # "Inactive" => i = 0 /\ has_initialized
         /\ contexts[i].state = "Inactive" => contexts[i] = NewContext
<1>1. ASSUME NEW root \in AutoInitRoots
      PROVE  /\ root.parent_idx = ROOT_INDEX /\ root.children = {} /\ root.state = "Active"
  <2> DEFINE r == RootContext("Normal", AutoInitLocality, DEFAULT)
  <2>1. r.parent_idx = ROOT_INDEX /\ r.children = {} /\ r.state = "Active"
    BY DEF RootContext, Activated
  <2>2. r \in Context
    BY RootContextType, InputsAssumption DEF ContextType, Handles
  <2> HIDE DEF r
  <2>3. ASSUME NEW m, NEW t, root = [Measured(r, m) EXCEPT !.tci_type = t]
        PROVE  root.parent_idx = r.parent_idx /\ root.children = r.children /\ root.state = r.state
    BY <2>2, <2>3 DEF Measured, Context
  <2>4. root = r \/ \E m, t : root = [Measured(r, m) EXCEPT !.tci_type = t]
    BY DEF AutoInitRoots, r
  <2>5. QED
    BY <2>1, <2>3, <2>4
<1>2. \/ contexts[i] = NewContext
      \/ i = 0 /\ has_initialized /\ contexts[i] \in AutoInitRoots
  BY DEF Init, StateNew
<1>3. QED
  BY <1>1, <1>2 DEF NewContext

(***************************************************************************)
(* parent_idx and the children bitmaps agree in every reachable state.     *)
(* Every DestroyContext, DeriveContext and export writes several slots to  *)
(* keep it so.                                                             *)
(***************************************************************************)
THEOREM LinksCorrect == Spec => []LinksAgree
<1>1. Init => LinksAgree
  BY InitFields DEF LinksAgree, Live, IsRoot
<1>2. TypeOK /\ LinksAgree /\ [Next]_vars => LinksAgree'
  BY LinksStep
<1>3. QED
  BY TypeCorrect, <1>1, <1>2, PTL DEF Spec

-----------------------------------------------------------------------------
(***************************************************************************)
(* Cycles.                                                                 *)
(***************************************************************************)
LEMMA NoCycleStep ==
  ASSUME TypeOK, LinksAgree, NoCycle, [Next]_vars
  PROVE  NoCycle'
<1> USE DEF Live
<1>1. ROOT_INDEX \notin Slots
  BY SlotsAssumption DEF Slots, ROOT_INDEX
<1>2. ASSUME \A k \in Slots : contexts'[k].state # "Inactive" =>
               /\ contexts[k].state # "Inactive"
               /\ contexts'[k].parent_idx = contexts[k].parent_idx
      PROVE  NoCycle'
  BY <1>2 DEF NoCycle
<1>3. CASE Relabelled
  BY <1>2, <1>3, RelabelledFields DEF SamePlace
<1>4. CASE RootAdded
  <2>1. PICK i \in Slots :
           /\ contexts[i].state = "Inactive"
           /\ \A k \in Slots \ {i} : contexts'[k] = contexts[k]
           /\ contexts'[i].parent_idx = ROOT_INDEX
    BY <1>4, RootAddedFields
  <2>2. ASSUME NEW D \in SUBSET Live(contexts)', D # {}
        PROVE  \E k \in D : contexts'[k].parent_idx \notin D
    <3>1. CASE i \in D
      BY <1>1, <2>1, <3>1
    <3>2. CASE i \notin D
      <4>1. D \in SUBSET Live(contexts)
        BY <2>1, <3>2
      <4>2. PICK k \in D : contexts[k].parent_idx \notin D
        BY <2>2, <4>1 DEF NoCycle
      <4>3. QED
        BY <2>1, <3>2, <4>2
    <3>3. QED
      BY <3>1, <3>2
  <2>3. QED
    BY <2>2 DEF NoCycle
<1>5. CASE ChildAdded
  <2>1. PICK p, c \in Slots :
           /\ p # c /\ contexts[c].state = "Inactive"
           /\ \A k \in Slots \ {p, c} : contexts'[k] = contexts[k]
           /\ contexts[p].state = "Active"
           /\ contexts'[p].parent_idx = contexts[p].parent_idx
           /\ contexts'[c].parent_idx = p
    BY <1>5, ChildAddedFields DEF SamePlace
  <2>2. ASSUME NEW D \in SUBSET Live(contexts)', D # {}
        PROVE  \E k \in D : contexts'[k].parent_idx \notin D
    <3>1. D \ {c} \in SUBSET Live(contexts)
      BY <2>1
    <3>2. CASE D = {c}
      BY <2>1, <3>2
    <3>3. CASE D # {c}
      <4>1. PICK k \in D \ {c} : contexts[k].parent_idx \notin D \ {c}
        <5> DEFINE E == D \ {c}
        <5>1. E \in SUBSET Live(contexts) /\ E # {}
          BY <2>2, <3>1, <3>3
        <5>2. \E k \in E : contexts[k].parent_idx \notin E
          <6> HIDE DEF E
          <6> QED
            BY <5>1 DEF NoCycle
        <5>3. QED
          BY <5>2
      <4>2. contexts[k].parent_idx # c
        <5>1. k \in Live(contexts)
          BY <3>1, <4>1
        <5>2. contexts[k].parent_idx # ROOT_INDEX =>
                 contexts[contexts[k].parent_idx].state # "Inactive"
          BY <5>1 DEF LinksAgree, IsRoot
        <5>3. QED
          BY <1>1, <2>1, <5>2
      <4>3. contexts'[k].parent_idx = contexts[k].parent_idx
        BY <2>1, <3>1, <4>1
      <4>4. QED
        BY <4>1, <4>2, <4>3
    <3>4. QED
      BY <3>2, <3>3
  <2>3. QED
    BY <2>2 DEF NoCycle
<1>6. CASE SubtreeDestroyed
  BY <1>2, <1>6, DestroyFields DEF SubtreeDestroyed, SamePlace
<1>7. CASE ParentReleased
  <2>1. PICK p \in Slots :
           /\ contexts[p].state = "Active"
           /\ \A k \in Slots \ {p} : contexts'[k] = contexts[k]
           /\ contexts'[p].parent_idx = contexts[p].parent_idx
    BY <1>7, ParentReleasedFields DEF SamePlace
  <2>2. QED
    BY <1>2, <2>1
<1>8. QED
  BY <1>3, <1>4, <1>5, <1>6, <1>7, StepShape DEF Shape

(***************************************************************************)
(* No reachable state has a cycle of parents, so the loops of              *)
(* RootToChildIter and get_descendants end.                                *)
(***************************************************************************)
THEOREM NoCycleCorrect == Spec => []NoCycle
<1>1. ROOT_INDEX \notin Slots
  BY SlotsAssumption DEF Slots, ROOT_INDEX
<1>2. Init => NoCycle
  BY <1>1, InitFields DEF NoCycle, Live
<1>3. TypeOK /\ LinksAgree /\ NoCycle /\ [Next]_vars => NoCycle'
  BY NoCycleStep
<1>4. QED
  BY TypeCorrect, LinksCorrect, <1>2, <1>3, PTL DEF Spec

-----------------------------------------------------------------------------
(***************************************************************************)
(* Free slots.                                                             *)
(***************************************************************************)
LEMMA BlankStep ==
  ASSUME TypeOK, InactiveIsBlank, [Next]_vars
  PROVE  InactiveIsBlank'
<1> DEFINE Blank(c) ==
             /\ c.parent_idx = ROOT_INDEX /\ c.children = {}
             /\ c.tci_cumulative = << >> /\ c.tci_type = 0
             /\ ~c.allow_x509 /\ ~c.allow_recursive
             /\ ~c.uses_internal_input_info /\ ~c.uses_internal_input_dice
<1>1. \A k \in Slots : contexts[k].state = "Inactive" => Blank(contexts[k])
  BY DEF InactiveIsBlank, Live, IsRoot
<1>2. SUFFICES ASSUME NEW k \in Slots, contexts'[k].state = "Inactive"
               PROVE  Blank(contexts'[k])
  BY DEF InactiveIsBlank, Live, IsRoot
<1> HIDE DEF Blank
<1>3. CASE contexts'[k] = contexts[k]
  BY <1>1, <1>2, <1>3
<1>4. CASE Relabelled
  <2>1. contexts'[k] = contexts[k]
    BY <1>2, <1>4, RelabelledFields
  <2>2. QED
    BY <1>3, <2>1
<1>5. CASE RootAdded \/ ChildAdded \/ ParentReleased
  <2>1. contexts'[k] = contexts[k]
    BY <1>2, <1>5, RootAddedFields, ChildAddedFields, ParentReleasedFields
  <2>2. QED
    BY <1>3, <2>1
<1>6. CASE SubtreeDestroyed
  <2>1. PICK i \in Slots : contexts' = DestroyContext(contexts, i)
    BY <1>6 DEF SubtreeDestroyed
  <2>2. CASE k \in ToDestroy(contexts, i)
    BY <2>1, <2>2, DestroyFields DEF Blank
  <2>3. CASE k \notin ToDestroy(contexts, i)
    <3>1. /\ SamePlace(contexts[k], contexts'[k])
          /\ contexts[k].state = "Inactive"
          /\ contexts'[k].tci_cumulative = contexts[k].tci_cumulative
          /\ contexts'[k].children \subseteq contexts[k].children
      BY <1>2, <2>1, <2>3, DestroyFields
    <3>2. QED
      BY <1>1, <3>1 DEF Blank, SamePlace
  <2>4. QED
    BY <2>2, <2>3
<1>7. QED
  BY <1>4, <1>5, <1>6, StepShape DEF Shape

(***************************************************************************)
(* A slot that is not in use is blank in every reachable state, whether it *)
(* was never used or Context::destroy cleared it.                          *)
(***************************************************************************)
THEOREM BlankCorrect == Spec => []InactiveIsBlank
<1>1. Init => InactiveIsBlank
  <2>1. ASSUME Init, NEW i \in Slots \ Live(contexts)
        PROVE  contexts[i] = NewContext
    BY <2>1, InitFields DEF Live
  <2>2. QED
    BY <2>1 DEF InactiveIsBlank, IsRoot, NewContext
<1>2. TypeOK /\ InactiveIsBlank /\ [Next]_vars => InactiveIsBlank'
  BY BlankStep
<1>3. QED
  BY TypeCorrect, <1>1, <1>2, PTL DEF Spec

-----------------------------------------------------------------------------
(***************************************************************************)
(* Retired contexts.                                                       *)
(***************************************************************************)

(***************************************************************************)
(* Reachability one link at a time, and from a slot without links.         *)
(***************************************************************************)
LEMMA ReachableUnfolds ==
  ASSUME NEW next \in [Slots -> SUBSET Slots], NEW j \in Slots
  PROVE  Reachable({j}, next) \subseteq {j} \cup Reachable(next[j], next)
<1> DEFINE D == {j} \cup Reachable(next[j], next)
<1>1. /\ Reachable(next[j], next) \subseteq Slots /\ next[j] \subseteq Reachable(next[j], next)
      /\ \A k \in Reachable(next[j], next) : next[k] \subseteq Reachable(next[j], next)
  BY ReachableIsClosed
<1>2. D \in SUBSET Slots /\ {j} \subseteq D /\ \A k \in D : next[k] \subseteq D
  BY <1>1
<1> HIDE DEF D
<1>3. Reachable({j}, next) \subseteq D
  BY <1>2, ReachableIsLeast
<1>4. QED
  BY <1>3 DEF D

(* A node without links reaches only itself. *)
LEMMA ReachableFromNothing ==
  ASSUME NEW next
  PROVE  Reachable({}, next) = {}
BY ReachableIsLeast

(***************************************************************************)
(* The upward loop follows one path: two collected contexts whose parents  *)
(* are not collected are the same context, the last of the path.           *)
(***************************************************************************)
LEMMA LastRetiredAncestor ==
  ASSUME NEW cs \in [Slots -> Context], NEW i \in Slots,
         NEW x \in RetiredAncestors(cs, i), NEW y \in RetiredAncestors(cs, i),
         LoneRetiredParent(cs, x) = {}, LoneRetiredParent(cs, y) = {}
  PROVE  x = y
<1> DEFINE next  == [j \in Slots |-> LoneRetiredParent(cs, j)]
           R     == RetiredAncestors(cs, i)
           Up(j) == Reachable({j}, next)
           D     == {j \in R : j = x \/ x \in Up(j)}
<1>1. next \in [Slots -> SUBSET Slots]
  BY LoneRetiredParentIs
<1>2. R \subseteq Slots /\ \A j \in R : LoneRetiredParent(cs, j) \subseteq R
  BY RetiredAncestorsAreClosed
<1>3. \A j \in Slots : \A k, n \in LoneRetiredParent(cs, j) : k = n
  BY LoneRetiredParentIs
<1>4. ASSUME NEW S \in SUBSET Slots, NEW k \in Slots, S = {} \/ S = {k}, x \in Reachable(S, next)
      PROVE  S = {k} /\ x \in Up(k)
  BY <1>4, ReachableFromNothing
<1>5. ASSUME NEW j \in Slots
      PROVE  \E k \in Slots : LoneRetiredParent(cs, j) \in {{}, {k}}
  <2>1. LoneRetiredParent(cs, j) \subseteq Slots
    BY LoneRetiredParentIs
  <2>2. QED
    BY <1>3, <2>1
<1>6. LoneRetiredParent(cs, i) \subseteq D
  <2>1. x \in Reachable(LoneRetiredParent(cs, i), next)
    BY DEF RetiredAncestors
  <2>2. PICK k \in Slots : LoneRetiredParent(cs, i) \in {{}, {k}}
    BY <1>5
  <2>3. LoneRetiredParent(cs, i) = {k} /\ x \in Up(k)
    <3> HIDE DEF next, Up
    <3> QED
      BY <1>4, <2>1, <2>2
  <2>4. k \in R
    BY <2>3, RetiredAncestorsAreClosed
  <2>5. QED
    BY <2>3, <2>4
<1>7. ASSUME NEW j \in D
      PROVE  LoneRetiredParent(cs, j) \subseteq D
  <2>1. CASE j = x
    BY <2>1
  <2>2. CASE j # x
    <3>1. x \in Up(j) /\ j \in R /\ j \in Slots
      BY <1>2, <2>2
    <3>2. x \in Reachable(LoneRetiredParent(cs, j), next)
      <4>1. next[j] = LoneRetiredParent(cs, j)
        BY <3>1
      <4> HIDE DEF next
      <4>2. x \in {j} \cup Reachable(next[j], next)
        BY <1>1, <3>1, ReachableUnfolds
      <4>3. QED
        BY <2>2, <4>1, <4>2
    <3>3. PICK k \in Slots : LoneRetiredParent(cs, j) \in {{}, {k}}
      BY <1>5, <3>1
    <3>4. LoneRetiredParent(cs, j) = {k} /\ x \in Up(k)
      <4> HIDE DEF next, Up
      <4> QED
        BY <1>4, <3>2, <3>3
    <3>5. QED
      BY <1>2, <3>1, <3>4
  <2>3. QED
    BY <2>1, <2>2
<1>8. R \subseteq D
  <2>1. D \in SUBSET Slots /\ \A j \in D : next[j] \subseteq D
    BY <1>2, <1>7
  <2> HIDE DEF D, next
  <2>2. Reachable(LoneRetiredParent(cs, i), next) \subseteq D
    BY <1>6, <2>1, ReachableIsLeast
  <2>3. QED
    BY <2>2 DEF RetiredAncestors, next
<1>9. y = x \/ x \in Up(y)
  BY <1>8
<1>10. Up(y) = {y} \/ Up(y) = {}
  <2>1. y \in Slots /\ next[y] = {}
    BY <1>2
  <2> HIDE DEF next
  <2>2. Up(y) \subseteq {y} \cup {}
    BY <1>1, <2>1, ReachableUnfolds, ReachableFromNothing
  <2>3. QED
    BY <2>2
<1>11. QED
  BY <1>9, <1>10

(***************************************************************************)
(* A retired context that destroy_context leaves behind keeps a child.     *)
(***************************************************************************)
LEMMA RetiredSurvivorKeepsChild ==
  ASSUME TypeOK, LinksAgree, NEW i \in Slots, contexts[i].state = "Active",
         NEW k \in Slots, contexts[k].state = "Retired", contexts[k].children # {},
         k \notin ToDestroy(contexts, i)
  PROVE  contexts[k].children \ ToDestroy(contexts, i) # {}
<1> DEFINE R == RetiredAncestors(contexts, i)
<1> SUFFICES ASSUME contexts[k].children \subseteq ToDestroy(contexts, i)
             PROVE  FALSE
  OBVIOUS
<1>1. contexts \in [Slots -> Context]
  BY DEF TypeOK
<1>2. \A x \in contexts[k].children : x \in Live(contexts) /\ contexts[x].parent_idx = k
  BY DEF LinksAgree, Live
<1>3. k \notin Descendants(contexts, i) \cup {i} \cup R
  BY DEF ToDestroy
<1>4. \A x \in contexts[k].children : x \notin Descendants(contexts, i)
  <2>1. \A j \in Descendants(contexts, i) :
           contexts[j].parent_idx \in Descendants(contexts, i) \cup {i}
    BY <1>1, DescendantsAreChildren DEF LinksAgree
  <2>2. QED
    BY <1>2, <1>3, <2>1
<1>5. contexts[k].children \subseteq R \cup {i}
  BY <1>4 DEF ToDestroy
<1>6. \A j \in R \cup {i} : k \notin LoneRetiredParent(contexts, j)
  BY <1>1, <1>3, RetiredAncestorsAreClosed
<1>7. R \subseteq Slots
  BY <1>1, RetiredAncestorsAreClosed
<1>8. \A x \in contexts[k].children : x \in Slots /\ LoneRetiredParent(contexts, x) = {}
  <2>1. \A x \in contexts[k].children : ParentOf(contexts, x) = {k}
    BY <1>2, SlotsAssumption DEF ParentOf, Slots, ROOT_INDEX
  <2>2. \A x \in contexts[k].children : LoneRetiredParent(contexts, x) \subseteq {k}
    BY <2>1 DEF LoneRetiredParent
  <2>3. QED
    BY <1>5, <1>6, <1>7, <2>2
<1>9. \A x, y \in contexts[k].children : x = y
  <2>1. ASSUME i \in contexts[k].children
        PROVE  contexts[k].children \subseteq {i}
    <3>1. LoneRetiredParent(contexts, i) = {}
      BY <1>8, <2>1
    <3>2. R = {}
      BY <3>1, ReachableFromNothing DEF RetiredAncestors
    <3>3. QED
      BY <1>5, <3>2
  <2>2. ASSUME NEW x \in contexts[k].children, NEW y \in contexts[k].children,
               x \in R, y \in R
        PROVE  x = y
    BY <1>1, <1>8, <2>2, LastRetiredAncestor
  <2>3. QED
    BY <1>5, <2>1, <2>2
<1>10. PICK x \in contexts[k].children : contexts[k].children = {x}
  BY <1>9
<1>11. k \in LoneRetiredParent(contexts, x)
  BY <1>2, <1>8, <1>10, SlotsAssumption DEF LoneRetiredParent, ParentOf, Slots, ROOT_INDEX
<1>12. QED
  BY <1>8, <1>11

(* No change of the array leaves a retired context without a child. *)
LEMMA RetiredStep ==
  ASSUME TypeOK, LinksAgree, RetiredIsNeeded, [Next]_vars
  PROVE  RetiredIsNeeded'
<1> SUFFICES ASSUME NEW k \in Slots, contexts'[k].state = "Retired"
             PROVE  contexts'[k].children # {} /\ contexts'[k].handle = INVALID
  BY DEF RetiredIsNeeded
<1>1. contexts[k].state = "Retired" =>
        contexts[k].children # {} /\ contexts[k].handle = INVALID
  BY DEF RetiredIsNeeded
<1>2. CASE contexts'[k] = contexts[k]
  BY <1>1, <1>2
<1>3. CASE Relabelled
  <2>1. contexts'[k] = contexts[k]
    BY <1>3, RelabelledFields
  <2>2. QED
    BY <1>2, <2>1
<1>4. CASE RootAdded
  <2>1. contexts'[k] = contexts[k]
    BY <1>4, RootAddedFields
  <2>2. QED
    BY <1>2, <2>1
<1>5. CASE ChildAdded
  <2>1. \/ contexts'[k] = contexts[k]
        \/ contexts'[k].handle = INVALID /\ contexts'[k].children # {}
    <3>1. PICK p, c \in Slots :
             /\ \A j \in Slots \ {p, c} : contexts'[j] = contexts[j]
             /\ contexts'[p].state = "Retired" => contexts'[p].handle = INVALID
             /\ contexts'[p].children = contexts[p].children \cup {c}
             /\ contexts'[c].state = "Active"
      BY <1>5, ChildAddedFields
    <3>2. QED
      BY <3>1
  <2>2. QED
    BY <1>2, <2>1
<1>6. CASE SubtreeDestroyed
  <2>1. PICK i \in Slots : contexts[i].state = "Active" /\ contexts' = DestroyContext(contexts, i)
    BY <1>6 DEF SubtreeDestroyed
  <2>2. /\ k \notin ToDestroy(contexts, i)
        /\ contexts[k].state = "Retired"
        /\ contexts'[k].handle = contexts[k].handle
        /\ contexts'[k].children = contexts[k].children \ ToDestroy(contexts, i)
    BY <2>1, DestroyFields
  <2>3. QED
    BY <1>1, <2>1, <2>2, RetiredSurvivorKeepsChild
<1>7. CASE ParentReleased
  <2>1. \/ contexts'[k] = contexts[k]
        \/ contexts'[k].handle = INVALID /\ contexts'[k].children # {}
    BY <1>7, ParentReleasedFields
  <2>2. QED
    BY <1>2, <2>1
<1>8. QED
  BY <1>3, <1>4, <1>5, <1>6, <1>7, StepShape DEF Shape

(***************************************************************************)
(* A retired context always has a child and the invalid handle: the upward *)
(* loop of destroy_context never leaves a slot to a context that nothing   *)
(* needs and nobody can name.                                              *)
(***************************************************************************)
THEOREM RetiredCorrect == Spec => []RetiredIsNeeded
<1>1. Init => RetiredIsNeeded
  BY InitFields DEF RetiredIsNeeded
<1>2. TypeOK /\ LinksAgree /\ RetiredIsNeeded /\ [Next]_vars => RetiredIsNeeded'
  BY RetiredStep
<1>3. QED
  BY TypeCorrect, LinksCorrect, <1>1, <1>2, PTL DEF Spec

-----------------------------------------------------------------------------
(***************************************************************************)
(* The contexts a step leaves live, other than one it creates: they keep   *)
(* their place, and so do their parents.                                   *)
(***************************************************************************)
Old(k) == contexts[k].state # "Inactive" /\ SamePlace(contexts[k], contexts'[k])

(***************************************************************************)
(* Every live context after a step is an old one, a new root, or a new     *)
(* child of an active context.                                             *)
(***************************************************************************)
LEMMA Survivors ==
  ASSUME TypeOK, [Next]_vars
  PROVE  \/ \A k \in Live(contexts)' : Old(k)
         \/ \E c \in Slots :
              /\ contexts[c].state = "Inactive"
              /\ \A k \in Live(contexts)' \ {c} : Old(k)
              /\ contexts'[c].parent_idx = ROOT_INDEX
              /\ contexts'[c].context_type = "Normal" => ~has_initialized /\ has_initialized'
         \/ \E p, c \in Slots :
              /\ p # c /\ contexts[p].state = "Active" /\ contexts[c].state = "Inactive"
              /\ \A k \in Live(contexts)' \ {c} : Old(k)
              /\ contexts'[c].parent_idx = p
              /\ contexts'[c].context_type = contexts[p].context_type
              /\ contexts'[c].allow_x509 => contexts[p].allow_x509
              /\ contexts'[c].allow_export_cdi => contexts[p].allow_export_cdi
              /\ contexts'[c].allow_recursive => contexts[p].allow_recursive
              /\ \A k \in contexts[p].children : contexts'[c].tci_type # contexts[k].tci_type
<1> USE DEF Live, Old
<1>1. \A k \in Slots : contexts'[k] = contexts[k] => SamePlace(contexts[k], contexts'[k])
  BY DEF SamePlace
<1>2. CASE Relabelled
  BY <1>2, RelabelledFields
<1>3. CASE RootAdded
  <2>1. PICK i \in Slots :
           /\ contexts[i].state = "Inactive"
           /\ \A k \in Slots \ {i} : contexts'[k] = contexts[k]
           /\ contexts'[i].parent_idx = ROOT_INDEX
           /\ contexts'[i].context_type = "Normal" => ~has_initialized /\ has_initialized'
    BY <1>3, RootAddedFields
  <2>2. \A k \in Live(contexts)' \ {i} : Old(k)
    BY <1>1, <2>1
  <2>3. QED
    BY <2>1, <2>2
<1>4. CASE ChildAdded
  <2>1. PICK p, c \in Slots :
           /\ p # c /\ contexts[p].state = "Active" /\ contexts[c].state = "Inactive"
           /\ \A k \in Slots \ {p, c} : contexts'[k] = contexts[k]
           /\ SamePlace(contexts[p], contexts'[p])
           /\ contexts'[c].parent_idx = p
           /\ contexts'[c].context_type = contexts[p].context_type
           /\ contexts'[c].allow_x509 => contexts[p].allow_x509
           /\ contexts'[c].allow_export_cdi => contexts[p].allow_export_cdi
           /\ contexts'[c].allow_recursive => contexts[p].allow_recursive
           /\ \A k \in contexts[p].children : contexts'[c].tci_type # contexts[k].tci_type
    BY <1>4, ChildAddedFields
  <2>2. \A k \in Live(contexts)' \ {c} : Old(k)
    BY <1>1, <2>1
  <2>3. QED
    BY <2>1, <2>2
<1>5. CASE SubtreeDestroyed
  BY <1>5, DestroyFields DEF SubtreeDestroyed
<1>6. CASE ParentReleased
  <2>1. PICK p \in Slots :
           /\ contexts[p].state = "Active"
           /\ \A k \in Slots \ {p} : contexts'[k] = contexts[k]
           /\ SamePlace(contexts[p], contexts'[p])
    BY <1>6, ParentReleasedFields
  <2>2. \A k \in Live(contexts)' : Old(k)
    BY <1>1, <2>1
  <2>3. QED
    BY <2>2
<1>7. QED
  BY <1>2, <1>3, <1>4, <1>5, <1>6, StepShape DEF Shape

(***************************************************************************)
(* The parent of a context that a step leaves live is itself an old        *)
(* context, whatever the context is.                                       *)
(***************************************************************************)
LEMMA ParentsAreOld ==
  ASSUME TypeOK, LinksAgree, LinksAgree', NEW c \in Slots, contexts[c].state = "Inactive",
         \A k \in Live(contexts)' \ {c} : Old(k),
         NEW k \in Live(contexts)', k # c, ~IsRoot(contexts, k)'
  PROVE  /\ Old(k) /\ ~IsRoot(contexts, k)
         /\ contexts[k].parent_idx \in Slots /\ Old(contexts[k].parent_idx)
         /\ contexts'[k].parent_idx = contexts[k].parent_idx
<1>1. Old(k) /\ contexts'[k].parent_idx = contexts[k].parent_idx
  BY DEF Old, SamePlace
<1>2. ~IsRoot(contexts, k) /\ k \in Live(contexts)
  BY <1>1 DEF IsRoot, Old, Live
<1>3. contexts[k].parent_idx \in Live(contexts)
  BY <1>2 DEF LinksAgree
<1>4. contexts[k].parent_idx # c
  BY <1>3 DEF Live
<1>5. contexts'[k].parent_idx \in Live(contexts)'
  BY DEF LinksAgree
<1>6. QED
  BY <1>1, <1>2, <1>3, <1>4, <1>5 DEF Live

-----------------------------------------------------------------------------
(***************************************************************************)
(* Permissions.                                                            *)
(***************************************************************************)
LEMMA PermissionsStep ==
  ASSUME TypeOK, LinksAgree, LinksAgree', PermissionsInherited, [Next]_vars
  PROVE  PermissionsInherited'
<1> DEFINE Inherits(c, p) ==
             /\ c.allow_x509 => p.allow_x509
             /\ c.allow_export_cdi => p.allow_export_cdi
             /\ c.allow_recursive => p.allow_recursive
<1>1. ASSUME NEW k \in Live(contexts)', ~IsRoot(contexts, k)', Old(k),
             contexts[k].parent_idx \in Slots, Old(contexts[k].parent_idx)
      PROVE  Inherits(contexts'[k], Parent(k)')
  <2>1. k \in Live(contexts) /\ ~IsRoot(contexts, k) /\ Parent(k)' = contexts'[contexts[k].parent_idx]
    BY <1>1 DEF Old, SamePlace, Live, IsRoot, Parent
  <2>2. Inherits(contexts[k], Parent(k))
    BY <2>1 DEF PermissionsInherited
  <2>3. QED
    BY <1>1, <2>1, <2>2 DEF Old, SamePlace, Parent
<1>2. ASSUME NEW c \in Slots, contexts[c].state = "Inactive",
             \A k \in Live(contexts)' \ {c} : Old(k),
             ~IsRoot(contexts, c)' => Inherits(contexts'[c], Parent(c)')
      PROVE  PermissionsInherited'
  BY <1>1, <1>2, ParentsAreOld DEF PermissionsInherited
<1>3. CASE \A k \in Live(contexts)' : Old(k)
  <2>1. ASSUME NEW k \in Live(contexts)', ~IsRoot(contexts, k)'
        PROVE  /\ Old(k) /\ contexts[k].parent_idx \in Slots /\ Old(contexts[k].parent_idx)
    BY <1>3, <2>1 DEF LinksAgree, Old, SamePlace, Live
  <2>2. QED
    BY <1>1, <2>1 DEF PermissionsInherited
<1>4. ASSUME NEW c \in Slots, contexts[c].state = "Inactive",
             \A k \in Live(contexts)' \ {c} : Old(k), contexts'[c].parent_idx = ROOT_INDEX
      PROVE  PermissionsInherited'
  BY <1>2, <1>4 DEF IsRoot
<1>5. ASSUME NEW p \in Slots, NEW c \in Slots,
             p # c, contexts[p].state = "Active", contexts[c].state = "Inactive",
             \A k \in Live(contexts)' \ {c} : Old(k),
             contexts'[c].parent_idx = p, Inherits(contexts'[c], contexts[p])
      PROVE  PermissionsInherited'
  <2>1. CASE c \in Live(contexts)' /\ ~IsRoot(contexts, c)'
    <3>1. Old(p)
      BY <1>5, <2>1 DEF LinksAgree
    <3>2. Inherits(contexts'[c], Parent(c)')
      BY <1>5, <3>1 DEF Old, SamePlace, Parent
    <3>3. QED
      BY <1>2, <1>5, <3>2
  <2>2. CASE c \notin Live(contexts)' \/ IsRoot(contexts, c)'
    BY <1>1, <1>5, <2>2, ParentsAreOld DEF PermissionsInherited
  <2>3. QED
    BY <2>1, <2>2
<1>6. QED
  BY <1>3, <1>4, <1>5, Survivors

(***************************************************************************)
(* Along every chain of derivations the permissions to have X.509          *)
(* certificates, to export CDIs and to update oneself only shrink, whoever *)
(* derives and whatever is retired or destroyed meanwhile.                 *)
(***************************************************************************)
THEOREM PermissionsCorrect == Spec => []PermissionsInherited
<1>1. Init => PermissionsInherited
  BY InitFields DEF PermissionsInherited, Live, IsRoot
<1>2. TypeOK /\ LinksAgree /\ LinksAgree' /\ PermissionsInherited /\ [Next]_vars
        => PermissionsInherited'
  BY PermissionsStep
<1>3. QED
  BY TypeCorrect, LinksCorrect, <1>1, <1>2, PTL DEF Spec

-----------------------------------------------------------------------------
(***************************************************************************)
(* Input types.                                                            *)
(***************************************************************************)
LEMMA InputTypeStep ==
  ASSUME TypeOK, LinksAgree, LinksAgree', InputTypeNamesChild, [Next]_vars
  PROVE  InputTypeNamesChild'
<1> SUFFICES ASSUME NEW i \in Live(contexts)', NEW j \in Live(contexts)',
                    i # j, contexts'[i].parent_idx # ROOT_INDEX,
                    contexts'[i].parent_idx = contexts'[j].parent_idx
             PROVE  contexts'[i].tci_type # contexts'[j].tci_type
  BY DEF InputTypeNamesChild, IsRoot
<1>1. CASE Old(i) /\ Old(j)
  <2>1. /\ i \in Live(contexts) /\ j \in Live(contexts) /\ ~IsRoot(contexts, i)
        /\ contexts[i].parent_idx = contexts[j].parent_idx
    BY <1>1 DEF IsRoot, Live, Old, SamePlace
  <2>2. contexts[i].tci_type # contexts[j].tci_type
    BY <2>1 DEF InputTypeNamesChild
  <2>3. QED
    BY <1>1, <2>2 DEF Old, SamePlace
<1>2. ASSUME NEW p \in Slots, NEW c \in Slots, contexts[p].state = "Active",
             contexts'[c].parent_idx = p,
             \A k \in contexts[p].children : contexts'[c].tci_type # contexts[k].tci_type,
             NEW k \in Live(contexts)', Old(k), contexts'[k].parent_idx = p
      PROVE  contexts'[c].tci_type # contexts'[k].tci_type
  <2>1. k \in Live(contexts) /\ contexts[k].parent_idx = p /\ p # ROOT_INDEX
    BY <1>2, SlotsAssumption DEF Old, SamePlace, Live, Slots, ROOT_INDEX
  <2>2. k \in contexts[p].children
    BY <2>1 DEF LinksAgree, IsRoot, Parent
  <2>3. QED
    BY <1>2, <2>2 DEF Old, SamePlace
<1>3. QED
  BY <1>1, <1>2, Survivors

(***************************************************************************)
(* The children of a context have different input types, active or retired,*)
(* so UpdateContextMeasurement finds at most one.                          *)
(***************************************************************************)
THEOREM InputTypeCorrect == Spec => []InputTypeNamesChild
<1>1. Init => InputTypeNamesChild
  BY InitFields DEF InputTypeNamesChild, Live, IsRoot
<1>2. TypeOK /\ LinksAgree /\ LinksAgree' /\ InputTypeNamesChild /\ [Next]_vars
        => InputTypeNamesChild'
  BY InputTypeStep
<1>3. QED
  BY TypeCorrect, LinksCorrect, <1>1, <1>2, PTL DEF Spec

-----------------------------------------------------------------------------
(***************************************************************************)
(* The Normal tree.                                                        *)
(***************************************************************************)
LEMMA NormalTreeStep ==
  ASSUME TypeOK, LinksAgree, LinksAgree', OneNormalTree, [Next]_vars
  PROVE  OneNormalTree'
<1> USE SlotsAssumption DEF Slots, ROOT_INDEX
<1>1. has_initialized => has_initialized'
  BY StepShape DEF Shape
<1>2. ASSUME NEW k \in Live(contexts)', ~IsRoot(contexts, k)'
      PROVE  contexts'[k].context_type = Parent(k)'.context_type
  <2>1. contexts'[k].parent_idx \in Live(contexts)'
    BY <1>2 DEF LinksAgree
  <2>2. CASE Old(k) /\ Old(contexts'[k].parent_idx)
    BY <1>2, <2>2 DEF OneNormalTree, Old, SamePlace, Live, IsRoot, Parent
  <2>3. CASE Old(k) /\ ~Old(contexts'[k].parent_idx)
    <3>1. contexts'[k].parent_idx \in Live(contexts)
      BY <1>2, <2>3 DEF LinksAgree, Old, SamePlace, Live, IsRoot
    <3>2. QED
      BY <2>1, <2>3, <3>1, Survivors DEF Live
  <2>4. CASE ~Old(k)
    <3>1. PICK p, c \in Slots :
            /\ p # c /\ contexts[p].state = "Active"
            /\ \A j \in Live(contexts)' \ {c} : Old(j)
            /\ k = c /\ contexts'[c].parent_idx = p
            /\ contexts'[c].context_type = contexts[p].context_type
      BY <1>2, <2>4, Survivors DEF IsRoot
    <3>2. Old(p)
      BY <2>1, <3>1
    <3>3. QED
      BY <3>1, <3>2 DEF Old, SamePlace, Parent
  <2>5. QED
    BY <2>2, <2>3, <2>4
<1>3. ASSUME NEW i \in Live(contexts)', NEW j \in Live(contexts)',
             contexts'[i].context_type = "Normal", IsRoot(contexts, i)',
             contexts'[j].context_type = "Normal", IsRoot(contexts, j)'
      PROVE  i = j /\ has_initialized'
  <2>1. ASSUME NEW k \in Live(contexts)', Old(k),
               contexts'[k].context_type = "Normal", IsRoot(contexts, k)'
        PROVE  /\ k \in Live(contexts) /\ contexts[k].context_type = "Normal"
               /\ IsRoot(contexts, k) /\ has_initialized
    <3>1. /\ k \in Live(contexts) /\ contexts[k].context_type = "Normal"
          /\ IsRoot(contexts, k)
      BY <2>1 DEF Old, SamePlace, Live, IsRoot
    <3>2. QED
      BY <3>1 DEF OneNormalTree
  <2>2. ASSUME NEW k \in Live(contexts)', ~Old(k),
               contexts'[k].context_type = "Normal", IsRoot(contexts, k)'
        PROVE  /\ ~has_initialized /\ has_initialized'
               /\ \A n \in Live(contexts)' : n = k \/ Old(n)
    BY <2>2, Survivors DEF IsRoot
  <2>3. CASE Old(i) /\ Old(j)
    BY <1>1, <1>3, <2>1, <2>3 DEF OneNormalTree
  <2>4. CASE ~Old(i) \/ ~Old(j)
    BY <1>3, <2>1, <2>2, <2>4
  <2>5. QED
    BY <2>3, <2>4
<1>4. QED
  BY <1>2, <1>3 DEF OneNormalTree

(***************************************************************************)
(* Contexts of the two types never share a tree, and at most one live tree *)
(* is Normal: the one whose root InitializeContext or auto-initialisation  *)
(* activated.                                                              *)
(***************************************************************************)
THEOREM NormalTreeCorrect == Spec => []OneNormalTree
<1>1. Init => OneNormalTree
  BY InitFields DEF OneNormalTree, Live, IsRoot
<1>2. TypeOK /\ LinksAgree /\ LinksAgree' /\ OneNormalTree /\ [Next]_vars => OneNormalTree'
  BY NormalTreeStep
<1>3. QED
  BY TypeCorrect, LinksCorrect, <1>1, <1>2, PTL DEF Spec

-----------------------------------------------------------------------------
(***************************************************************************)
(* What a step may never do.                                               *)
(***************************************************************************)

(***************************************************************************)
(* After the first initialisation no step creates a Normal root, although  *)
(* every context may have been destroyed: the base CDI is used once.       *)
(***************************************************************************)
THEOREM NormalRootCorrect == Spec => NormalRootOnlyOnce
<1>1. ASSUME TypeOK, [Next]_vars, has_initialized
      PROVE  has_initialized' /\ NormalRoots(contexts)' \subseteq NormalRoots(contexts)
  <2>1. has_initialized'
    BY <1>1, StepShape DEF Shape
  <2>2. ASSUME NEW k \in NormalRoots(contexts)'
        PROVE  k \in NormalRoots(contexts)
    <3>1. Old(k)
      BY <1>1, <2>2, Survivors, SlotsAssumption DEF NormalRoots, IsRoot, Slots, ROOT_INDEX
    <3>2. QED
      BY <2>2, <3>1 DEF NormalRoots, Old, SamePlace, Live, IsRoot
  <2>3. QED
    BY <2>1, <2>2
<1>2. TypeOK /\ [Next]_vars =>
        [has_initialized =>
           has_initialized' /\ NormalRoots(contexts') \subseteq NormalRoots(contexts)]_vars
  BY <1>1 DEF NormalRoots, Live, IsRoot
<1>3. QED
  BY TypeCorrect, <1>2, PTL DEF Spec, NormalRootOnlyOnce

(***************************************************************************)
(* Until it is destroyed a context keeps its parent, locality, types and   *)
(* permissions, and a retired context stays as it was measured: no later   *)
(* command rewrites what its certificates attest.                          *)
(***************************************************************************)
THEOREM IdentityCorrect == Spec => IdentityIsStable
<1> DEFINE Fields == {"parent_idx", "locality", "tci_locality", "tci_type", "context_type",
                      "allow_x509", "allow_export_cdi", "allow_recursive",
                      "uses_internal_input_info", "uses_internal_input_dice"}
           Keeps(i) ==
             /\ \A f \in Fields : contexts'[i][f] = contexts[i][f]
             /\ contexts[i].state = "Retired" =>
                  /\ contexts'[i].state = "Retired"
                  /\ contexts'[i].tci_cumulative = contexts[i].tci_cumulative
<1>1. ASSUME TypeOK, [Next]_vars, NEW i \in Live(contexts), contexts'[i].state # "Inactive"
      PROVE  Keeps(i)
  <2>1. SamePlace(contexts[i], contexts'[i])
    BY <1>1, Survivors DEF Live, Old
  <2>2. \A f \in Fields : contexts'[i][f] = contexts[i][f]
    BY <2>1 DEF SamePlace
  <2>3. ASSUME contexts[i].state = "Retired"
        PROVE  /\ contexts'[i].state = "Retired"
               /\ contexts'[i].tci_cumulative = contexts[i].tci_cumulative
    <3>1. CASE Relabelled
      BY <1>1, <2>3, <3>1, RelabelledFields DEF Live
    <3>2. CASE RootAdded \/ ChildAdded \/ ParentReleased
      <4>1. contexts'[i] = contexts[i]
        BY <1>1, <2>3, <3>2, RootAddedFields, ChildAddedFields, ParentReleasedFields DEF Live
      <4>2. QED
        BY <2>3, <4>1
    <3>3. CASE SubtreeDestroyed
      BY <1>1, <2>3, <3>3, DestroyFields DEF SubtreeDestroyed, Live
    <3>4. QED
      BY <1>1, <3>1, <3>2, <3>3, StepShape DEF Shape
  <2>4. QED
    BY <2>2, <2>3
<1>2. TypeOK /\ [Next]_vars =>
        [\A i \in Live(contexts) : contexts'[i].state # "Inactive" => Keeps(i)]_vars
  <2> HIDE DEF Keeps
  <2> QED
    BY <1>1
<1>3. QED
  BY TypeCorrect, <1>2, PTL DEF Spec, IdentityIsStable

-----------------------------------------------------------------------------
(***************************************************************************)
(* Theorems about context handles: no two active contexts share one, and a *)
(* default context is alone in its locality.  Each holds under a condition *)
(* on the constants: without the first a child may be given the handle its *)
(* parent has just drawn, and the run doc_default_mixed shows that the     *)
(* second is needed.                                                       *)
(***************************************************************************)

(***************************************************************************)
(* A context that is active after the step was so before, with the same    *)
(* handle and locality.                                                    *)
(***************************************************************************)
Same(k) ==
  contexts'[k].state = "Active" =>
    /\ contexts[k].state = "Active"
    /\ contexts'[k].handle = contexts[k].handle
    /\ contexts'[k].locality = contexts[k].locality

(***************************************************************************)
(* An active context whose handle is rolled: the default handle stays, any *)
(* other is replaced by one that no slot outside Z has.                    *)
(***************************************************************************)
Rolled(z, Z) ==
  /\ contexts[z].state = "Active"
  /\ contexts'[z].locality = contexts[z].locality
  /\ contexts'[z].handle = DEFAULT <=> contexts[z].handle = DEFAULT
  /\ contexts'[z].handle # DEFAULT =>
       \A k \in Slots \ Z : contexts[k].handle # contexts'[z].handle

(***************************************************************************)
(* The ways a step changes the handles of active contexts.  Those of p and *)
(* c are rolled (p = c if the command rolls one), or i becomes the default *)
(* context of its locality or ceases to be it, or i is a new root, or c a  *)
(* new child of p.                                                         *)
(***************************************************************************)
HandlesRolled ==
  \E p, c \in Slots :
    /\ \A k \in Slots \ {p, c} : Same(k)
    /\ Rolled(p, {p, c}) /\ Rolled(c, {p, c})
    /\ contexts'[p].handle = contexts'[c].handle /\ contexts'[p].handle # DEFAULT => p = c

MadeDefault ==
  \E i \in Slots :
    /\ \A k \in Slots \ {i} : Same(k)
    /\ contexts'[i].locality = contexts[i].locality
    /\ contexts'[i].handle = DEFAULT
    /\ ActiveIn(contexts, contexts[i].locality) = {i}

DefaultRotated ==
  \E i \in Slots :
    /\ \A k \in Slots \ {i} : Same(k)
    /\ contexts[i].state = "Active" /\ contexts[i].handle = DEFAULT
    /\ contexts'[i].locality = contexts[i].locality
    /\ contexts'[i].handle # DEFAULT
    /\ \A k \in Slots : contexts[k].handle # contexts'[i].handle

RootHandled ==
  \E i \in Slots :
    /\ \A k \in Slots \ {i} : Same(k)
    /\ \/ contexts'[i].handle = DEFAULT /\ ~has_initialized /\ has_initialized'
       \/ /\ "SIMULATION" \in Support
          /\ \A k \in Slots : contexts[k].handle # contexts'[i].handle

ChildHandled ==
  \E p, c \in Slots :
    LET l == contexts'[c].locality
    IN  /\ p # c /\ contexts[p].state = "Active" /\ contexts[c].state = "Inactive"
        /\ \A k \in Slots \ {p, c} : Same(k)
        /\ contexts'[p].state = "Active" => Rolled(p, {p})
        /\ \/ /\ contexts'[c].handle = DEFAULT
              /\ \/ ActiveIn(contexts, l) = {}
                 \/ ActiveIn(contexts, l) = {p} /\ contexts'[p].state # "Active"
           \/ /\ contexts'[c].handle # DEFAULT
              /\ \A k \in Slots : contexts[k].handle # contexts'[c].handle
              /\ contexts'[p].state = "Active" /\ ~RNG_MAY_REPEAT =>
                   contexts'[p].handle # contexts'[c].handle
              /\ \/ ActiveWith(contexts, DEFAULT, l) = {}
                 \/ p \in ActiveWith(contexts, DEFAULT, l) /\ contexts'[p].state # "Active"

HandleShape ==
  \/ \A k \in Slots : Same(k)
  \/ HandlesRolled
  \/ MadeDefault
  \/ DefaultRotated
  \/ RootHandled
  \/ ChildHandled

-----------------------------------------------------------------------------
(***************************************************************************)
(* Draws.                                                                  *)
(***************************************************************************)
LEMMA DrawnIsFresh ==
  ASSUME NEW cs, NEW seen, NEW h \in GenerateNewHandle(cs, seen), h # NO_HANDLE
  PROVE  /\ h # DEFAULT /\ \A k \in Slots : cs[k].handle # h
         /\ ~RNG_MAY_REPEAT => h \notin seen
BY EnvironmentAssumption DEF GenerateNewHandle

(* A rolled handle differs from those of all other active contexts. *)
LEMMA RollIsFresh ==
  ASSUME NEW cs, NEW c, NEW seen, NEW h \in RollOnetimeUseHandle(cs, c, seen), h # NO_HANDLE
  PROVE  /\ h = DEFAULT <=> c.handle = DEFAULT
         /\ h # DEFAULT => \A k \in Slots : cs[k].handle # h
BY DrawnIsFresh DEF RollOnetimeUseHandle

(***************************************************************************)
(* A command that does nothing but roll the handle of one context.         *)
(***************************************************************************)
LEMMA OneRoll ==
  ASSUME TypeOK, NEW i \in Slots, contexts[i].state = "Active",
         NEW seen, NEW h \in RollOnetimeUseHandle(contexts, contexts[i], seen), h # NO_HANDLE,
         \A k \in Slots \ {i} : contexts'[k] = contexts[k],
         contexts'[i].handle = h, contexts'[i].locality = contexts[i].locality
  PROVE  HandleShape
<1>1. Rolled(i, {i})
  BY RollIsFresh DEF Rolled
<1>2. \A k \in Slots \ {i} : Same(k)
  BY DEF Same
<1>3. HandlesRolled
  BY <1>1, <1>2 DEF HandlesRolled
<1>4. QED
  BY <1>3 DEF HandleShape

(* A step that leaves the array alone gives out no handle. *)
LEMMA StutterHandles ==
  ASSUME UNCHANGED contexts
  PROVE  HandleShape
BY DEF HandleShape, Same

(* A refused command gives out no handle. *)
LEMMA RejectionHandles ==
  ASSUME NEW cmd, NEW l, NEW h, NEW status, Reject(cmd, l, h, status)
  PROVE  HandleShape
BY StutterHandles DEF Reject, state_vars

-----------------------------------------------------------------------------
(***************************************************************************)
(* Every command changes handles in one of these ways.                     *)
(***************************************************************************)
LEMMA InitializeHandles ==
  ASSUME TypeOK, NEW l \in Localities, Initialize(l)
  PROVE  HandleShape
<1> DEFINE i == GetNextInactiveContextPos(contexts)
<1>1. ASSUME NEW flags, InitializeRejected(l, flags)
      PROVE  HandleShape
  BY <1>1, RejectionHandles DEF InitializeRejected
<1>2. ASSUME NEW flags, InitializeStatus(flags) = "NoError"
      PROVE  /\ i \in Slots /\ contexts[i].state = "Inactive"
             /\ "DEFAULT" \in flags => ~has_initialized
             /\ "SIMULATION" \in flags => "SIMULATION" \in Support
  BY <1>2, NextInactiveIsInactive DEF InitializeStatus
<1>3. ASSUME i \in Slots, NEW type, NEW h, contexts' = [contexts EXCEPT ![i] = RootContext(type, l, h)]
      PROVE  contexts'[i].handle = h /\ \A k \in Slots \ {i} : Same(k)
  <2>1. contexts'[i] = RootContext(type, l, h) /\ \A k \in Slots \ {i} : contexts'[k] = contexts[k]
    BY <1>3 DEF TypeOK
  <2>2. QED
    BY <2>1 DEF RootContext, Activated, Same
<1>4. ASSUME NEW fits, InitializeDefault(l, fits)
      PROVE  HandleShape
  <2>1. i \in Slots /\ ~has_initialized
    BY <1>2, <1>4 DEF InitializeDefault
  <2>2. contexts'[i].handle = DEFAULT /\ \A k \in Slots \ {i} : Same(k)
    BY <1>3, <1>4, <2>1 DEF InitializeDefault
  <2>3. RootHandled
    BY <1>4, <2>1, <2>2 DEF InitializeDefault, RootHandled
  <2>4. QED
    BY <2>3 DEF HandleShape
<1>5. ASSUME NEW fits, InitializeSimulation(l, fits)
      PROVE  HandleShape
  <2>1. i \in Slots /\ "SIMULATION" \in Support
    BY <1>2, <1>5 DEF InitializeSimulation
  <2>2. CASE Reject("InitializeContext", l, NO_HANDLE, "InternalError")
    BY <2>2, RejectionHandles
  <2>3. ASSUME NEW h \in GenerateNewHandle(contexts, {}), h # NO_HANDLE,
               contexts' = [contexts EXCEPT ![i] = RootContext("Simulation", l, h)]
        PROVE  HandleShape
    <3>1. contexts'[i].handle = h /\ \A k \in Slots \ {i} : Same(k)
      BY <1>3, <2>1, <2>3
    <3>2. \A k \in Slots : contexts[k].handle # h
      BY <2>3, DrawnIsFresh
    <3>3. RootHandled
      BY <2>1, <3>1, <3>2 DEF RootHandled
    <3>4. QED
      BY <3>3 DEF HandleShape
  <2>4. QED
    BY <1>5, <2>2, <2>3 DEF InitializeSimulation
<1>6. QED
  BY <1>1, <1>4, <1>5 DEF Initialize

(* The handles after a recursive derivation. *)
LEMMA DeriveRecursiveHandles ==
  ASSUME TypeOK, NEW l, NEW h, NEW flags, NEW t, NEW target, NEW m, NEW ok, NEW fits,
         DeriveRecursive(l, h, flags, t, target, m, ok, fits)
  PROVE  HandleShape
<1> DEFINE p == GetActiveContextPos(contexts, h, l)
<1>1. p \in Slots /\ contexts[p].state = "Active"
  BY DeriveFinds DEF DeriveRecursive
<1>2. CASE \E status : Reject("DeriveContext", l, h, status)
  BY <1>2, RejectionHandles
<1>3. ASSUME NEW nh \in RollOnetimeUseHandle(contexts, contexts[p], {}), nh # NO_HANDLE,
             contexts' = [contexts EXCEPT ![p] = [Measured(@, m) EXCEPT !.handle = nh]]
      PROVE  HandleShape
  <2>1. contexts[p] \in Context
    BY <1>1 DEF TypeOK
  <2>2. /\ \A k \in Slots \ {p} : contexts'[k] = contexts[k]
        /\ contexts'[p] = [Measured(contexts[p], m) EXCEPT !.handle = nh]
    BY <1>1, <1>3 DEF TypeOK
  <2>3. contexts'[p].handle = nh /\ contexts'[p].locality = contexts[p].locality
    BY <2>1, <2>2 DEF Measured, Context
  <2>4. QED
    BY <1>1, <1>3, <2>2, <2>3, OneRoll
<1>4. QED
  BY <1>2, <1>3 DEF DeriveRecursive

(***************************************************************************)
(* What safe_to_make_child ensures of the child's locality.                *)
(***************************************************************************)
LEMMA SafeChild ==
  ASSUME NEW p, NEW flags, NEW l, SafeToMakeChild(p, flags, l)
  PROVE  /\ "MAKE_DEFAULT" \in flags =>
              \/ ActiveIn(contexts, l) = {}
              \/ ActiveIn(contexts, l) = {p} /\ "RETAIN_PARENT_CONTEXT" \notin flags
         /\ "MAKE_DEFAULT" \notin flags =>
              \/ ActiveWith(contexts, DEFAULT, l) = {}
              \/ p \in ActiveWith(contexts, DEFAULT, l) /\ "RETAIN_PARENT_CONTEXT" \notin flags
<1>1. CASE "MAKE_DEFAULT" \in flags
  BY <1>1 DEF SafeToMakeChild, SafeToMakeDefault
<1>2. CASE "MAKE_DEFAULT" \notin flags
  <2>1. CASE ActiveWith(contexts, DEFAULT, l) = {}
    BY <1>2, <2>1
  <2>2. CASE ActiveWith(contexts, DEFAULT, l) # {}
    <3>1. GetActiveContextPos(contexts, DEFAULT, l) = p /\ "RETAIN_PARENT_CONTEXT" \notin flags
      BY <1>2, <2>2 DEF SafeToMakeChild, SafeToMakeNonDefault
    <3>2. ActiveWith(contexts, DEFAULT, l) \in SUBSET Slots
      BY DEF ActiveWith, ActiveIn
    <3>3. GetActiveContextPos(contexts, DEFAULT, l) \in ActiveWith(contexts, DEFAULT, l)
      BY <2>2, <3>2, LowestIsMember DEF GetActiveContextPos
    <3>4. QED
      BY <1>2, <3>1, <3>3
  <2>3. QED
    BY <2>1, <2>2
<1>3. QED
  BY <1>1, <1>2

(* The handles after a derivation: the child's, and the parent's if it is kept. *)
LEMMA DeriveChildHandles ==
  ASSUME TypeOK, NEW l, NEW h, NEW flags, NEW t, NEW target, NEW m, NEW ok, NEW fits,
         DeriveChild(l, h, flags, t, target, m, ok, fits)
  PROVE  HandleShape
<1> DEFINE p == GetActiveContextPos(contexts, h, l)
           c == GetNextInactiveContextPos(contexts)
<1>1. p \in Slots /\ contexts[p].state = "Active" /\ contexts[p] \in Context
  BY DeriveFinds DEF DeriveChild, TypeOK
<1>2. CASE \E status : Reject("DeriveContext", l, h, status)
  BY <1>2, RejectionHandles
<1>3. ASSUME NEW ph \in ParentHandles(contexts[p], flags), ph # NO_HANDLE,
             ChildStatus(p, flags, target) = "NoError",
             NEW ch \in ChildHandles(flags, ph), ch # NO_HANDLE,
             contexts' = WithChild(p, c, TmpParent(contexts[p], flags, ph),
                                   Measured(ChildContext(p, flags, t, target, ch), m))
      PROVE  HandleShape
  <2>1. c \in Slots /\ contexts[c].state = "Inactive" /\ p # c
    BY <1>1, <1>3, NextInactiveIsInactive DEF ChildStatus
  <2>2. /\ contexts'[c] = Measured(ChildContext(p, flags, t, target, ch), m)
        /\ contexts'[p] = [TmpParent(contexts[p], flags, ph) EXCEPT !.children = @ \cup {c}]
        /\ \A k \in Slots \ {p, c} : contexts'[k] = contexts[k]
    BY <1>1, <1>3, <2>1 DEF WithChild, TypeOK
  <2>3. contexts'[c].handle = ch /\ contexts'[c].locality = target
    BY <2>2 DEF Measured, ChildContext, Activated
  <2>4. /\ contexts'[p].handle = ph /\ contexts'[p].locality = contexts[p].locality
        /\ contexts'[p].state = "Active" <=> "RETAIN_PARENT_CONTEXT" \in flags
    BY <1>1, <2>2 DEF TmpParent, Context
  <2>5. \A k \in Slots \ {p, c} : Same(k)
    BY <2>2 DEF Same
  <2>6. contexts'[p].state = "Active" => Rolled(p, {p})
    BY <1>1, <1>3, <2>4, RollIsFresh DEF ParentHandles, Rolled
  <2>7. SafeToMakeChild(p, flags, target)
    BY <1>3 DEF ChildStatus
  <2>8. CASE "MAKE_DEFAULT" \in flags
    <3>1. contexts'[c].handle = DEFAULT
      BY <1>3, <2>3, <2>8 DEF ChildHandles
    <3>2. \/ ActiveIn(contexts, target) = {}
          \/ ActiveIn(contexts, target) = {p} /\ contexts'[p].state # "Active"
      BY <2>4, <2>7, <2>8, SafeChild
    <3>3. ChildHandled
      BY <1>1, <2>1, <2>3, <2>5, <2>6, <3>1, <3>2 DEF ChildHandled
    <3>4. QED
      BY <3>3 DEF HandleShape
  <2>9. CASE "MAKE_DEFAULT" \notin flags
    <3>1. ch \in GenerateNewHandle(contexts, {ph})
      BY <1>3, <2>9 DEF ChildHandles
    <3>2. /\ ch # DEFAULT /\ \A k \in Slots : contexts[k].handle # ch
          /\ ~RNG_MAY_REPEAT => ch # ph
      BY <1>3, <3>1, DrawnIsFresh
    <3>3. \/ ActiveWith(contexts, DEFAULT, target) = {}
          \/ p \in ActiveWith(contexts, DEFAULT, target) /\ contexts'[p].state # "Active"
      BY <2>4, <2>7, <2>9, SafeChild
    <3>4. ChildHandled
      BY <1>1, <2>1, <2>3, <2>4, <2>5, <2>6, <3>2, <3>3 DEF ChildHandled
    <3>5. QED
      BY <3>4 DEF HandleShape
  <2>10. QED
    BY <2>8, <2>9
<1>4. QED
  BY <1>2, <1>3 DEF DeriveChild

(* destroy_context gives out no handle. *)
LEMMA DestroyContextHandles ==
  ASSUME TypeOK, NEW i \in Slots, contexts' = DestroyContext(contexts, i)
  PROVE  HandleShape
<1>1. ASSUME NEW k \in Slots
      PROVE  Same(k)
  <2>1. contexts[k] \in Context
    BY DEF TypeOK
  <2>2. contexts'[k] = IF k \in ToDestroy(contexts, i) THEN Destroyed(contexts[k])
                       ELSE [contexts[k] EXCEPT !.children = @ \ ToDestroy(contexts, i)]
    BY DEF DestroyContext
  <2>3. CASE k \in ToDestroy(contexts, i)
    BY <2>1, <2>2, <2>3 DEF Destroyed, Context, Same
  <2>4. CASE k \notin ToDestroy(contexts, i)
    BY <2>1, <2>2, <2>4 DEF Context, Same
  <2>5. QED
    BY <2>3, <2>4
<1>2. QED
  BY <1>1 DEF HandleShape

(* The handles after an export, with or without the parent. *)
LEMMA DeriveExportedCdiHandles ==
  ASSUME TypeOK, NEW l, NEW h, NEW flags, NEW t, NEW outcome, NEW fits,
         NEW hdr_fits, DeriveExportedCdi(l, h, flags, t, outcome, fits, hdr_fits)
  PROVE  HandleShape
<1> DEFINE p == GetActiveContextPos(contexts, h, l)
<1>1. p \in Slots /\ contexts[p].state = "Active" /\ contexts[p] \in Context
  BY DeriveFinds DEF DeriveExportedCdi, TypeOK
<1>2. CASE \E status : Reject("DeriveContext", l, h, status)
  BY <1>2, RejectionHandles
<1>3. CASE UNCHANGED << contexts, has_initialized >>
  BY <1>3, StutterHandles
<1>4. ASSUME NEW ph \in ParentHandles(contexts[p], flags), ph # NO_HANDLE,
             contexts' = ParentAfterExport(p, flags, ph)
      PROVE  HandleShape
  <2>1. CASE contexts' = DestroyContext(contexts, p)
    BY <1>1, <2>1, DestroyContextHandles
  <2>2. CASE contexts' = [contexts EXCEPT ![p] = TmpParent(@, flags, ph)]
    <3>1. /\ contexts'[p] = TmpParent(contexts[p], flags, ph)
          /\ \A k \in Slots \ {p} : contexts'[k] = contexts[k]
      BY <1>1, <2>2 DEF TypeOK
    <3>2. /\ contexts'[p].handle = ph /\ contexts'[p].locality = contexts[p].locality
          /\ contexts'[p].state = "Active" <=> "RETAIN_PARENT_CONTEXT" \in flags
      BY <1>1, <3>1 DEF TmpParent, Context
    <3>3. CASE "RETAIN_PARENT_CONTEXT" \in flags
      <4>1. ph \in RollOnetimeUseHandle(contexts, contexts[p], {})
        BY <1>4, <3>3 DEF ParentHandles
      <4>2. QED
        BY <1>1, <1>4, <3>1, <3>2, <4>1, OneRoll
    <3>4. CASE "RETAIN_PARENT_CONTEXT" \notin flags
      BY <3>1, <3>2, <3>4 DEF HandleShape, Same
    <3>5. QED
      BY <3>3, <3>4
  <2>3. QED
    BY <1>4, <2>1, <2>2 DEF ParentAfterExport
<1>5. QED
  BY <1>2, <1>3, <1>4 DEF DeriveExportedCdi

(* Every outcome of DeriveContext has the shape HandleShape. *)
LEMMA DeriveHandles ==
  ASSUME TypeOK, NEW l \in Localities, NEW h \in Handles, Derive(l, h)
  PROVE  HandleShape
<1>1. ASSUME NEW flags, NEW t, NEW target, DeriveRejected(l, h, flags, t, target)
      PROVE  HandleShape
  BY <1>1, RejectionHandles DEF DeriveRejected
<1>2. QED
  BY <1>1, DeriveRecursiveHandles, DeriveChildHandles, DeriveExportedCdiHandles DEF Derive

(* Every outcome of DestroyContext has the shape HandleShape. *)
LEMMA DestroyHandles ==
  ASSUME TypeOK, NEW l \in Localities, NEW h \in Handles, Destroy(l, h)
  PROVE  HandleShape
<1>1. CASE DestroyRejected(l, h)
  BY <1>1, RejectionHandles DEF DestroyRejected
<1>2. ASSUME NEW fits, DestroyCtx(l, h, fits)
      PROVE  HandleShape
  <2>1. LookupStatus(contexts, h, l) = "NoError"
    BY <1>2 DEF DestroyCtx, DestroyStatus
  <2>2. QED
    BY <1>2, <2>1, LookupFinds, DestroyContextHandles DEF DestroyCtx, TypeOK
<1>3. QED
  BY <1>1, <1>2 DEF Destroy

(* Every outcome of RotateContextHandle has the shape HandleShape. *)
LEMMA RotateHandles ==
  ASSUME TypeOK, NEW l \in Localities, NEW h \in Handles, Rotate(l, h)
  PROVE  HandleShape
<1> DEFINE i == GetActiveContextPos(contexts, h, l)
<1>1. ASSUME NEW to_default, RotateRejected(l, h, to_default)
      PROVE  HandleShape
  BY <1>1, RejectionHandles DEF RotateRejected
<1>2. ASSUME NEW to_default, NEW fits, RotateCtx(l, h, to_default, fits)
      PROVE  HandleShape
  <2>1. LookupStatus(contexts, h, l) = "NoError"
    BY <1>2 DEF RotateCtx, RotateStatus
  <2>2. /\ i \in Slots /\ contexts[i].state = "Active" /\ contexts[i].locality = l
        /\ contexts[i] \in Context
    BY <2>1, LookupFinds DEF TypeOK
  <2>3. CASE \E status : Reject("RotateContextHandle", l, h, status)
    BY <2>3, RejectionHandles
  <2>4. ASSUME NEW nh \in IF to_default THEN {DEFAULT} ELSE GenerateNewHandle(contexts, {}),
               nh # NO_HANDLE, contexts' = [contexts EXCEPT ![i].handle = nh]
        PROVE  HandleShape
    <3>1. /\ contexts'[i] = [contexts[i] EXCEPT !.handle = nh]
          /\ \A k \in Slots \ {i} : contexts'[k] = contexts[k]
      BY <2>2, <2>4 DEF TypeOK
    <3>2. contexts'[i].handle = nh /\ contexts'[i].locality = l
      BY <2>2, <3>1 DEF Context
    <3>3. \A k \in Slots \ {i} : Same(k)
      BY <3>1 DEF Same
    <3>4. CASE to_default
      <4>1. /\ LookupStatus(contexts, DEFAULT, l) # "NoError"
            /\ ~NonDefaultValidHandlesExist(l, i)
        BY <1>2, <3>4 DEF RotateCtx, RotateStatus
      <4>2. i \in ActiveIn(contexts, l)
        BY <2>2 DEF ActiveIn
      <4>3. ActiveWith(contexts, DEFAULT, l) = {}
        BY <4>1, <4>2 DEF LookupStatus
      <4>4. ActiveIn(contexts, l) = {i}
        BY <4>1, <4>2, <4>3 DEF NonDefaultValidHandlesExist, ActiveWith
      <4>5. MadeDefault
        BY <2>2, <2>4, <3>2, <3>3, <3>4, <4>4 DEF MadeDefault
      <4>6. QED
        BY <4>5 DEF HandleShape
    <3>5. CASE ~to_default
      <4>1. nh # DEFAULT /\ \A k \in Slots : contexts[k].handle # nh
        BY <2>4, <3>5, DrawnIsFresh
      <4>2. CASE contexts[i].handle # DEFAULT
        <5>1. Rolled(i, {i})
          BY <2>2, <3>2, <4>1, <4>2 DEF Rolled
        <5>2. HandlesRolled
          BY <2>2, <3>3, <5>1 DEF HandlesRolled
        <5>3. QED
          BY <5>2 DEF HandleShape
      <4>3. CASE contexts[i].handle = DEFAULT
        <5>1. DefaultRotated
          BY <2>2, <3>2, <3>3, <4>1, <4>3 DEF DefaultRotated
        <5>2. QED
          BY <5>1 DEF HandleShape
      <4>4. QED
        BY <4>2, <4>3
    <3>6. QED
      BY <3>4, <3>5
  <2>5. QED
    BY <1>2, <2>3, <2>4 DEF RotateCtx
<1>3. QED
  BY <1>1, <1>2 DEF Rotate

(* Every outcome of UpdateContextMeasurement has the shape HandleShape. *)
LEMMA UpdateHandles ==
  ASSUME TypeOK, NEW l \in Localities, NEW h \in Handles, Update(l, h)
  PROVE  HandleShape
<1>1. ASSUME NEW t, UpdateRejected(l, h, t)
      PROVE  HandleShape
  BY <1>1, RejectionHandles DEF UpdateRejected
<1>2. ASSUME NEW t, NEW m \in Measurements, NEW ok, NEW fits,
             UpdateContextMeasurement(l, h, t, m, ok, fits)
      PROVE  HandleShape
  <2> DEFINE p == GetActiveContextPos(contexts, h, l)
             c == Lowest(ChildrenOfType(p, t))
             rolled(ph) == [contexts EXCEPT ![p].handle = ph]
  <2>1. LookupStatus(contexts, h, l) = "NoError" /\ ChildrenOfType(p, t) # {}
    BY <1>2 DEF UpdateContextMeasurement, UpdateStatus
  <2>2. p \in Slots /\ contexts[p].state = "Active" /\ contexts[p] \in Context
    BY <2>1, LookupFinds DEF TypeOK
  <2>3. ChildrenOfType(p, t) \in SUBSET Slots
    BY <2>2 DEF ChildrenOfType, Context
  <2>4. c \in Slots /\ contexts[c].state = "Active" /\ contexts[c] \in Context
    <3>1. c \in ChildrenOfType(p, t)
      BY <2>1, <2>3, LowestIsMember
    <3>2. QED
      BY <2>3, <3>1 DEF ChildrenOfType, TypeOK
  <2>5. CASE \E status : Reject("UpdateContextMeasurement", l, h, status)
    BY <2>5, RejectionHandles
  <2>6. ASSUME NEW ph \in RollOnetimeUseHandle(contexts, contexts[p], {}), ph # NO_HANDLE,
               contexts' = rolled(ph)
        PROVE  HandleShape
    <3>1. /\ contexts'[p] = [contexts[p] EXCEPT !.handle = ph]
          /\ \A k \in Slots \ {p} : contexts'[k] = contexts[k]
      BY <2>2, <2>6 DEF TypeOK
    <3>2. contexts'[p].handle = ph /\ contexts'[p].locality = contexts[p].locality
      BY <2>2, <3>1 DEF Context
    <3>3. QED
      BY <2>2, <2>6, <3>1, <3>2, OneRoll
  <2>7. ASSUME NEW ph \in RollOnetimeUseHandle(contexts, contexts[p], {}), ph # NO_HANDLE,
               NEW ch \in RollOnetimeUseHandle(rolled(ph), contexts[c], {h}), ch # NO_HANDLE,
               contexts' = [rolled(ph) EXCEPT ![c] = [Measured(@, m) EXCEPT !.handle = ch]]
        PROVE  HandleShape
    <3>1. /\ ph = DEFAULT <=> contexts[p].handle = DEFAULT
          /\ ph # DEFAULT => \A k \in Slots : contexts[k].handle # ph
      BY <2>7, RollIsFresh
    <3>2. /\ ch = DEFAULT <=> contexts[c].handle = DEFAULT
          /\ ch # DEFAULT => \A k \in Slots : rolled(ph)[k].handle # ch
      <4> HIDE DEF rolled
      <4> QED
        BY <2>7, RollIsFresh
    <3>3. /\ rolled(ph)[p].handle = ph
          /\ \A k \in Slots \ {p} : rolled(ph)[k] = contexts[k]
      BY <2>2 DEF TypeOK, Context
    <3>4. \A k \in Slots \ {p, c} : contexts'[k] = contexts[k]
      BY <2>7 DEF TypeOK
    <3>5. contexts'[c].handle = ch /\ contexts'[c].locality = contexts[c].locality
      <4>1. contexts'[c] = [Measured(rolled(ph)[c], m) EXCEPT !.handle = ch]
        BY <2>4, <2>7 DEF TypeOK
      <4>2. rolled(ph)[c] = contexts[c] \/ rolled(ph)[c] = [contexts[c] EXCEPT !.handle = ph]
        BY <2>2, <2>4 DEF TypeOK
      <4>3. QED
        BY <2>4, <4>1, <4>2 DEF Measured, Context
    <3>6. p # c => contexts'[p].handle = ph /\ contexts'[p].locality = contexts[p].locality
      <4>1. p # c => contexts'[p] = [contexts[p] EXCEPT !.handle = ph]
        BY <2>2, <2>7 DEF TypeOK
      <4>2. QED
        BY <2>2, <4>1 DEF Context
    <3>7. Rolled(c, {p, c})
      BY <2>4, <3>2, <3>3, <3>5 DEF Rolled
    <3>8. p # c => Rolled(p, {p, c})
      BY <2>2, <3>1, <3>6 DEF Rolled
    <3>9. p # c /\ ch = ph => ch = DEFAULT
      BY <2>2, <3>2, <3>3
    <3>10. \A k \in Slots \ {p, c} : Same(k)
      BY <3>4 DEF Same
    <3>11. Rolled(p, {p, c})
      <4>1. CASE p = c
        BY <3>7, <4>1
      <4>2. QED
        BY <3>8, <4>1
    <3>12. contexts'[p].handle = contexts'[c].handle /\ contexts'[p].handle # DEFAULT => p = c
      BY <3>5, <3>6, <3>9
    <3>13. HandlesRolled
      <4> HIDE DEF p, c
      <4> QED
        BY <2>2, <2>4, <3>7, <3>10, <3>11, <3>12 DEF HandlesRolled
    <3>14. QED
      BY <3>13 DEF HandleShape
  <2>8. QED
    BY <1>2, <2>5, <2>6, <2>7 DEF UpdateContextMeasurement
<1>3. QED
  BY <1>1, <1>2 DEF Update

(* Every outcome of Sign and CertifyKey has the shape HandleShape. *)
LEMMA UseKeyHandles ==
  ASSUME TypeOK, NEW l \in Localities, NEW h \in Handles, UseKey(l, h)
  PROVE  HandleShape
<1> DEFINE i == GetActiveContextPos(contexts, h, l)
<1>1. CASE \E cmd, status : Reject(cmd, l, h, status)
  BY <1>1, RejectionHandles
<1>2. ASSUME LookupStatus(contexts, h, l) = "NoError",
             NEW nh \in RollOnetimeUseHandle(contexts, contexts[i], {}), nh # NO_HANDLE,
             contexts' = [contexts EXCEPT ![i].handle = nh]
      PROVE  HandleShape
  <2>1. i \in Slots /\ contexts[i].state = "Active" /\ contexts[i] \in Context
    BY <1>2, LookupFinds DEF TypeOK
  <2>2. /\ contexts'[i] = [contexts[i] EXCEPT !.handle = nh]
        /\ \A k \in Slots \ {i} : contexts'[k] = contexts[k]
    BY <1>2, <2>1 DEF TypeOK
  <2>3. contexts'[i].handle = nh /\ contexts'[i].locality = contexts[i].locality
    BY <2>1, <2>2 DEF Context
  <2>4. QED
    BY <1>2, <2>1, <2>2, <2>3, OneRoll
<1>3. ASSUME NEW fits, Sign(l, h, fits)
      PROVE  HandleShape
  <2>1. LookupStatus(contexts, h, l) = "NoError"
    BY <1>3 DEF Sign, SignStatus
  <2>2. QED
    BY <1>1, <1>2, <1>3, <2>1 DEF Sign
<1>4. ASSUME NEW format, NEW hdr_fits, CertifyKey(l, h, format, hdr_fits)
      PROVE  HandleShape
  <2>1. LookupStatus(contexts, h, l) = "NoError"
    BY <1>4 DEF CertifyKey, CertifyKeyStatus
  <2>2. QED
    BY <1>1, <1>2, <1>4, <2>1 DEF CertifyKey
<1>5. QED
  BY <1>1, <1>3, <1>4 DEF UseKey, SignRejected, CertifyKeyRejected

(* Every step gives out handles as HandleShape says. *)
LEMMA StepHandles ==
  ASSUME TypeOK, [Next]_vars
  PROVE  HandleShape
<1>1. ASSUME NEW l \in Localities, Query(l)
      PROVE  HandleShape
  <2>1. UNCHANGED contexts
    BY <1>1 DEF Query, GetProfile, GetCertificateChain, state_vars
  <2>2. QED
    BY <2>1, StutterHandles
<1>2. CASE UNCHANGED vars
  BY <1>2, StutterHandles DEF vars
<1>3. QED
  BY <1>1, <1>2, InitializeHandles, DeriveHandles, DestroyHandles, RotateHandles,
     UpdateHandles, UseKeyHandles DEF Next

-----------------------------------------------------------------------------
(***************************************************************************)
(* Uniqueness.                                                             *)
(***************************************************************************)
LEMMA HandlesUniqueStep ==
  ASSUME ~RNG_MAY_REPEAT, TypeOK, HandlesUnique, [Next]_vars
  PROVE  HandlesUnique'
<1> SUFFICES ASSUME NEW i \in Slots, NEW j \in Slots,
                    contexts'[i].state = "Active", contexts'[j].state = "Active",
                    contexts'[i].handle = contexts'[j].handle,
                    contexts'[i].handle # DEFAULT
             PROVE  i = j
  BY DEF HandlesUnique, ActiveSlots
<1> USE DEF Same
<1>1. CASE Same(i) /\ Same(j)
  BY <1>1 DEF HandlesUnique, ActiveSlots
<1>2. CASE HandlesRolled
  <2>1. PICK p, c \in Slots :
          /\ \A k \in Slots \ {p, c} : Same(k)
          /\ Rolled(p, {p, c}) /\ Rolled(c, {p, c})
          /\ contexts'[p].handle = contexts'[c].handle /\ contexts'[p].handle # DEFAULT => p = c
    BY <1>2 DEF HandlesRolled
  <2>2. QED
    BY <1>1, <2>1 DEF Rolled
<1>3. CASE MadeDefault \/ DefaultRotated
  BY <1>1, <1>3 DEF MadeDefault, DefaultRotated
<1>4. CASE RootHandled
  BY <1>1, <1>4 DEF RootHandled
<1>5. CASE ChildHandled
  <2>1. PICK p, c \in Slots :
          /\ p # c /\ \A k \in Slots \ {p, c} : Same(k)
          /\ contexts'[p].state = "Active" => Rolled(p, {p})
          /\ contexts'[c].handle # DEFAULT =>
                /\ \A k \in Slots : contexts[k].handle # contexts'[c].handle
                /\ contexts'[p].state = "Active" => contexts'[p].handle # contexts'[c].handle
    BY <1>5 DEF ChildHandled
  <2>2. ASSUME NEW k \in Slots, Same(k), contexts'[k].state = "Active",
               contexts'[p].state = "Active" \/ contexts'[c].state = "Active",
               NEW n \in {p, c}, contexts'[n].state = "Active", k # n, k # c,
               contexts'[k].handle = contexts'[n].handle, contexts'[k].handle # DEFAULT
        PROVE  FALSE
    BY <2>1, <2>2 DEF Rolled
  <2>3. QED
    BY <1>1, <2>1, <2>2
<1>6. QED
  BY <1>1, <1>2, <1>3, <1>4, <1>5, StepHandles DEF HandleShape

(***************************************************************************)
(* If no command draws the same handle twice, two active contexts never    *)
(* share a handle that is not the default one: comparing a draw with the   *)
(* committed array, as generate_new_handle does, is then enough, also for  *)
(* the commands that draw two.                                             *)
(***************************************************************************)
THEOREM HandlesCorrect == ~RNG_MAY_REPEAT => (Spec => []HandlesUnique)
<1> SUFFICES ASSUME ~RNG_MAY_REPEAT
             PROVE  Spec => []HandlesUnique
  OBVIOUS
<1>1. Init => HandlesUnique
  BY InitFields DEF HandlesUnique, ActiveSlots
<1>2. TypeOK /\ HandlesUnique /\ [Next]_vars => HandlesUnique'
  BY HandlesUniqueStep
<1>3. QED
  BY TypeCorrect, <1>1, <1>2, PTL DEF Spec

-----------------------------------------------------------------------------
(***************************************************************************)
(* Default contexts.                                                       *)
(***************************************************************************)

(***************************************************************************)
(* The strengthening DefaultIsAlone needs: without simulation contexts,    *)
(* nothing is active before the first initialisation, which therefore      *)
(* finds no neighbour for its default context.                             *)
(***************************************************************************)
NoneBeforeInitialized == has_initialized \/ \A k \in Slots : contexts[k].state # "Active"

(* No step leaves an uninitialised instance with an active context. *)
LEMMA NoneBeforeInitializedStep ==
  ASSUME "SIMULATION" \notin Support, TypeOK, NoneBeforeInitialized, [Next]_vars
  PROVE  NoneBeforeInitialized'
<1>1. has_initialized => has_initialized'
  BY StepShape DEF Shape
<1>2. CASE has_initialized
  BY <1>1, <1>2 DEF NoneBeforeInitialized
<1>3. CASE ~has_initialized
  <2>1. \A k \in Slots : contexts[k].state # "Active"
    BY <1>3 DEF NoneBeforeInitialized
  <2>2. ~HandlesRolled /\ ~DefaultRotated /\ ~ChildHandled
    BY <2>1 DEF HandlesRolled, Rolled, DefaultRotated, ChildHandled
  <2>3. ~MadeDefault
    BY <2>1 DEF MadeDefault, ActiveIn
  <2>4. CASE RootHandled
    BY <2>4 DEF RootHandled, NoneBeforeInitialized
  <2>5. CASE \A k \in Slots : Same(k)
    BY <2>1, <2>5 DEF Same, NoneBeforeInitialized
  <2>6. QED
    BY <2>2, <2>3, <2>4, <2>5, StepHandles DEF HandleShape
<1>4. QED
  BY <1>2, <1>3

(* Without simulation no step puts a context beside a default one. *)
LEMMA DefaultIsAloneStep ==
  ASSUME "SIMULATION" \notin Support, TypeOK, NoneBeforeInitialized, DefaultIsAlone,
         [Next]_vars
  PROVE  DefaultIsAlone'
<1> SUFFICES ASSUME NEW i \in Slots, NEW j \in Slots,
                    contexts'[i].state = "Active", contexts'[j].state = "Active",
                    contexts'[i].locality = contexts'[j].locality,
                    contexts'[i].handle = DEFAULT
             PROVE  i = j
  BY DEF DefaultIsAlone, ActiveSlots
<1> DEFINE l == contexts'[i].locality
           Was(k) == contexts[k].state = "Active" /\ contexts[k].locality = contexts'[k].locality
<1>1. ASSUME Was(i), Was(j), contexts[i].handle = DEFAULT
      PROVE  i = j
  BY <1>1 DEF DefaultIsAlone, ActiveSlots
<1>2. \A k \in Slots : contexts'[k].state = "Active" /\ Same(k) =>
         Was(k) /\ contexts[k].handle = contexts'[k].handle
  BY DEF Same
<1>3. CASE \A k \in Slots : Same(k)
  BY <1>1, <1>2, <1>3
<1>4. CASE HandlesRolled
  <2>1. PICK p, c \in Slots :
          /\ \A k \in Slots \ {p, c} : Same(k)
          /\ Rolled(p, {p, c}) /\ Rolled(c, {p, c})
    BY <1>4 DEF HandlesRolled
  <2>2. QED
    BY <1>1, <1>2, <2>1 DEF Rolled
<1>5. CASE MadeDefault
  <2>1. PICK n \in Slots :
          /\ \A k \in Slots \ {n} : Same(k)
          /\ contexts'[n].locality = contexts[n].locality
          /\ ActiveIn(contexts, contexts[n].locality) = {n}
    BY <1>5 DEF MadeDefault
  <2>2. \A k \in Slots : Was(k) /\ contexts'[k].locality = contexts'[n].locality => k = n
    BY <2>1 DEF ActiveIn
  <2>3. QED
    BY <1>1, <1>2, <2>1, <2>2
<1>6. CASE DefaultRotated
  <2>1. PICK n \in Slots :
          /\ \A k \in Slots \ {n} : Same(k)
          /\ Was(n) /\ contexts'[n].handle # DEFAULT
    BY <1>6 DEF DefaultRotated
  <2>2. QED
    BY <1>1, <1>2, <2>1
<1>7. CASE RootHandled
  <2>1. PICK n \in Slots : (\A k \in Slots \ {n} : Same(k)) /\ ~has_initialized
    BY <1>7 DEF RootHandled
  <2>2. QED
    BY <1>2, <2>1 DEF NoneBeforeInitialized
<1>8. CASE ChildHandled
  <2>1. PICK p, c \in Slots :
          /\ p # c
          /\ \A k \in Slots \ {p, c} : Same(k)
          /\ contexts'[p].state = "Active" => Rolled(p, {p})
          /\ \/ /\ contexts'[c].handle = DEFAULT
                /\ \/ ActiveIn(contexts, contexts'[c].locality) = {}
                   \/ /\ ActiveIn(contexts, contexts'[c].locality) = {p}
                      /\ contexts'[p].state # "Active"
             \/ /\ contexts'[c].handle # DEFAULT
                /\ \/ ActiveWith(contexts, DEFAULT, contexts'[c].locality) = {}
                   \/ /\ p \in ActiveWith(contexts, DEFAULT, contexts'[c].locality)
                      /\ contexts'[p].state # "Active"
    BY <1>8 DEF ChildHandled
  <2>2. ASSUME NEW k \in Slots, contexts'[k].state = "Active", k # c
        PROVE  /\ Was(k) /\ k \in ActiveIn(contexts, contexts'[k].locality)
               /\ contexts'[k].handle = DEFAULT => contexts[k].handle = DEFAULT
    BY <1>2, <2>1, <2>2 DEF Rolled, ActiveIn
  <2>3. CASE i # c /\ j # c
    BY <1>1, <2>2, <2>3
  <2>4. CASE i = c /\ j # c
    BY <2>1, <2>2, <2>4
  <2>5. CASE i # c /\ j = c
    <3>1. i \in ActiveWith(contexts, DEFAULT, contexts'[c].locality)
      BY <2>2, <2>5 DEF ActiveWith
    <3>2. i \in ActiveIn(contexts, contexts'[c].locality)
      BY <3>1 DEF ActiveWith
    <3>3. p \in ActiveWith(contexts, DEFAULT, contexts'[c].locality) => p = i
      BY <3>1 DEF ActiveWith, ActiveIn, DefaultIsAlone, ActiveSlots
    <3>4. QED
      BY <2>1, <3>1, <3>2, <3>3
  <2>6. QED
    BY <2>3, <2>4, <2>5
<1>9. QED
  BY <1>3, <1>4, <1>5, <1>6, <1>7, <1>8, StepHandles DEF HandleShape

(***************************************************************************)
(* In an instance without simulation contexts a default context is the     *)
(* only active context of its locality, whatever is derived, handed over   *)
(* or rotated: the checks of safe_to_make_child and RotateContextHandle    *)
(* suffice.                                                                *)
(***************************************************************************)
THEOREM DefaultCorrect == "SIMULATION" \notin Support => (Spec => []DefaultIsAlone)
<1> SUFFICES ASSUME "SIMULATION" \notin Support
             PROVE  Spec => []DefaultIsAlone
  OBVIOUS
<1>1. Init => NoneBeforeInitialized /\ DefaultIsAlone
  BY InitFields DEF NoneBeforeInitialized, DefaultIsAlone, ActiveSlots
<1>2. TypeOK /\ NoneBeforeInitialized /\ DefaultIsAlone /\ [Next]_vars
        => (NoneBeforeInitialized /\ DefaultIsAlone)'
  BY NoneBeforeInitializedStep, DefaultIsAloneStep
<1>3. QED
  BY TypeCorrect, <1>1, <1>2, PTL DEF Spec
=============================================================================
