--------------------------- MODULE DpeTypeProofs ---------------------------
(***************************************************************************)
(* The type invariant of a DPE instance and the shape of its steps, for    *)
(* every number of slots and every choice of the other constants.          *)
(*                                                                         *)
(* The first part is about the operators of DpeContext: what the searches  *)
(* return and which changes to a context keep its type.  The second proves *)
(* the type invariant.  The third says how the array changes: however many *)
(* actions there are, in five ways only (StepShape).                       *)
(***************************************************************************)
EXTENDS DpeProperties, TLAPS, WellFoundedInduction, FiniteSetTheorems

(***************************************************************************)
(* The first slot of a non-empty set of slots exists and is in the set.    *)
(***************************************************************************)
LEMMA LowestIsMember ==
  ASSUME NEW S \in SUBSET Slots, S # {}
  PROVE  Lowest(S) \in S /\ \A j \in S : Lowest(S) <= j
<1>1. S \subseteq Nat
  BY SlotsAssumption DEF Slots
<1>2. \E i \in S : \A j \in S : ~(<< j, i >> \in OpToRel(<, Nat))
  BY <1>1, NatLessThanWellFounded, WFMin
<1>3. \A i, j \in Nat : j < i => << j, i >> \in OpToRel(<, Nat)
  BY Zenon DEF OpToRel
<1>4. \E i \in S : \A j \in S : ~(j < i)
  BY <1>1, <1>2, <1>3
<1>5. \E i \in S : \A j \in S : i <= j
  BY <1>1, <1>4
<1>6. QED
  BY <1>5 DEF Lowest

(***************************************************************************)
(* A lookup that does not fail finds an active context with the handle in  *)
(* the locality.                                                           *)
(***************************************************************************)
LEMMA LookupFinds ==
  ASSUME NEW cs \in [Slots -> Context], NEW h, NEW l, LookupStatus(cs, h, l) = "NoError"
  PROVE  LET i == GetActiveContextPos(cs, h, l)
         IN  /\ i \in Slots /\ cs[i].state = "Active"
             /\ cs[i].handle = h /\ cs[i].locality = l
<1>1. ActiveWith(cs, h, l) # {}
  BY DEF LookupStatus
<1>2. ActiveWith(cs, h, l) \in SUBSET Slots
  BY DEF ActiveWith, ActiveIn
<1>3. GetActiveContextPos(cs, h, l) \in ActiveWith(cs, h, l)
  BY <1>1, <1>2, LowestIsMember DEF GetActiveContextPos
<1>4. QED
  BY <1>3 DEF ActiveWith, ActiveIn

(***************************************************************************)
(* get_next_inactive_context_pos finds an inactive slot if there is one.   *)
(***************************************************************************)
LEMMA NextInactiveIsInactive ==
  ASSUME NEW cs, InactiveSlots(cs) # {}
  PROVE  /\ GetNextInactiveContextPos(cs) \in Slots
         /\ cs[GetNextInactiveContextPos(cs)].state = "Inactive"
<1>1. InactiveSlots(cs) \in SUBSET Slots
  BY DEF InactiveSlots
<1>2. GetNextInactiveContextPos(cs) \in InactiveSlots(cs)
  BY <1>1, LowestIsMember DEF GetNextInactiveContextPos
<1>3. QED
  BY <1>2 DEF InactiveSlots

-----------------------------------------------------------------------------
(***************************************************************************)
(* Reachable is the least set of slots that contains start and is closed   *)
(* under next.                                                             *)
(***************************************************************************)
LEMMA ReachableIsClosed ==
  ASSUME NEW start \in SUBSET Slots, NEW next \in [Slots -> SUBSET Slots]
  PROVE  /\ Reachable(start, next) \subseteq Slots
         /\ start \subseteq Reachable(start, next)
         /\ \A j \in Reachable(start, next) : next[j] \subseteq Reachable(start, next)
<1>1. Reachable(start, next) \subseteq Slots /\ start \subseteq Reachable(start, next)
  BY DEF Reachable
<1>2. ASSUME NEW j \in Reachable(start, next), NEW k \in next[j]
      PROVE  k \in Reachable(start, next)
  <2>1. j \in Slots /\ k \in Slots
    BY DEF Reachable
  <2>2. ASSUME NEW D \in SUBSET Slots, start \subseteq D, \A i \in D : next[i] \subseteq D
        PROVE  k \in D
    <3>1. j \in D
      BY <2>2 DEF Reachable
    <3>2. QED
      BY <2>2, <3>1
  <2>3. QED
    BY <2>1, <2>2 DEF Reachable
<1>3. QED
  BY <1>1, <1>2

(* A set that holds the start and is closed under the links holds all that is reachable. *)
LEMMA ReachableIsLeast ==
  ASSUME NEW start, NEW next, NEW D \in SUBSET Slots,
         start \subseteq D, \A j \in D : next[j] \subseteq D
  PROVE  Reachable(start, next) \subseteq D
BY DEF Reachable

-----------------------------------------------------------------------------
(***************************************************************************)
(* Types.                                                                  *)
(***************************************************************************)
LEMMA DestroyedType ==
  ASSUME NEW c \in Context
  PROVE  Destroyed(c) \in Context
<1>1. INVALID \in Handles /\ 0 \in TciTypes /\ 0 \in Localities
  BY ResetValuesAssumption DEF Handles
<1>2. << >> \in Seq(Measurements)
  OBVIOUS
<1>3. "Inactive" \in ContextState
  BY DEF ContextState
<1>4. QED
  BY <1>1, <1>2, <1>3 DEF Destroyed, Context

(* add_tci_measurement keeps a node typed. *)
LEMMA MeasuredType ==
  ASSUME NEW c \in Context, NEW m \in Measurements
  PROVE  Measured(c, m) \in Context
<1>1. Append(c.tci_cumulative, m) \in Seq(Measurements)
  BY DEF Context
<1>2. QED
  BY <1>1 DEF Measured, Context

(***************************************************************************)
(* destroy_context yields an array of contexts again.                      *)
(***************************************************************************)
LEMMA DestroyContextType ==
  ASSUME NEW cs \in [Slots -> Context], NEW i \in Slots
  PROVE  DestroyContext(cs, i) \in [Slots -> Context]
<1>1. ASSUME NEW k \in Slots
      PROVE  [cs[k] EXCEPT !.children = @ \ ToDestroy(cs, i)] \in Context
  BY DEF Context
<1>2. QED
  BY <1>1, DestroyedType DEF DestroyContext

-----------------------------------------------------------------------------
(***************************************************************************)
(* Handles and responses.                                                  *)
(***************************************************************************)
LEMMA NewHandleType ==
  ASSUME NEW cs, NEW seen, NEW h \in GenerateNewHandle(cs, seen)
  PROVE  h \in Handles \cup {NO_HANDLE}
BY DEF GenerateNewHandle, Handles

(* What roll_onetime_use_handle leaves in a slot is a handle. *)
LEMMA RolledHandleType ==
  ASSUME NEW cs, NEW c, NEW seen, NEW h \in RollOnetimeUseHandle(cs, c, seen)
  PROVE  h \in Handles \cup {NO_HANDLE}
BY NewHandleType DEF RollOnetimeUseHandle, Handles

(* The handle DeriveContext gives a parent it rolls is a handle. *)
LEMMA ParentHandleType ==
  ASSUME NEW parent, NEW flags, NEW h \in ParentHandles(parent, flags)
  PROVE  h \in Handles \cup {NO_HANDLE}
BY RolledHandleType DEF ParentHandles, Handles

(* A response built from typed fields is one of Responses. *)
LEMMA ResponseType ==
  ASSUME NEW cmd \in Commands, NEW l \in Localities, NEW h \in Handles \cup {NO_HANDLE},
         NEW status \in Statuses, NEW nh \in Handles \cup {NO_HANDLE},
         NEW ph \in Handles \cup {NO_HANDLE},
         Respond(cmd, l, h, status, nh, ph)
  PROVE  resp' \in Response
BY DEF Respond, Response

(* What the caller receives, the response or InvalidResponseBuf, is typed. *)
LEMMA DeliveryType ==
  ASSUME NEW cmd \in Commands, NEW l \in Localities, NEW h \in Handles \cup {NO_HANDLE},
         NEW nh \in Handles \cup {NO_HANDLE}, NEW ph \in Handles \cup {NO_HANDLE}, NEW fits,
         Deliver(cmd, l, h, nh, ph, fits)
  PROVE  resp' \in Response
BY DEF Deliver, Respond, Response, Statuses

(* An error response is typed. *)
LEMMA RejectionType ==
  ASSUME TypeOK,
         NEW cmd \in Commands, NEW l \in Localities, NEW h \in Handles \cup {NO_HANDLE},
         NEW status \in Statuses, Reject(cmd, l, h, status)
  PROVE  TypeOK'
<1>1. resp' \in Response
  BY ResponseType DEF Reject
<1>2. QED
  BY <1>1 DEF Reject, state_vars, TypeOK

(***************************************************************************)
(* The statuses the checks answer with.                                    *)
(***************************************************************************)
LEMMA StatusTypes ==
  ASSUME NEW l, NEW h, NEW flags, NEW t, NEW target, NEW ok, NEW fits, NEW p, NEW format
  PROVE  /\ LookupStatus(contexts, h, l) \in Statuses
         /\ InitializeStatus(flags) \in Statuses
         /\ DeriveStatus(l, h, flags, t, target) \in Statuses
         /\ ChildStatus(p, flags, target) \in Statuses
         /\ DestroyStatus(l, h) \in Statuses
         /\ RotateStatus(l, h, ok) \in Statuses
         /\ UpdateStatus(l, h, t) \in Statuses
         /\ SignStatus(l, h, ok) \in Statuses
         /\ CertifyKeyStatus(l, h, format, ok, fits) \in Statuses
<1> USE DEF Statuses
<1>1. LookupStatus(contexts, h, l) \in Statuses
  BY DEF LookupStatus
<1>2. InitializeStatus(flags) \in Statuses
  BY DEF InitializeStatus
<1>3. DeriveStatus(l, h, flags, t, target) \in Statuses
  BY <1>1 DEF DeriveStatus, RecursiveStatus
<1>4. ChildStatus(p, flags, target) \in Statuses
  BY DEF ChildStatus
<1>5. DestroyStatus(l, h) \in Statuses
  BY <1>1 DEF DestroyStatus, DescendantsStatus
<1>6. RotateStatus(l, h, ok) \in Statuses
  BY <1>1 DEF RotateStatus
<1>7. UpdateStatus(l, h, t) \in Statuses
  BY DEF UpdateStatus
<1>8. \A i : LineageStatus(contexts, i) \in Statuses
  BY DEF LineageStatus
<1>9. SignStatus(l, h, ok) \in Statuses
  BY <1>1, <1>8 DEF SignStatus
<1>10. CertifyKeyStatus(l, h, format, ok, fits) \in Statuses
  BY <1>1, <1>8 DEF CertifyKeyStatus
<1>11. QED
  BY <1>1, <1>2, <1>3, <1>4, <1>5, <1>6, <1>7, <1>9, <1>10

-----------------------------------------------------------------------------
(***************************************************************************)
(* Contexts.                                                               *)
(***************************************************************************)
LEMMA RootContextType ==
  ASSUME NEW type \in ContextType, NEW l \in Localities, NEW h \in Handles
  PROVE  RootContext(type, l, h) \in Context
<1>1. 0 \in TciTypes /\ << >> \in Seq(Measurements) /\ "Active" \in ContextState
  BY ResetValuesAssumption DEF ContextState
<1>2. QED
  BY <1>1 DEF RootContext, Activated, Context

(* The child that DeriveContext activates is a context. *)
LEMMA ChildContextType ==
  ASSUME TypeOK, NEW p \in Slots, NEW flags, NEW t \in TciTypes, NEW l \in Localities,
         NEW h \in Handles
  PROVE  ChildContext(p, flags, t, l, h) \in Context
<1>1. << >> \in Seq(Measurements) /\ "Active" \in ContextState
  BY DEF ContextState
<1>2. /\ contexts[p].context_type \in ContextType
      /\ contexts[p].allow_export_cdi \in BOOLEAN
      /\ contexts[p].allow_recursive \in BOOLEAN
  BY DEF TypeOK, Context
<1>3. QED
  BY <1>1, <1>2 DEF ChildContext, Activated, Context

(* DeriveContext's copy of the parent is a context. *)
LEMMA TmpParentType ==
  ASSUME NEW parent \in Context, NEW flags, NEW h \in Handles
  PROVE  TmpParent(parent, flags, h) \in Context
BY DEF TmpParent, Context, ContextState

(* A context under a new handle is a context. *)
LEMMA RehandledType ==
  ASSUME NEW c \in Context, NEW h \in Handles
  PROVE  [c EXCEPT !.handle = h] \in Context
BY DEF Context

(* A context with one more child in its bitmap is a context. *)
LEMMA WithChildType ==
  ASSUME TypeOK, NEW p \in Slots, NEW c \in Slots, NEW parent \in Context, NEW child \in Context
  PROVE  WithChild(p, c, parent, child) \in [Slots -> Context]
<1>1. [parent EXCEPT !.children = @ \cup {c}] \in Context
  BY DEF Context
<1>2. QED
  BY <1>1 DEF WithChild, TypeOK

-----------------------------------------------------------------------------
(***************************************************************************)
(* Every command keeps the types.                                          *)
(***************************************************************************)
LEMMA InitializeType ==
  ASSUME TypeOK, NEW l \in Localities, Initialize(l)
  PROVE  TypeOK'
<1>1. ASSUME NEW flags, InitializeRejected(l, flags)
      PROVE  TypeOK'
  BY <1>1, StatusTypes, RejectionType DEF InitializeRejected, Commands
<1>2. ASSUME NEW fits, InitializeDefault(l, fits)
      PROVE  TypeOK'
  <2>1. RootContext("Normal", l, DEFAULT) \in Context
    BY RootContextType DEF ContextType, Handles
  <2>2. contexts' \in [Slots -> Context] /\ has_initialized' \in BOOLEAN
    BY <1>2, <2>1 DEF InitializeDefault, TypeOK
  <2>3. resp' \in Response
    BY <1>2, DeliveryType DEF InitializeDefault, Commands, Handles
  <2>4. QED
    BY <1>2, <2>2, <2>3 DEF InitializeDefault, TypeOK
<1>3. ASSUME NEW fits, InitializeSimulation(l, fits)
      PROVE  TypeOK'
  <2>1. PICK h \in GenerateNewHandle(contexts, {}) :
          \/ h = NO_HANDLE /\ Reject("InitializeContext", l, NO_HANDLE, "InternalError")
          \/ /\ h # NO_HANDLE
             /\ contexts' = [contexts EXCEPT ![GetNextInactiveContextPos(contexts)] =
                                                RootContext("Simulation", l, h)]
             /\ Deliver("InitializeContext", l, NO_HANDLE, h, NO_HANDLE, fits)
             /\ UNCHANGED << has_initialized, export_cdi_slots >>
    BY <1>3 DEF InitializeSimulation
  <2>2. CASE h = NO_HANDLE
    BY <2>1, <2>2, RejectionType DEF Commands, Statuses
  <2>3. CASE h # NO_HANDLE
    <3>1. h \in Handles
      BY <2>3, NewHandleType
    <3>2. RootContext("Simulation", l, h) \in Context
      BY <3>1, RootContextType DEF ContextType
    <3>3. resp' \in Response
      BY <2>1, <2>3, <3>1, DeliveryType DEF Commands
    <3>4. QED
      BY <2>1, <2>3, <3>2, <3>3 DEF TypeOK
  <2>4. QED
    BY <2>2, <2>3
<1>4. QED
  BY <1>1, <1>2, <1>3 DEF Initialize

(* DeriveContext with the recursive flag keeps the state typed. *)
LEMMA DeriveRecursiveType ==
  ASSUME TypeOK, NEW l \in Localities, NEW h \in Handles, NEW flags, NEW t, NEW target,
         NEW m \in Measurements, NEW ok, NEW fits,
         DeriveRecursive(l, h, flags, t, target, m, ok, fits)
  PROVE  TypeOK'
<1> DEFINE p == GetActiveContextPos(contexts, h, l)
<1>1. p \in Slots
  <2>1. LookupStatus(contexts, h, l) = "NoError"
    BY DEF DeriveRecursive, DeriveStatus
  <2>2. QED
    BY <2>1, LookupFinds DEF TypeOK
<1>2. CASE Reject("DeriveContext", l, h, "CryptoError")
  BY <1>2, RejectionType DEF Commands, Statuses
<1>3. CASE \E nh \in RollOnetimeUseHandle(contexts, contexts[p], {}) :
             \/ nh = NO_HANDLE /\ Reject("DeriveContext", l, h, "InternalError")
             \/ /\ nh # NO_HANDLE
                /\ contexts' = [contexts EXCEPT
                                  ![p] = [Measured(@, m) EXCEPT !.handle = nh]]
                /\ Deliver("DeriveContext", l, h, nh, DEFAULT, fits)
                /\ UNCHANGED << has_initialized, export_cdi_slots >>
  <2>1. PICK nh \in RollOnetimeUseHandle(contexts, contexts[p], {}) :
             \/ nh = NO_HANDLE /\ Reject("DeriveContext", l, h, "InternalError")
             \/ /\ nh # NO_HANDLE
                /\ contexts' = [contexts EXCEPT
                                  ![p] = [Measured(@, m) EXCEPT !.handle = nh]]
                /\ Deliver("DeriveContext", l, h, nh, DEFAULT, fits)
                /\ UNCHANGED << has_initialized, export_cdi_slots >>
    BY <1>3
  <2>2. CASE nh = NO_HANDLE
    BY <2>1, <2>2, RejectionType DEF Commands, Statuses
  <2>3. CASE nh # NO_HANDLE
    <3>1. nh \in Handles
      BY <2>3, RolledHandleType
    <3>2. [Measured(contexts[p], m) EXCEPT !.handle = nh] \in Context
      BY <1>1, <3>1, MeasuredType, RehandledType DEF TypeOK
    <3>3. contexts' \in [Slots -> Context]
      BY <1>1, <2>1, <2>3, <3>2 DEF TypeOK
    <3>4. resp' \in Response
      BY <2>1, <2>3, <3>1, DeliveryType DEF Commands, Handles
    <3>5. QED
      BY <2>1, <2>3, <3>3, <3>4 DEF TypeOK
  <2>4. QED
    BY <2>2, <2>3
<1>4. QED
  BY <1>2, <1>3 DEF DeriveRecursive

(* DeriveContext that creates a child keeps the state typed. *)
LEMMA DeriveChildType ==
  ASSUME TypeOK, NEW l \in Localities, NEW h \in Handles, NEW flags, NEW t \in TciTypes,
         NEW target \in Localities, NEW m \in Measurements, NEW ok, NEW fits,
         DeriveChild(l, h, flags, t, target, m, ok, fits)
  PROVE  TypeOK'
<1> DEFINE p == GetActiveContextPos(contexts, h, l)
           c == GetNextInactiveContextPos(contexts)
<1>1. p \in Slots
  <2>1. LookupStatus(contexts, h, l) = "NoError"
    BY DEF DeriveChild, DeriveStatus
  <2>2. QED
    BY <2>1, LookupFinds DEF TypeOK
<1>2. PICK ph \in ParentHandles(contexts[p], flags) :
           \/ ph = NO_HANDLE /\ Reject("DeriveContext", l, h, "InternalError")
           \/ /\ ph # NO_HANDLE /\ ChildStatus(p, flags, target) # "NoError"
              /\ Reject("DeriveContext", l, h, ChildStatus(p, flags, target))
           \/ /\ ph # NO_HANDLE /\ ChildStatus(p, flags, target) = "NoError"
              /\ \E ch \in ChildHandles(flags, ph) :
                   \/ ch = NO_HANDLE /\ Reject("DeriveContext", l, h, "InternalError")
                   \/ ch # NO_HANDLE /\ ~ok /\ Reject("DeriveContext", l, h, "CryptoError")
                   \/ /\ ch # NO_HANDLE /\ ok
                      /\ contexts' =
                           WithChild(p, c, TmpParent(contexts[p], flags, ph),
                                     Measured(ChildContext(p, flags, t, target, ch), m))
                      /\ Deliver("DeriveContext", l, h, ch, ph, fits)
                      /\ UNCHANGED << has_initialized, export_cdi_slots >>
  BY DEF DeriveChild
<1>3. CASE \E status \in Statuses : Reject("DeriveContext", l, h, status)
  BY <1>3, RejectionType DEF Commands
<1>4. CASE /\ ph # NO_HANDLE /\ ChildStatus(p, flags, target) = "NoError"
           /\ \E ch \in ChildHandles(flags, ph) :
                /\ ch # NO_HANDLE
                /\ contexts' = WithChild(p, c, TmpParent(contexts[p], flags, ph),
                                         Measured(ChildContext(p, flags, t, target, ch), m))
                /\ Deliver("DeriveContext", l, h, ch, ph, fits)
                /\ UNCHANGED << has_initialized, export_cdi_slots >>
  <2>1. PICK ch \in ChildHandles(flags, ph) :
                /\ ch # NO_HANDLE
                /\ contexts' = WithChild(p, c, TmpParent(contexts[p], flags, ph),
                                         Measured(ChildContext(p, flags, t, target, ch), m))
                /\ Deliver("DeriveContext", l, h, ch, ph, fits)
                /\ UNCHANGED << has_initialized, export_cdi_slots >>
    BY <1>4
  <2>2. ch \in Handles /\ ph \in Handles
    BY <1>4, <2>1, NewHandleType, ParentHandleType DEF ChildHandles, Handles
  <2>3. c \in Slots
    BY <1>4, NextInactiveIsInactive DEF ChildStatus
  <2>4. TmpParent(contexts[p], flags, ph) \in Context
    BY <1>1, <2>2, TmpParentType DEF TypeOK
  <2>5. Measured(ChildContext(p, flags, t, target, ch), m) \in Context
    BY <1>1, <2>2, ChildContextType, MeasuredType
  <2>6. contexts' \in [Slots -> Context]
    BY <1>1, <2>1, <2>3, <2>4, <2>5, WithChildType
  <2>7. resp' \in Response
    BY <2>1, <2>2, DeliveryType DEF Commands
  <2>8. QED
    BY <2>1, <2>6, <2>7 DEF TypeOK
<1>5. QED
  BY <1>2, <1>3, <1>4, StatusTypes DEF Statuses

(***************************************************************************)
(* The crypto layer never holds more CDIs than it has slots.               *)
(***************************************************************************)
LEMMA ExportFits ==
  ASSUME TypeOK, NEW cdi, ~ExportRefused(cdi)
  PROVE  /\ IsFiniteSet(export_cdi_slots \cup {cdi})
         /\ Cardinality(export_cdi_slots \cup {cdi}) <= MAX_CDI_HANDLES
<1>1. IsFiniteSet(export_cdi_slots) /\ Cardinality(export_cdi_slots) \in Nat
  BY FS_CardinalityType DEF TypeOK
<1>2. cdi \notin export_cdi_slots /\ ~(Cardinality(export_cdi_slots) >= MAX_CDI_HANDLES)
  BY DEF ExportRefused
<1>3. /\ IsFiniteSet(export_cdi_slots \cup {cdi})
      /\ Cardinality(export_cdi_slots \cup {cdi}) = Cardinality(export_cdi_slots) + 1
  BY <1>1, <1>2, FS_AddElement
<1>4. QED
  BY <1>1, <1>2, <1>3, BoundsAssumption

(* DeriveContext that exports a CDI keeps the state typed. *)
LEMMA DeriveExportedCdiType ==
  ASSUME TypeOK, NEW l \in Localities, NEW h \in Handles, NEW flags, NEW t, NEW outcome,
         NEW fits, NEW hdr_fits, DeriveExportedCdi(l, h, flags, t, outcome, fits, hdr_fits)
  PROVE  TypeOK'
<1> DEFINE p   == GetActiveContextPos(contexts, h, l)
           cdi == MeasurementHash(contexts, p)
<1>1. p \in Slots
  <2>1. LookupStatus(contexts, h, l) = "NoError"
    BY DEF DeriveExportedCdi, DeriveStatus
  <2>2. QED
    BY <2>1, LookupFinds DEF TypeOK
<1>2. CASE \E status \in Statuses : Reject("DeriveContext", l, h, status)
  BY <1>2, RejectionType DEF Commands
<1>3. CASE /\ ~ExportRefused(cdi)
           /\ export_cdi_slots' = export_cdi_slots \cup {cdi}
           /\ Respond("DeriveContext", l, h, "CryptoError", NO_HANDLE, NO_HANDLE)
           /\ UNCHANGED << contexts, has_initialized >>
  <2>1. resp' \in Response
    BY <1>3, ResponseType DEF Commands, Statuses
  <2>2. QED
    BY <1>3, <2>1, ExportFits DEF TypeOK
<1>4. CASE \E ph \in ParentHandles(contexts[p], flags) :
             /\ ph # NO_HANDLE /\ ~ExportRefused(cdi)
             /\ export_cdi_slots' = export_cdi_slots \cup {cdi}
             /\ contexts' = ParentAfterExport(p, flags, ph)
             /\ Deliver("DeriveContext", l, h, INVALID, contexts'[p].handle, hdr_fits)
             /\ UNCHANGED has_initialized
  <2>1. PICK ph \in ParentHandles(contexts[p], flags) :
             /\ ph # NO_HANDLE /\ ~ExportRefused(cdi)
             /\ export_cdi_slots' = export_cdi_slots \cup {cdi}
             /\ contexts' = ParentAfterExport(p, flags, ph)
             /\ Deliver("DeriveContext", l, h, INVALID, contexts'[p].handle, hdr_fits)
             /\ UNCHANGED has_initialized
    BY <1>4
  <2>2. ph \in Handles
    BY <2>1, ParentHandleType
  <2>3. TmpParent(contexts[p], flags, ph) \in Context
    BY <1>1, <2>2, TmpParentType DEF TypeOK
  <2>4. contexts' \in [Slots -> Context]
    BY <1>1, <2>1, <2>3, DestroyContextType DEF ParentAfterExport, TypeOK
  <2>5. contexts'[p].handle \in Handles
    BY <1>1, <2>4 DEF Context
  <2>6. resp' \in Response
    BY <2>1, <2>5, DeliveryType DEF Commands, Handles
  <2>7. QED
    BY <2>1, <2>4, <2>6, ExportFits DEF TypeOK
<1>5. QED
  BY <1>2, <1>3, <1>4 DEF DeriveExportedCdi, Statuses

(* Every outcome of DeriveContext keeps the state typed. *)
LEMMA DeriveType ==
  ASSUME TypeOK, NEW l \in Localities, NEW h \in Handles, Derive(l, h)
  PROVE  TypeOK'
<1>1. ASSUME NEW flags, NEW t, NEW target, DeriveRejected(l, h, flags, t, target)
      PROVE  TypeOK'
  BY <1>1, StatusTypes, RejectionType DEF DeriveRejected, Commands
<1>2. \A flags : TargetLocalities(l, flags) \subseteq Localities
  BY DEF TargetLocalities
<1>3. QED
  BY <1>1, <1>2, DeriveRecursiveType, DeriveChildType, DeriveExportedCdiType DEF Derive

(* Every outcome of DestroyContext keeps the state typed. *)
LEMMA DestroyType ==
  ASSUME TypeOK, NEW l \in Localities, NEW h \in Handles, Destroy(l, h)
  PROVE  TypeOK'
<1>1. CASE DestroyRejected(l, h)
  BY <1>1, StatusTypes, RejectionType DEF DestroyRejected, Commands
<1>2. ASSUME NEW fits, DestroyCtx(l, h, fits)
      PROVE  TypeOK'
  <2>1. LookupStatus(contexts, h, l) = "NoError"
    BY <1>2 DEF DestroyCtx, DestroyStatus
  <2>2. contexts' \in [Slots -> Context]
    BY <1>2, <2>1, LookupFinds, DestroyContextType DEF DestroyCtx, TypeOK
  <2>3. resp' \in Response
    BY <1>2, DeliveryType DEF DestroyCtx, Commands
  <2>4. QED
    BY <1>2, <2>2, <2>3 DEF DestroyCtx, TypeOK
<1>3. QED
  BY <1>1, <1>2 DEF Destroy

(* Every outcome of RotateContextHandle keeps the state typed. *)
LEMMA RotateType ==
  ASSUME TypeOK, NEW l \in Localities, NEW h \in Handles, Rotate(l, h)
  PROVE  TypeOK'
<1>1. ASSUME NEW to_default, RotateRejected(l, h, to_default)
      PROVE  TypeOK'
  BY <1>1, StatusTypes, RejectionType DEF RotateRejected, Commands
<1>2. ASSUME NEW to_default, NEW fits, RotateCtx(l, h, to_default, fits)
      PROVE  TypeOK'
  <2> DEFINE i == GetActiveContextPos(contexts, h, l)
  <2>1. LookupStatus(contexts, h, l) = "NoError"
    BY <1>2 DEF RotateCtx, RotateStatus
  <2>2. i \in Slots
    BY <2>1, LookupFinds DEF TypeOK
  <2>3. PICK nh \in IF to_default THEN {DEFAULT} ELSE GenerateNewHandle(contexts, {}) :
          \/ nh = NO_HANDLE /\ Reject("RotateContextHandle", l, h, "InternalError")
          \/ /\ nh # NO_HANDLE
             /\ contexts' = [contexts EXCEPT ![i].handle = nh]
             /\ Deliver("RotateContextHandle", l, h, nh, NO_HANDLE, fits)
             /\ UNCHANGED << has_initialized, export_cdi_slots >>
    BY <1>2 DEF RotateCtx
  <2>4. CASE nh = NO_HANDLE /\ Reject("RotateContextHandle", l, h, "InternalError")
    BY <2>4, RejectionType DEF Commands, Statuses
  <2>5. CASE /\ nh # NO_HANDLE
             /\ contexts' = [contexts EXCEPT ![i].handle = nh]
             /\ Deliver("RotateContextHandle", l, h, nh, NO_HANDLE, fits)
             /\ UNCHANGED << has_initialized, export_cdi_slots >>
    <3>1. nh \in Handles
      BY <2>3, <2>5, NewHandleType DEF Handles
    <3>2. contexts' \in [Slots -> Context]
      BY <2>2, <2>5, <3>1, RehandledType DEF TypeOK
    <3>3. resp' \in Response
      BY <2>5, <3>1, DeliveryType DEF Commands
    <3>4. QED
      BY <2>5, <3>2, <3>3 DEF TypeOK
  <2>6. QED
    BY <2>3, <2>4, <2>5
<1>3. QED
  BY <1>1, <1>2 DEF Rotate

(* Every outcome of UpdateContextMeasurement keeps the state typed. *)
LEMMA UpdateType ==
  ASSUME TypeOK, NEW l \in Localities, NEW h \in Handles, Update(l, h)
  PROVE  TypeOK'
<1>1. ASSUME NEW t, UpdateRejected(l, h, t)
      PROVE  TypeOK'
  BY <1>1, StatusTypes, RejectionType DEF UpdateRejected, Commands
<1>2. ASSUME NEW t, NEW m \in Measurements, NEW ok, NEW fits,
             UpdateContextMeasurement(l, h, t, m, ok, fits)
      PROVE  TypeOK'
  <2> DEFINE p == GetActiveContextPos(contexts, h, l)
             c == Lowest(ChildrenOfType(p, t))
             Rolled(ph) == [contexts EXCEPT ![p].handle = ph]
  <2>1. LookupStatus(contexts, h, l) = "NoError" /\ ChildrenOfType(p, t) # {}
    BY <1>2 DEF UpdateContextMeasurement, UpdateStatus
  <2>2. p \in Slots
    BY <2>1, LookupFinds DEF TypeOK
  <2>3. ChildrenOfType(p, t) \in SUBSET Slots
    BY <2>2 DEF ChildrenOfType, TypeOK, Context
  <2>4. c \in Slots
    BY <2>1, <2>3, LowestIsMember
  <2>5. CASE \E status \in Statuses : Reject("UpdateContextMeasurement", l, h, status)
    BY <2>5, RejectionType DEF Commands
  <2>6. CASE \E ph \in RollOnetimeUseHandle(contexts, contexts[p], {}) :
               /\ ph # NO_HANDLE
               /\ UNCHANGED << has_initialized, export_cdi_slots >>
               /\ \E ch \in RollOnetimeUseHandle(Rolled(ph), contexts[c], {h}) :
                     \/ /\ ch = NO_HANDLE
                        /\ contexts' = Rolled(ph)
                        /\ Respond("UpdateContextMeasurement", l, h, "InternalError",
                                   NO_HANDLE, NO_HANDLE)
                     \/ /\ ch # NO_HANDLE
                        /\ contexts' = [Rolled(ph) EXCEPT
                             ![c] = [Measured(@, m) EXCEPT !.handle = ch]]
                        /\ Deliver("UpdateContextMeasurement", l, h, ch, ph, fits)
    <3>1. PICK ph \in RollOnetimeUseHandle(contexts, contexts[p], {}) :
               /\ ph # NO_HANDLE
               /\ UNCHANGED << has_initialized, export_cdi_slots >>
               /\ \E ch \in RollOnetimeUseHandle(Rolled(ph), contexts[c], {h}) :
                     \/ /\ ch = NO_HANDLE
                        /\ contexts' = Rolled(ph)
                        /\ Respond("UpdateContextMeasurement", l, h, "InternalError",
                                   NO_HANDLE, NO_HANDLE)
                     \/ /\ ch # NO_HANDLE
                        /\ contexts' = [Rolled(ph) EXCEPT
                             ![c] = [Measured(@, m) EXCEPT !.handle = ch]]
                        /\ Deliver("UpdateContextMeasurement", l, h, ch, ph, fits)
      BY <2>6
    <3>2. ph \in Handles
      BY <3>1, RolledHandleType
    <3>3. Rolled(ph) \in [Slots -> Context]
      BY <2>2, <3>2, RehandledType DEF TypeOK
    <3>4. CASE /\ contexts' = Rolled(ph)
               /\ Respond("UpdateContextMeasurement", l, h, "InternalError",
                          NO_HANDLE, NO_HANDLE)
      <4>1. resp' \in Response
        BY <3>4, ResponseType DEF Commands, Statuses
      <4>2. QED
        BY <3>1, <3>3, <3>4, <4>1 DEF TypeOK
    <3>5. ASSUME NEW ch \in RollOnetimeUseHandle(Rolled(ph), contexts[c], {h}),
                 ch # NO_HANDLE,
                 contexts' = [Rolled(ph) EXCEPT
                                ![c] = [Measured(@, m) EXCEPT !.handle = ch]],
                 Deliver("UpdateContextMeasurement", l, h, ch, ph, fits)
          PROVE  TypeOK'
      <4>1. ch \in Handles
        BY <3>5, RolledHandleType
      <4>2. [Measured(Rolled(ph)[c], m) EXCEPT !.handle = ch] \in Context
        BY <2>4, <3>3, <4>1, MeasuredType, RehandledType
      <4>3. contexts' \in [Slots -> Context]
        <5> HIDE DEF Rolled
        <5> QED
          BY <2>4, <3>3, <3>5, <4>2
      <4>4. resp' \in Response
        BY <3>2, <3>5, <4>1, DeliveryType DEF Commands
      <4>5. QED
        BY <3>1, <4>3, <4>4 DEF TypeOK
    <3>6. QED
      BY <3>1, <3>4, <3>5
  <2>7. QED
    BY <1>2, <2>5, <2>6 DEF UpdateContextMeasurement, Statuses
<1>3. QED
  BY <1>1, <1>2 DEF Update

(* Every outcome of Sign and of CertifyKey keeps the state typed. *)
LEMMA UseKeyType ==
  ASSUME TypeOK, NEW l \in Localities, NEW h \in Handles, UseKey(l, h)
  PROVE  TypeOK'
<1> DEFINE i == GetActiveContextPos(contexts, h, l)
<1>1. ASSUME NEW nh \in RollOnetimeUseHandle(contexts, contexts[i], {}), nh # NO_HANDLE,
             LookupStatus(contexts, h, l) = "NoError",
             NEW cmd \in Commands, NEW status \in Statuses, NEW told \in {nh, NO_HANDLE},
             contexts' = [contexts EXCEPT ![i].handle = nh],
             Respond(cmd, l, h, status, told, NO_HANDLE),
             UNCHANGED << has_initialized, export_cdi_slots >>
      PROVE  TypeOK'
  <2>1. i \in Slots /\ nh \in Handles
    BY <1>1, LookupFinds, RolledHandleType DEF TypeOK
  <2>2. contexts' \in [Slots -> Context]
    BY <1>1, <2>1, RehandledType DEF TypeOK
  <2>3. resp' \in Response
    BY <1>1, <2>1, ResponseType
  <2>4. QED
    BY <1>1, <2>2, <2>3 DEF TypeOK
<1>2. ASSUME NEW ok, SignRejected(l, h, ok)
      PROVE  TypeOK'
  BY <1>2, StatusTypes, RejectionType DEF SignRejected, Commands
<1>3. ASSUME NEW fits, Sign(l, h, fits)
      PROVE  TypeOK'
  <2>1. LookupStatus(contexts, h, l) = "NoError"
    BY <1>3 DEF Sign, SignStatus
  <2>2. CASE \E status \in Statuses : Reject("Sign", l, h, status)
    BY <2>2, RejectionType DEF Commands
  <2>3. CASE \E nh \in RollOnetimeUseHandle(contexts, contexts[i], {}) :
               /\ nh # NO_HANDLE
               /\ contexts' = [contexts EXCEPT ![i].handle = nh]
               /\ Respond("Sign", l, h, "NoError", nh, NO_HANDLE)
               /\ UNCHANGED << has_initialized, export_cdi_slots >>
    BY <1>1, <2>1, <2>3 DEF Commands, Statuses
  <2>4. QED
    BY <1>3, <2>2, <2>3 DEF Sign, Statuses
<1>4. ASSUME NEW format, NEW ok, NEW fits, CertifyKeyRejected(l, h, format, ok, fits)
      PROVE  TypeOK'
  BY <1>4, StatusTypes, RejectionType DEF CertifyKeyRejected, Commands
<1>5. ASSUME NEW format, NEW hdr_fits, CertifyKey(l, h, format, hdr_fits)
      PROVE  TypeOK'
  <2>1. LookupStatus(contexts, h, l) = "NoError"
    BY <1>5 DEF CertifyKey, CertifyKeyStatus
  <2>2. CASE Reject("CertifyKey", l, h, "InternalError")
    BY <2>2, RejectionType DEF Commands, Statuses
  <2>3. CASE \E nh \in RollOnetimeUseHandle(contexts, contexts[i], {}) :
               /\ nh # NO_HANDLE
               /\ contexts' = [contexts EXCEPT ![i].handle = nh]
               /\ Deliver("CertifyKey", l, h, nh, NO_HANDLE, hdr_fits)
               /\ UNCHANGED << has_initialized, export_cdi_slots >>
    BY <1>1, <2>1, <2>3 DEF Commands, Statuses, Deliver
  <2>4. QED
    BY <1>5, <2>2, <2>3 DEF CertifyKey
<1>6. QED
  BY <1>2, <1>3, <1>4, <1>5 DEF UseKey

(* GetProfile and GetCertificateChain keep the state typed. *)
LEMMA QueryType ==
  ASSUME TypeOK, NEW l \in Localities, Query(l)
  PROVE  TypeOK'
<1>1. UNCHANGED << contexts, has_initialized, export_cdi_slots >>
  BY DEF Query, GetProfile, GetCertificateChain, state_vars
<1>2. resp' \in Response
  <2>1. ASSUME NEW ok, NEW fits, GetProfile(l, ok, fits)
        PROVE  resp' \in Response
    BY <2>1, ResponseType, DeliveryType DEF GetProfile, Commands, Statuses
  <2>2. ASSUME NEW oversized, NEW ok, NEW fits, GetCertificateChain(l, oversized, ok, fits)
        PROVE  resp' \in Response
    BY <2>2, ResponseType, DeliveryType DEF GetCertificateChain, Commands, Statuses
  <2>3. QED
    BY <2>1, <2>2 DEF Query
<1>3. QED
  BY <1>1, <1>2 DEF TypeOK

-----------------------------------------------------------------------------
(* Both ways DpeInstance::new starts give a typed state. *)
LEMMA InitType == Init => TypeOK
<1> SUFFICES ASSUME Init
             PROVE  TypeOK
  OBVIOUS
<1>1. NewContext \in Context
  BY ResetValuesAssumption
     DEF NewContext, Context, Handles, ContextType, ContextState
<1>2. StateNew \in [Slots -> Context]
  BY <1>1 DEF StateNew
<1>3. ASSUME NEW root \in AutoInitRoots
      PROVE  root \in Context
  <2>1. RootContext("Normal", AutoInitLocality, DEFAULT) \in Context
    BY RootContextType, InputsAssumption DEF ContextType, Handles
  <2>2. ASSUME NEW m \in Measurements, NEW t \in TciTypes
        PROVE  [Measured(RootContext("Normal", AutoInitLocality, DEFAULT), m)
                  EXCEPT !.tci_type = t] \in Context
    <3>1. Measured(RootContext("Normal", AutoInitLocality, DEFAULT), m) \in Context
      BY <2>1, MeasuredType
    <3>2. QED
      BY <3>1 DEF Context
  <2>3. QED
    BY <2>1, <2>2 DEF AutoInitRoots
<1>4. contexts \in [Slots -> Context] /\ has_initialized \in BOOLEAN
  BY <1>2, <1>3 DEF Init
<1>5. IsFiniteSet(export_cdi_slots) /\ Cardinality(export_cdi_slots) <= MAX_CDI_HANDLES
  BY FS_EmptySet, BoundsAssumption DEF Init
<1>6. resp \in Response
  BY InputsAssumption DEF Init, NoResponse, Response, Commands, Statuses
<1>7. QED
  BY <1>4, <1>5, <1>6 DEF TypeOK

(* Every step keeps the state typed. *)
LEMMA TypeStep ==
  ASSUME TypeOK, [Next]_vars
  PROVE  TypeOK'
<1>1. ASSUME NEW l \in Localities, Initialize(l)
      PROVE  TypeOK'
  BY <1>1, InitializeType
<1>2. ASSUME NEW l \in Localities, Query(l)
      PROVE  TypeOK'
  BY <1>2, QueryType
<1>3. ASSUME NEW l \in Localities, NEW h \in Handles, Derive(l, h)
      PROVE  TypeOK'
  BY <1>3, DeriveType
<1>4. ASSUME NEW l \in Localities, NEW h \in Handles, Destroy(l, h)
      PROVE  TypeOK'
  BY <1>4, DestroyType
<1>5. ASSUME NEW l \in Localities, NEW h \in Handles, Rotate(l, h)
      PROVE  TypeOK'
  BY <1>5, RotateType
<1>6. ASSUME NEW l \in Localities, NEW h \in Handles, Update(l, h)
      PROVE  TypeOK'
  BY <1>6, UpdateType
<1>7. ASSUME NEW l \in Localities, NEW h \in Handles, UseKey(l, h)
      PROVE  TypeOK'
  BY <1>7, UseKeyType
<1>8. CASE UNCHANGED vars
  BY <1>8 DEF vars, TypeOK
<1>9. QED
  BY <1>1, <1>2, <1>3, <1>4, <1>5, <1>6, <1>7, <1>8 DEF Next

(***************************************************************************)
(* Every command keeps the type invariant of the instance's state and of   *)
(* its response: the context array holds contexts, the children bitmaps    *)
(* name slots, and the crypto layer's slots are never exceeded.            *)
(***************************************************************************)
THEOREM TypeCorrect == Spec => []TypeOK
BY InitType, TypeStep, PTL DEF Spec

-----------------------------------------------------------------------------
(***************************************************************************)
(* Handles or measurements of active contexts change, nothing else.        *)
(***************************************************************************)
Relabelled ==
  \A i \in Slots :
    /\ contexts'[i] = [contexts[i] EXCEPT
                         !.handle         = contexts'[i].handle,
                         !.tci_cumulative = contexts'[i].tci_cumulative]
    /\ contexts[i].state # "Active" => contexts'[i] = contexts[i]

(***************************************************************************)
(* InitializeContext takes a free slot.                                    *)
(***************************************************************************)
RootAdded ==
  \E i \in Slots, type \in ContextType, l \in Localities, h \in Handles :
    /\ contexts[i].state = "Inactive"
    /\ contexts' = [contexts EXCEPT ![i] = RootContext(type, l, h)]
    /\ type = "Normal" => ~has_initialized /\ has_initialized'
    /\ type = "Simulation" => "SIMULATION" \in Support

(***************************************************************************)
(* DeriveContext takes a free slot and links it to an active context,      *)
(* which is retired unless it is retained.                                 *)
(***************************************************************************)
ChildAdded ==
  \E p, c \in Slots, flags \in DeriveFlagSets, t \in TciTypes, l \in Localities :
  \E ph, ch \in Handles, m \in Measurements :
    /\ contexts[p].state = "Active" /\ contexts[c].state = "Inactive"
    /\ DeriveSupported(flags) /\ DerivePermitted(contexts[p], flags)
    /\ TciTypeIsUniqueAmongChildren(contexts[p], t)
    /\ "RETAIN_PARENT_CONTEXT" \notin flags => ph = INVALID
    /\ contexts' = WithChild(p, c, TmpParent(contexts[p], flags, ph),
                             Measured(ChildContext(p, flags, t, l, ch), m))

(***************************************************************************)
(* destroy_context of an active context.                                   *)
(***************************************************************************)
SubtreeDestroyed ==
  \E i \in Slots : contexts[i].state = "Active" /\ contexts' = DestroyContext(contexts, i)

(***************************************************************************)
(* An export retires an active context that has children, or gives it a    *)
(* new handle.                                                             *)
(***************************************************************************)
ParentReleased ==
  \E p \in Slots, flags \in DeriveFlagSets, ph \in Handles :
    /\ contexts[p].state = "Active"
    /\ "RETAIN_PARENT_CONTEXT" \notin flags => ph = INVALID /\ contexts[p].children # {}
    /\ contexts' = [contexts EXCEPT ![p] = TmpParent(@, flags, ph)]

Shape ==
  /\ has_initialized => has_initialized'
  /\ Relabelled \/ RootAdded \/ ChildAdded \/ SubtreeDestroyed \/ ParentReleased

-----------------------------------------------------------------------------
(***************************************************************************)
(* Steps that relabel.                                                     *)
(***************************************************************************)
LEMMA StutterRelabels ==
  ASSUME TypeOK, UNCHANGED contexts
  PROVE  Relabelled
<1>1. ASSUME NEW c \in Context
      PROVE  c = [c EXCEPT !.handle = c.handle, !.tci_cumulative = c.tci_cumulative]
  BY DEF Context
<1>2. QED
  BY <1>1 DEF Relabelled, TypeOK

(* Giving one context a new handle only relabels the array. *)
LEMMA RehandleRelabels ==
  ASSUME TypeOK, NEW i \in Slots, contexts[i].state = "Active", NEW h,
         contexts' = [contexts EXCEPT ![i].handle = h]
  PROVE  Relabelled
<1>1. ASSUME NEW c \in Context, NEW d, d = c \/ d = [c EXCEPT !.handle = h]
      PROVE  d = [c EXCEPT !.handle = d.handle, !.tci_cumulative = d.tci_cumulative]
  BY <1>1 DEF Context
<1>2. \A k \in Slots : contexts[k] \in Context
  BY DEF TypeOK
<1>3. \A k \in Slots :
        contexts'[k] = IF k = i THEN [contexts[k] EXCEPT !.handle = h] ELSE contexts[k]
  BY DEF TypeOK
<1>4. ASSUME NEW k \in Slots
      PROVE  /\ contexts'[k] = [contexts[k] EXCEPT
                                   !.handle         = contexts'[k].handle,
                                   !.tci_cumulative = contexts'[k].tci_cumulative]
             /\ contexts[k].state # "Active" => contexts'[k] = contexts[k]
  <2>1. contexts[k] \in Context
    BY <1>2
  <2>2. k # i => contexts'[k] = contexts[k]
    BY <1>3
  <2>3. k = i => contexts'[k] = [contexts[k] EXCEPT !.handle = h]
    BY <1>3
  <2>4. contexts[k].state # "Active" => k # i
    OBVIOUS
  <2>5. QED
    BY <1>1, <2>1, <2>2, <2>3, <2>4
<1>5. QED
  BY <1>4 DEF Relabelled

(* Extending one context's measurement only relabels the array. *)
LEMMA MeasureRelabels ==
  ASSUME TypeOK, NEW i \in Slots, contexts[i].state = "Active", NEW h, NEW m,
         contexts' = [contexts EXCEPT ![i] = [Measured(@, m) EXCEPT !.handle = h]]
  PROVE  Relabelled
<1>1. ASSUME NEW c \in Context, NEW d, d = c \/ d = [Measured(c, m) EXCEPT !.handle = h]
      PROVE  d = [c EXCEPT !.handle = d.handle, !.tci_cumulative = d.tci_cumulative]
  BY <1>1 DEF Context, Measured
<1>2. \A k \in Slots : contexts[k] \in Context
  BY DEF TypeOK
<1>3. \A k \in Slots :
        contexts'[k] = IF k = i THEN [Measured(contexts[k], m) EXCEPT !.handle = h]
                       ELSE contexts[k]
  BY DEF TypeOK
<1>4. ASSUME NEW k \in Slots
      PROVE  /\ contexts'[k] = [contexts[k] EXCEPT
                                   !.handle         = contexts'[k].handle,
                                   !.tci_cumulative = contexts'[k].tci_cumulative]
             /\ contexts[k].state # "Active" => contexts'[k] = contexts[k]
  <2>1. contexts[k] \in Context
    BY <1>2
  <2>2. k # i => contexts'[k] = contexts[k]
    BY <1>3
  <2>3. k = i => contexts'[k] = [Measured(contexts[k], m) EXCEPT !.handle = h]
    BY <1>3
  <2>4. contexts[k].state # "Active" => k # i
    OBVIOUS
  <2>5. QED
    BY <1>1, <2>1, <2>2, <2>3, <2>4
<1>5. QED
  BY <1>4 DEF Relabelled

(* A refused command leaves the array alone. *)
LEMMA RejectionShape ==
  ASSUME TypeOK, NEW cmd, NEW l, NEW h, NEW status, Reject(cmd, l, h, status)
  PROVE  Shape
BY StutterRelabels DEF Reject, state_vars, Shape

-----------------------------------------------------------------------------
(***************************************************************************)
(* Every command changes the array in one of the five ways.                *)
(***************************************************************************)
LEMMA InitializeShape ==
  ASSUME TypeOK, NEW l \in Localities, Initialize(l)
  PROVE  Shape
<1> DEFINE i == GetNextInactiveContextPos(contexts)
<1>1. ASSUME NEW flags, InitializeRejected(l, flags)
      PROVE  Shape
  BY <1>1, RejectionShape DEF InitializeRejected
<1>2. ASSUME NEW flags, InitializeStatus(flags) = "NoError"
      PROVE  /\ i \in Slots /\ contexts[i].state = "Inactive"
             /\ "DEFAULT" \in flags => ~has_initialized
             /\ "SIMULATION" \in flags => "SIMULATION" \in Support
  BY <1>2, NextInactiveIsInactive DEF InitializeStatus
<1>3. ASSUME NEW fits, InitializeDefault(l, fits)
      PROVE  Shape
  <2>1. RootAdded
    BY <1>2, <1>3 DEF InitializeDefault, RootAdded, ContextType, Handles
  <2>2. QED
    BY <1>3, <2>1 DEF InitializeDefault, Shape
<1>4. ASSUME NEW fits, InitializeSimulation(l, fits)
      PROVE  Shape
  <2>1. PICK h \in GenerateNewHandle(contexts, {}) :
          \/ h = NO_HANDLE /\ Reject("InitializeContext", l, NO_HANDLE, "InternalError")
          \/ /\ h # NO_HANDLE
             /\ contexts' = [contexts EXCEPT ![i] = RootContext("Simulation", l, h)]
             /\ UNCHANGED << has_initialized, export_cdi_slots >>
    BY <1>4 DEF InitializeSimulation
  <2>2. CASE h = NO_HANDLE
    BY <2>1, <2>2, RejectionShape
  <2>3. CASE h # NO_HANDLE
    <3>1. h \in Handles /\ "Simulation" \in ContextType
      BY <2>3, NewHandleType DEF ContextType
    <3>2. RootAdded
      BY <1>2, <1>4, <2>1, <2>3, <3>1 DEF InitializeSimulation, RootAdded
    <3>3. QED
      BY <2>1, <2>3, <3>2 DEF Shape
  <2>4. QED
    BY <2>2, <2>3
<1>5. QED
  BY <1>1, <1>3, <1>4 DEF Initialize

(* Past its checks, DeriveContext has found an active parent. *)
LEMMA DeriveFinds ==
  ASSUME TypeOK, NEW l, NEW h, NEW flags, NEW t, NEW target,
         DeriveStatus(l, h, flags, t, target) = "NoError"
  PROVE  LET p == GetActiveContextPos(contexts, h, l)
         IN  /\ p \in Slots /\ contexts[p].state = "Active"
             /\ DeriveSupported(flags) /\ DerivePermitted(contexts[p], flags)
             /\ "RECURSIVE" \notin flags => TciTypeIsUniqueAmongChildren(contexts[p], t)
<1>1. LookupStatus(contexts, h, l) = "NoError"
  BY DEF DeriveStatus
<1>2. QED
  BY <1>1, LookupFinds DEF DeriveStatus, TypeOK

(* A recursive derivation only relabels the array. *)
LEMMA DeriveRecursiveShape ==
  ASSUME TypeOK, NEW l, NEW h, NEW flags, NEW t, NEW target, NEW m, NEW ok, NEW fits,
         DeriveRecursive(l, h, flags, t, target, m, ok, fits)
  PROVE  Shape
<1> DEFINE p == GetActiveContextPos(contexts, h, l)
<1>1. p \in Slots /\ contexts[p].state = "Active"
  BY DeriveFinds DEF DeriveRecursive
<1>2. CASE \E status : Reject("DeriveContext", l, h, status)
  BY <1>2, RejectionShape
<1>3. ASSUME NEW nh, contexts' = [contexts EXCEPT ![p] = [Measured(@, m) EXCEPT !.handle = nh]],
             UNCHANGED has_initialized
      PROVE  Shape
  BY <1>1, <1>3, MeasureRelabels DEF Shape
<1>4. QED
  BY <1>2, <1>3 DEF DeriveRecursive

(* A derivation adds one child, or fails and changes nothing. *)
LEMMA DeriveChildShape ==
  ASSUME TypeOK, NEW l, NEW h, NEW flags \in DeriveFlagSets, NEW t \in TciTypes,
         NEW target \in Localities, NEW m \in Measurements, NEW ok, NEW fits,
         DeriveChild(l, h, flags, t, target, m, ok, fits)
  PROVE  Shape
<1> DEFINE p == GetActiveContextPos(contexts, h, l)
           c == GetNextInactiveContextPos(contexts)
<1>1. /\ p \in Slots /\ contexts[p].state = "Active"
      /\ DeriveSupported(flags) /\ DerivePermitted(contexts[p], flags)
      /\ TciTypeIsUniqueAmongChildren(contexts[p], t)
  BY DeriveFinds DEF DeriveChild
<1>2. CASE \E status : Reject("DeriveContext", l, h, status)
  BY <1>2, RejectionShape
<1>3. ASSUME NEW ph \in ParentHandles(contexts[p], flags), ph # NO_HANDLE,
             ChildStatus(p, flags, target) = "NoError",
             NEW ch \in ChildHandles(flags, ph), ch # NO_HANDLE,
             contexts' = WithChild(p, c, TmpParent(contexts[p], flags, ph),
                                   Measured(ChildContext(p, flags, t, target, ch), m)),
             UNCHANGED has_initialized
      PROVE  Shape
  <2>1. c \in Slots /\ contexts[c].state = "Inactive"
    BY <1>3, NextInactiveIsInactive DEF ChildStatus
  <2>2. ph \in Handles /\ ("RETAIN_PARENT_CONTEXT" \notin flags => ph = INVALID)
    BY <1>3, ParentHandleType DEF ParentHandles
  <2>3. ch \in Handles
    BY <1>3, NewHandleType DEF ChildHandles, Handles
  <2>4. ChildAdded
    BY <1>1, <1>3, <2>1, <2>2, <2>3 DEF ChildAdded
  <2>5. QED
    BY <1>3, <2>4 DEF Shape
<1>4. QED
  BY <1>2, <1>3 DEF DeriveChild

(* An export relabels the parent or releases it. *)
LEMMA DeriveExportedCdiShape ==
  ASSUME TypeOK, NEW l, NEW h, NEW flags \in DeriveFlagSets, NEW t, NEW outcome, NEW fits,
         NEW hdr_fits, DeriveExportedCdi(l, h, flags, t, outcome, fits, hdr_fits)
  PROVE  Shape
<1> DEFINE p == GetActiveContextPos(contexts, h, l)
<1>1. p \in Slots /\ contexts[p].state = "Active"
  BY DeriveFinds DEF DeriveExportedCdi
<1>2. CASE \E status : Reject("DeriveContext", l, h, status)
  BY <1>2, RejectionShape
<1>3. CASE UNCHANGED << contexts, has_initialized >>
  BY <1>3, StutterRelabels DEF Shape
<1>4. ASSUME NEW ph \in ParentHandles(contexts[p], flags), ph # NO_HANDLE,
             contexts' = ParentAfterExport(p, flags, ph), UNCHANGED has_initialized
      PROVE  Shape
  <2>1. ph \in Handles /\ ("RETAIN_PARENT_CONTEXT" \notin flags => ph = INVALID)
    BY <1>4, ParentHandleType DEF ParentHandles
  <2>2. CASE "RETAIN_PARENT_CONTEXT" \notin flags /\ contexts[p].children = {}
    BY <1>1, <1>4, <2>2 DEF ParentAfterExport, SubtreeDestroyed, Shape
  <2>3. CASE ~("RETAIN_PARENT_CONTEXT" \notin flags /\ contexts[p].children = {})
    <3>1. ParentReleased
      BY <1>1, <1>4, <2>1, <2>3 DEF ParentAfterExport, ParentReleased
    <3>2. QED
      BY <1>4, <3>1 DEF Shape
  <2>4. QED
    BY <2>2, <2>3
<1>5. QED
  BY <1>2, <1>3, <1>4 DEF DeriveExportedCdi

(* DeriveContext changes the array in one of the five ways. *)
LEMMA DeriveShape ==
  ASSUME TypeOK, NEW l \in Localities, NEW h \in Handles, Derive(l, h)
  PROVE  Shape
<1>1. ASSUME NEW flags, NEW t, NEW target, DeriveRejected(l, h, flags, t, target)
      PROVE  Shape
  BY <1>1, RejectionShape DEF DeriveRejected
<1>2. \A flags : TargetLocalities(l, flags) \subseteq Localities
  BY DEF TargetLocalities
<1>3. QED
  BY <1>1, <1>2, DeriveRecursiveShape, DeriveChildShape, DeriveExportedCdiShape DEF Derive

(* DestroyContext clears one subtree and the retired ancestors it leaves bare. *)
LEMMA DestroyShape ==
  ASSUME TypeOK, NEW l \in Localities, NEW h \in Handles, Destroy(l, h)
  PROVE  Shape
<1>1. CASE DestroyRejected(l, h)
  BY <1>1, RejectionShape DEF DestroyRejected
<1>2. ASSUME NEW fits, DestroyCtx(l, h, fits)
      PROVE  Shape
  <2> DEFINE i == GetActiveContextPos(contexts, h, l)
  <2>1. LookupStatus(contexts, h, l) = "NoError"
    BY <1>2 DEF DestroyCtx, DestroyStatus
  <2>2. i \in Slots /\ contexts[i].state = "Active"
    BY <2>1, LookupFinds DEF TypeOK
  <2>3. SubtreeDestroyed
    BY <1>2, <2>2 DEF DestroyCtx, SubtreeDestroyed
  <2>4. QED
    BY <1>2, <2>3 DEF DestroyCtx, Shape
<1>3. QED
  BY <1>1, <1>2 DEF Destroy

(* RotateContextHandle only relabels the array. *)
LEMMA RotateShape ==
  ASSUME TypeOK, NEW l \in Localities, NEW h \in Handles, Rotate(l, h)
  PROVE  Shape
<1>1. ASSUME NEW to_default, RotateRejected(l, h, to_default)
      PROVE  Shape
  BY <1>1, RejectionShape DEF RotateRejected
<1>2. ASSUME NEW to_default, NEW fits, RotateCtx(l, h, to_default, fits)
      PROVE  Shape
  <2> DEFINE i == GetActiveContextPos(contexts, h, l)
  <2>1. LookupStatus(contexts, h, l) = "NoError"
    BY <1>2 DEF RotateCtx, RotateStatus
  <2>2. i \in Slots /\ contexts[i].state = "Active"
    BY <2>1, LookupFinds DEF TypeOK
  <2>3. \/ \E status : Reject("RotateContextHandle", l, h, status)
        \/ /\ \E nh : contexts' = [contexts EXCEPT ![i].handle = nh]
           /\ UNCHANGED has_initialized
    BY <1>2 DEF RotateCtx
  <2>4. QED
    BY <2>2, <2>3, RejectionShape, RehandleRelabels DEF Shape
<1>3. QED
  BY <1>1, <1>2 DEF Rotate

(* Sign and CertifyKey only relabel the array. *)
LEMMA UseKeyShape ==
  ASSUME TypeOK, NEW l \in Localities, NEW h \in Handles, UseKey(l, h)
  PROVE  Shape
<1> DEFINE i == GetActiveContextPos(contexts, h, l)
<1>1. CASE \E cmd, status : Reject(cmd, l, h, status)
  BY <1>1, RejectionShape
<1>2. ASSUME LookupStatus(contexts, h, l) = "NoError",
             NEW nh, contexts' = [contexts EXCEPT ![i].handle = nh],
             UNCHANGED has_initialized
      PROVE  Shape
  <2>1. i \in Slots /\ contexts[i].state = "Active"
    BY <1>2, LookupFinds DEF TypeOK
  <2>2. QED
    BY <1>2, <2>1, RehandleRelabels DEF Shape
<1>3. ASSUME NEW fits, Sign(l, h, fits)
      PROVE  Shape
  <2>1. LookupStatus(contexts, h, l) = "NoError"
    BY <1>3 DEF Sign, SignStatus
  <2>2. QED
    BY <1>1, <1>2, <1>3, <2>1 DEF Sign
<1>4. ASSUME NEW format, NEW hdr_fits, CertifyKey(l, h, format, hdr_fits)
      PROVE  Shape
  <2>1. LookupStatus(contexts, h, l) = "NoError"
    BY <1>4 DEF CertifyKey, CertifyKeyStatus
  <2>2. QED
    BY <1>1, <1>2, <1>4, <2>1 DEF CertifyKey
<1>5. QED
  BY <1>1, <1>3, <1>4 DEF UseKey, SignRejected, CertifyKeyRejected

(* UpdateContextMeasurement only relabels the array, wherever it fails. *)
LEMMA UpdateShape ==
  ASSUME TypeOK, NEW l \in Localities, NEW h \in Handles, Update(l, h)
  PROVE  Shape
<1>1. ASSUME NEW t, UpdateRejected(l, h, t)
      PROVE  Shape
  BY <1>1, RejectionShape DEF UpdateRejected
<1>2. ASSUME NEW t, NEW m \in Measurements, NEW ok, NEW fits,
             UpdateContextMeasurement(l, h, t, m, ok, fits)
      PROVE  Shape
  <2> DEFINE p == GetActiveContextPos(contexts, h, l)
             c == Lowest(ChildrenOfType(p, t))
  <2>1. LookupStatus(contexts, h, l) = "NoError" /\ ChildrenOfType(p, t) # {}
    BY <1>2 DEF UpdateContextMeasurement, UpdateStatus
  <2>2. p \in Slots /\ contexts[p].state = "Active"
    BY <2>1, LookupFinds DEF TypeOK
  <2>3. ChildrenOfType(p, t) \in SUBSET Slots
    BY <2>2 DEF ChildrenOfType, TypeOK, Context
  <2>4. c \in Slots /\ contexts[c].state = "Active"
    <3>1. c \in ChildrenOfType(p, t)
      BY <2>1, <2>3, LowestIsMember
    <3>2. QED
      BY <2>3, <3>1 DEF ChildrenOfType
  <2>5. CASE \E status : Reject("UpdateContextMeasurement", l, h, status)
    BY <2>5, RejectionShape
  <2>6. ASSUME NEW ph, contexts' = [contexts EXCEPT ![p].handle = ph],
               UNCHANGED has_initialized
        PROVE  Shape
    BY <2>2, <2>6, RehandleRelabels DEF Shape
  <2>7. ASSUME NEW ph, NEW ch,
               contexts' = [[contexts EXCEPT ![p].handle = ph] EXCEPT
                              ![c] = [Measured(@, m) EXCEPT !.handle = ch]],
               UNCHANGED has_initialized
        PROVE  Shape
    <3>1. ASSUME NEW k \in Slots
          PROVE  /\ contexts'[k] = [contexts[k] EXCEPT
                                       !.handle         = contexts'[k].handle,
                                       !.tci_cumulative = contexts'[k].tci_cumulative]
                 /\ contexts[k].state # "Active" => contexts'[k] = contexts[k]
      <4>1. contexts[k] \in Context
        BY DEF TypeOK
      <4>2. k # c /\ k # p => contexts'[k] = contexts[k]
        BY <2>7 DEF TypeOK
      <4>3. k # c /\ k = p => contexts'[k] = [contexts[k] EXCEPT !.handle = ph]
        BY <2>7 DEF TypeOK
      <4>4. k = c => \E old : contexts'[k] = [Measured([contexts[k] EXCEPT !.handle = old], m)
                                                EXCEPT !.handle = ch]
        <5>1. k = c /\ c = p => contexts'[k] = [Measured([contexts[k] EXCEPT !.handle = ph], m)
                                                  EXCEPT !.handle = ch]
          BY <2>2, <2>4, <2>7 DEF TypeOK
        <5>2. k = c /\ c # p => contexts'[k] = [Measured(contexts[k], m) EXCEPT !.handle = ch]
          BY <2>2, <2>4, <2>7 DEF TypeOK
        <5>3. contexts[k] = [contexts[k] EXCEPT !.handle = contexts[k].handle]
          BY <4>1 DEF Context
        <5>4. QED
          BY <5>1, <5>2, <5>3
      <4>5. CASE k = c
        BY <2>4, <4>1, <4>4, <4>5 DEF Measured, Context
      <4>6. CASE k # c /\ k = p
        BY <2>2, <4>1, <4>3, <4>6 DEF Context
      <4>7. CASE k # c /\ k # p
        BY <4>1, <4>2, <4>7 DEF Context
      <4>8. QED
        BY <4>5, <4>6, <4>7
    <3>2. Relabelled
      BY <3>1 DEF Relabelled
    <3>3. QED
      BY <2>7, <3>2 DEF Shape
  <2>8. QED
    BY <1>2, <2>5, <2>6, <2>7 DEF UpdateContextMeasurement
<1>3. QED
  BY <1>1, <1>2 DEF Update

(* Every step changes the array in one of the five ways. *)
LEMMA StepShape ==
  ASSUME TypeOK, [Next]_vars
  PROVE  Shape
<1>1. ASSUME NEW l \in Localities, Initialize(l)
      PROVE  Shape
  BY <1>1, InitializeShape
<1>2. ASSUME NEW l \in Localities, Query(l)
      PROVE  Shape
  <2>1. UNCHANGED << contexts, has_initialized >>
    BY <1>2 DEF Query, GetProfile, GetCertificateChain, state_vars
  <2>2. QED
    BY <2>1, StutterRelabels DEF Shape
<1>3. ASSUME NEW l \in Localities, NEW h \in Handles, Derive(l, h)
      PROVE  Shape
  BY <1>3, DeriveShape
<1>4. ASSUME NEW l \in Localities, NEW h \in Handles, Destroy(l, h)
      PROVE  Shape
  BY <1>4, DestroyShape
<1>5. ASSUME NEW l \in Localities, NEW h \in Handles, Rotate(l, h)
      PROVE  Shape
  BY <1>5, RotateShape
<1>6. ASSUME NEW l \in Localities, NEW h \in Handles, Update(l, h)
      PROVE  Shape
  BY <1>6, UpdateShape
<1>7. ASSUME NEW l \in Localities, NEW h \in Handles, UseKey(l, h)
      PROVE  Shape
  BY <1>7, UseKeyShape
<1>8. CASE UNCHANGED vars
  BY <1>8, StutterRelabels DEF vars, Shape
<1>9. QED
  BY <1>1, <1>2, <1>3, <1>4, <1>5, <1>6, <1>7, <1>8 DEF Next
=============================================================================
