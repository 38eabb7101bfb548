-------------------------- MODULE DpeCommandProofs --------------------------
(***************************************************************************)
(* Theorems about what a command may do, for every choice of the constants *)
(* but those they name.  StepOutcome says how each command that changes    *)
(* something ends: which context was named, what the array became, what    *)
(* the caller was told.  The theorems are by cases on that.                *)
(***************************************************************************)
EXTENDS DpeRefinement, DpeForestProofs

(***************************************************************************)
(* The command of this step was cmd, and found context p.                  *)
(***************************************************************************)
Found(cmd, p) == p \in Named /\ resp'.cmd = cmd

(***************************************************************************)
(* The caller was told h and ph, unless its buffer was too short.          *)
(***************************************************************************)
Told(h, ph) ==
  \/ resp'.status = "NoError" /\ resp'.handle = h /\ resp'.parent_handle = ph
  \/ resp'.status = "InvalidResponseBuf"

NewHandles == GenerateNewHandle(contexts, {}) \ {NO_HANDLE}

-----------------------------------------------------------------------------
(***************************************************************************)
(* How commands end.                                                       *)
(***************************************************************************)

(***************************************************************************)
(* Refused, failed, or only a query.                                       *)
(***************************************************************************)
Unchanged ==
  /\ UNCHANGED state_vars
  /\ Succeeded =>
       resp'.used = NO_HANDLE /\ resp'.handle = NO_HANDLE /\ resp'.parent_handle = NO_HANDLE

RootMade ==
  /\ \E i \in Slots, type \in ContextType, l \in Localities :
     \E h \in NewHandles \cup {DEFAULT} :
       /\ contexts[i].state = "Inactive"
       /\ contexts' = [contexts EXCEPT ![i] = RootContext(type, l, h)]
       /\ resp'.cmd = "InitializeContext"
       /\ resp'.used = NO_HANDLE /\ resp'.locality = l /\ Told(h, NO_HANDLE)
  /\ UNCHANGED export_cdi_slots

SelfMeasured ==
  /\ \E p \in Slots, m \in Measurements :
     \E h \in RollOnetimeUseHandle(contexts, contexts[p], {}) \ {NO_HANDLE} :
       /\ Found("DeriveContext", p) /\ contexts[p].allow_recursive
       /\ contexts' = [contexts EXCEPT ![p] = [Measured(@, m) EXCEPT !.handle = h]]
       /\ Told(h, DEFAULT)
  /\ UNCHANGED << has_initialized, export_cdi_slots >>

ChildMade ==
  /\ \E p, c \in Slots, flags \in DeriveFlagSets, t \in TciTypes, l \in Localities,
        m \in Measurements :
     \E ph \in ParentHandles(contexts[p], flags) \ {NO_HANDLE} :
     \E ch \in ChildHandles(flags, ph) \ {NO_HANDLE} :
       /\ Found("DeriveContext", p) /\ contexts[c].state = "Inactive"
       /\ contexts' = WithChild(p, c, TmpParent(contexts[p], flags, ph),
                                Measured(ChildContext(p, flags, t, l, ch), m))
       /\ Told(ch, ph)
  /\ UNCHANGED << has_initialized, export_cdi_slots >>

CdiTaken(p, flags) ==
  /\ Found("DeriveContext", p)
  /\ "EXPORT_CDI" \in flags /\ DerivePermitted(contexts[p], flags)
  /\ export_cdi_slots' = export_cdi_slots \cup {MeasurementHash(contexts, p)}
  /\ UNCHANGED has_initialized

ExportFailed ==
  \E p \in Slots, flags \in DeriveFlagSets : CdiTaken(p, flags) /\ UNCHANGED contexts /\ ~Succeeded

CdiExported ==
  \E p \in Slots, flags \in DeriveFlagSets :
  \E ph \in ParentHandles(contexts[p], flags) \ {NO_HANDLE} :
    /\ CdiTaken(p, flags)
    /\ contexts' = ParentAfterExport(p, flags, ph)
    /\ Told(INVALID, contexts'[p].handle)

TreeDestroyed ==
  /\ \E p \in Slots :
       /\ Found("DestroyContext", p)
       /\ contexts' = DestroyContext(contexts, p)
       /\ Told(NO_HANDLE, NO_HANDLE)
  /\ UNCHANGED << has_initialized, export_cdi_slots >>

Rehandled ==
  /\ \E p \in Slots, h \in NewHandles \cup {DEFAULT} :
       /\ \/ Found("RotateContextHandle", p)
          \/ Found("Sign", p) /\ Succeeded
          \/ Found("CertifyKey", p) /\ (Succeeded \/ HeaderRefused)
       /\ h = DEFAULT => contexts[p].handle = DEFAULT \/ resp'.cmd = "RotateContextHandle"
       /\ contexts' = [contexts EXCEPT ![p].handle = h]
       /\ Told(h, NO_HANDLE)
  /\ UNCHANGED << has_initialized, export_cdi_slots >>

UpdateFailed ==
  /\ \E p \in Slots :
     \E ph \in RollOnetimeUseHandle(contexts, contexts[p], {}) \ {NO_HANDLE} :
       /\ Found("UpdateContextMeasurement", p)
       /\ contexts' = [contexts EXCEPT ![p].handle = ph]
       /\ resp'.status = "InternalError"
  /\ UNCHANGED << has_initialized, export_cdi_slots >>

(***************************************************************************)
(* The handles the child may be given once its parent p has taken ph.      *)
(***************************************************************************)
SecondRolls(p, c, ph) ==
  RollOnetimeUseHandle([contexts EXCEPT ![p].handle = ph], contexts[c], {resp'.used})
    \ {NO_HANDLE}

ChildMeasured ==
  /\ \E p, c \in Slots, m \in Measurements :
     \E ph \in RollOnetimeUseHandle(contexts, contexts[p], {}) \ {NO_HANDLE} :
     \E ch \in SecondRolls(p, c, ph) :
       /\ Found("UpdateContextMeasurement", p)
       /\ c \in contexts[p].children /\ contexts[c].state = "Active"
       /\ contexts' = [[contexts EXCEPT ![p].handle = ph] EXCEPT
                         ![c] = [Measured(@, m) EXCEPT !.handle = ch]]
       /\ Told(ch, ph)
  /\ UNCHANGED << has_initialized, export_cdi_slots >>

Outcome ==
  \/ Unchanged \/ RootMade \/ SelfMeasured \/ ChildMade \/ ExportFailed \/ CdiExported
  \/ TreeDestroyed \/ Rehandled \/ UpdateFailed \/ ChildMeasured

-----------------------------------------------------------------------------
(* A refused command changes nothing and tells nothing. *)
LEMMA RejectionOutcome ==
  ASSUME NEW cmd, NEW l, NEW h, NEW status, status # "NoError", Reject(cmd, l, h, status)
  PROVE  Outcome
BY DEF Reject, Respond, Outcome, Unchanged, Succeeded

(* A delivery tells the caller the handles, or that its buffer is too short. *)
LEMMA DeliveryTells ==
  ASSUME NEW cmd, NEW l, NEW h, NEW nh, NEW ph, NEW fits, Deliver(cmd, l, h, nh, ph, fits)
  PROVE  Told(nh, ph) /\ resp'.cmd = cmd /\ resp'.locality = l /\ resp'.used = h
BY DEF Deliver, Respond, Told

(***************************************************************************)
(* The context a successful lookup finds is one the command named.         *)
(***************************************************************************)
LEMMA LookupNames ==
  ASSUME TypeOK, NEW l, NEW h, LookupStatus(contexts, h, l) = "NoError"
  PROVE  LET p == GetActiveContextPos(contexts, h, l)
         IN  /\ p \in Slots /\ contexts[p].state = "Active"
             /\ resp'.used = h /\ resp'.locality = l => p \in Named
<1>1. contexts \in [Slots -> Context]
  BY DEF TypeOK
<1>2. QED
  BY <1>1, LookupFinds DEF Named, ActiveWith, ActiveIn

(* How InitializeContext ends. *)
LEMMA InitializeOutcome ==
  ASSUME TypeOK, NEW l \in Localities, Initialize(l)
  PROVE  Outcome
<1> DEFINE i == GetNextInactiveContextPos(contexts)
<1>1. ASSUME NEW flags, InitializeRejected(l, flags)
      PROVE  Outcome
  BY <1>1, RejectionOutcome DEF InitializeRejected
<1>2. ASSUME NEW flags, InitializeStatus(flags) = "NoError"
      PROVE  i \in Slots /\ contexts[i].state = "Inactive"
  BY <1>2, NextInactiveIsInactive DEF InitializeStatus
<1>3. ASSUME NEW fits, InitializeDefault(l, fits)
      PROVE  Outcome
  <2>1. Told(DEFAULT, NO_HANDLE) /\ resp'.cmd = "InitializeContext"
          /\ resp'.locality = l /\ resp'.used = NO_HANDLE
    BY <1>3, DeliveryTells DEF InitializeDefault
  <2>2. RootMade
    BY <1>2, <1>3, <2>1 DEF InitializeDefault, RootMade, ContextType
  <2>3. QED
    BY <2>2 DEF Outcome
<1>4. ASSUME NEW fits, InitializeSimulation(l, fits)
      PROVE  Outcome
  <2>1. CASE Reject("InitializeContext", l, NO_HANDLE, "InternalError")
    BY <2>1, RejectionOutcome
  <2>2. ASSUME NEW h \in GenerateNewHandle(contexts, {}), h # NO_HANDLE,
               contexts' = [contexts EXCEPT ![i] = RootContext("Simulation", l, h)],
               Deliver("InitializeContext", l, NO_HANDLE, h, NO_HANDLE, fits),
               UNCHANGED export_cdi_slots
        PROVE  Outcome
    <3>1. Told(h, NO_HANDLE) /\ resp'.cmd = "InitializeContext"
            /\ resp'.locality = l /\ resp'.used = NO_HANDLE
      BY <2>2, DeliveryTells
    <3>2. RootMade
      BY <1>2, <1>4, <2>2, <3>1 DEF InitializeSimulation, RootMade, ContextType, NewHandles
    <3>3. QED
      BY <3>2 DEF Outcome
  <2>3. QED
    BY <1>4, <2>1, <2>2 DEF InitializeSimulation
<1>5. QED
  BY <1>1, <1>3, <1>4 DEF Initialize

(* How a recursive derivation ends. *)
LEMMA DeriveRecursiveOutcome ==
  ASSUME TypeOK, NEW l, NEW h, NEW flags, NEW t, NEW target, NEW m \in Measurements,
         NEW ok, NEW fits, DeriveRecursive(l, h, flags, t, target, m, ok, fits)
  PROVE  Outcome
<1> DEFINE p == GetActiveContextPos(contexts, h, l)
<1>1. LookupStatus(contexts, h, l) = "NoError" /\ "RECURSIVE" \in flags
  BY DEF DeriveRecursive, DeriveStatus
<1>2. p \in Slots /\ contexts[p].allow_recursive
  BY <1>1, DeriveFinds DEF DeriveRecursive, DerivePermitted
<1>3. CASE Reject("DeriveContext", l, h, "CryptoError")
           \/ Reject("DeriveContext", l, h, "InternalError")
  BY <1>3, RejectionOutcome
<1>4. ASSUME NEW nh \in RollOnetimeUseHandle(contexts, contexts[p], {}), nh # NO_HANDLE,
             contexts' = [contexts EXCEPT ![p] = [Measured(@, m) EXCEPT !.handle = nh]],
             Deliver("DeriveContext", l, h, nh, DEFAULT, fits),
             UNCHANGED << has_initialized, export_cdi_slots >>
      PROVE  Outcome
  <2>1. Told(nh, DEFAULT) /\ Found("DeriveContext", p)
    BY <1>1, <1>4, DeliveryTells, LookupNames DEF Found
  <2>2. SelfMeasured
    BY <1>2, <1>4, <2>1 DEF SelfMeasured
  <2>3. QED
    BY <2>2 DEF Outcome
<1>5. QED
  BY <1>3, <1>4 DEF DeriveRecursive

(* How a derivation of a child ends. *)
LEMMA DeriveChildOutcome ==
  ASSUME TypeOK, NEW l, NEW h, NEW flags \in DeriveFlagSets, NEW t \in TciTypes,
         NEW target \in Localities, NEW m \in Measurements, NEW ok, NEW fits,
         DeriveChild(l, h, flags, t, target, m, ok, fits)
  PROVE  Outcome
<1> DEFINE p == GetActiveContextPos(contexts, h, l)
           c == GetNextInactiveContextPos(contexts)
<1>1. LookupStatus(contexts, h, l) = "NoError"
  BY DEF DeriveChild, DeriveStatus
<1>2. p \in Slots
  BY <1>1, LookupNames
<1>3. CASE \E status : status # "NoError" /\ Reject("DeriveContext", l, h, status)
  BY <1>3, RejectionOutcome
<1>4. ASSUME NEW ph \in ParentHandles(contexts[p], flags), ph # NO_HANDLE,
             ChildStatus(p, flags, target) = "NoError",
             NEW ch \in ChildHandles(flags, ph), ch # NO_HANDLE,
             contexts' = WithChild(p, c, TmpParent(contexts[p], flags, ph),
                                   Measured(ChildContext(p, flags, t, target, ch), m)),
             Deliver("DeriveContext", l, h, ch, ph, fits),
             UNCHANGED << has_initialized, export_cdi_slots >>
      PROVE  Outcome
  <2>1. Told(ch, ph) /\ Found("DeriveContext", p)
    BY <1>1, <1>4, DeliveryTells, LookupNames DEF Found
  <2>2. c \in Slots /\ contexts[c].state = "Inactive"
    BY <1>4, NextInactiveIsInactive DEF ChildStatus
  <2>3. ChildMade
    BY <1>2, <1>4, <2>1, <2>2 DEF ChildMade
  <2>4. QED
    BY <2>3 DEF Outcome
<1>5. QED
  BY <1>3, <1>4 DEF DeriveChild

(* How an export ends: the CDI may be taken although the command fails. *)
LEMMA DeriveExportedCdiOutcome ==
  ASSUME TypeOK, NEW l, NEW h, NEW flags \in DeriveFlagSets, NEW t, NEW outcome, NEW fits,
         NEW hdr_fits, DeriveExportedCdi(l, h, flags, t, outcome, fits, hdr_fits)
  PROVE  Outcome
<1> DEFINE p == GetActiveContextPos(contexts, h, l)
           cdi == MeasurementHash(contexts, p)
<1>1. LookupStatus(contexts, h, l) = "NoError" /\ "EXPORT_CDI" \in flags
  BY DEF DeriveExportedCdi, DeriveStatus
<1>2. p \in Slots /\ DerivePermitted(contexts[p], flags)
  BY <1>1, DeriveFinds DEF DeriveExportedCdi
<1>3. CASE Reject("DeriveContext", l, h, "CryptoError")
           \/ Reject("DeriveContext", l, h, "InternalError")
  BY <1>3, RejectionOutcome
<1>4. ASSUME export_cdi_slots' = export_cdi_slots \cup {cdi},
             Respond("DeriveContext", l, h, "CryptoError", NO_HANDLE, NO_HANDLE),
             UNCHANGED << contexts, has_initialized >>
      PROVE  Outcome
  <2>1. Found("DeriveContext", p) /\ ~Succeeded
    BY <1>1, <1>4, LookupNames DEF Found, Respond, Succeeded
  <2>2. ExportFailed
    BY <1>1, <1>2, <1>4, <2>1 DEF ExportFailed, CdiTaken
  <2>3. QED
    BY <2>2 DEF Outcome
<1>5. ASSUME NEW ph \in ParentHandles(contexts[p], flags), ph # NO_HANDLE,
             export_cdi_slots' = export_cdi_slots \cup {cdi},
             contexts' = ParentAfterExport(p, flags, ph),
             Deliver("DeriveContext", l, h, INVALID, contexts'[p].handle, hdr_fits),
             UNCHANGED has_initialized
      PROVE  Outcome
  <2>1. Found("DeriveContext", p) /\ Told(INVALID, contexts'[p].handle)
    BY <1>1, <1>5, DeliveryTells, LookupNames DEF Found
  <2>2. CdiExported
    BY <1>1, <1>2, <1>5, <2>1 DEF CdiExported, CdiTaken
  <2>3. QED
    BY <2>2 DEF Outcome
<1>6. QED
  BY <1>3, <1>4, <1>5 DEF DeriveExportedCdi

(* How DeriveContext ends. *)
LEMMA DeriveOutcome ==
  ASSUME TypeOK, NEW l \in Localities, NEW h \in Handles, Derive(l, h)
  PROVE  Outcome
<1>1. ASSUME NEW flags, NEW t, NEW target, DeriveRejected(l, h, flags, t, target)
      PROVE  Outcome
  BY <1>1, RejectionOutcome DEF DeriveRejected
<1>2. \A flags : TargetLocalities(l, flags) \subseteq Localities
  BY DEF TargetLocalities
<1>3. QED
  BY <1>1, <1>2, DeriveRecursiveOutcome, DeriveChildOutcome, DeriveExportedCdiOutcome DEF Derive

(* How DestroyContext ends. *)
LEMMA DestroyOutcome ==
  ASSUME TypeOK, NEW l \in Localities, NEW h \in Handles, Destroy(l, h)
  PROVE  Outcome
<1>1. CASE DestroyRejected(l, h)
  BY <1>1, RejectionOutcome DEF DestroyRejected
<1>2. ASSUME NEW fits, DestroyCtx(l, h, fits)
      PROVE  Outcome
  <2> DEFINE p == GetActiveContextPos(contexts, h, l)
  <2>1. LookupStatus(contexts, h, l) = "NoError"
    BY <1>2 DEF DestroyCtx, DestroyStatus
  <2>2. p \in Slots /\ Found("DestroyContext", p) /\ Told(NO_HANDLE, NO_HANDLE)
    BY <1>2, <2>1, DeliveryTells, LookupNames DEF DestroyCtx, Found
  <2>3. TreeDestroyed
    BY <1>2, <2>2 DEF DestroyCtx, TreeDestroyed
  <2>4. QED
    BY <2>3 DEF Outcome
<1>3. QED
  BY <1>1, <1>2 DEF Destroy

(* How RotateContextHandle ends. *)
LEMMA RotateOutcome ==
  ASSUME TypeOK, NEW l \in Localities, NEW h \in Handles, Rotate(l, h)
  PROVE  Outcome
<1>1. ASSUME NEW to_default, RotateRejected(l, h, to_default)
      PROVE  Outcome
  BY <1>1, RejectionOutcome DEF RotateRejected
<1>2. ASSUME NEW to_default, NEW fits, RotateCtx(l, h, to_default, fits)
      PROVE  Outcome
  <2> DEFINE p == GetActiveContextPos(contexts, h, l)
  <2>1. LookupStatus(contexts, h, l) = "NoError"
    BY <1>2 DEF RotateCtx, RotateStatus
  <2>2. CASE Reject("RotateContextHandle", l, h, "InternalError")
    BY <2>2, RejectionOutcome
  <2>3. ASSUME NEW nh \in IF to_default THEN {DEFAULT} ELSE GenerateNewHandle(contexts, {}),
               nh # NO_HANDLE,
               contexts' = [contexts EXCEPT ![p].handle = nh],
               Deliver("RotateContextHandle", l, h, nh, NO_HANDLE, fits),
               UNCHANGED << has_initialized, export_cdi_slots >>
        PROVE  Outcome
    <3>1. p \in Slots /\ Found("RotateContextHandle", p) /\ Told(nh, NO_HANDLE)
      BY <2>1, <2>3, DeliveryTells, LookupNames DEF Found
    <3>2. nh \in NewHandles \cup {DEFAULT}
      BY <2>3 DEF NewHandles
    <3>3. Rehandled
      BY <2>3, <3>1, <3>2 DEF Rehandled, Found
    <3>4. QED
      BY <3>3 DEF Outcome
  <2>4. QED
    BY <1>2, <2>2, <2>3 DEF RotateCtx
<1>3. QED
  BY <1>1, <1>2 DEF Rotate

(* How Sign and CertifyKey end. *)
LEMMA UseKeyOutcome ==
  ASSUME TypeOK, NEW l \in Localities, NEW h \in Handles, UseKey(l, h)
  PROVE  Outcome
<1> DEFINE p == GetActiveContextPos(contexts, h, l)
<1>1. ASSUME NEW cmd, NEW status, status # "NoError", Reject(cmd, l, h, status)
      PROVE  Outcome
  BY <1>1, RejectionOutcome
<1>2. ASSUME LookupStatus(contexts, h, l) = "NoError",
             NEW nh \in RollOnetimeUseHandle(contexts, contexts[p], {}), nh # NO_HANDLE,
             contexts' = [contexts EXCEPT ![p].handle = nh],
             resp'.used = h, resp'.locality = l, Told(nh, NO_HANDLE),
             \/ resp'.cmd = "Sign" /\ Succeeded
             \/ resp'.cmd = "CertifyKey" /\ (Succeeded \/ HeaderRefused),
             UNCHANGED << has_initialized, export_cdi_slots >>
      PROVE  Outcome
  <2>1. p \in Slots /\ p \in Named
    BY <1>2, LookupNames
  <2>2. nh \in NewHandles \cup {DEFAULT} /\ (nh = DEFAULT => contexts[p].handle = DEFAULT)
    BY <1>2, RollIsFresh DEF NewHandles, RollOnetimeUseHandle
  <2>3. Rehandled
    BY <1>2, <2>1, <2>2 DEF Rehandled, Found
  <2>4. QED
    BY <2>3 DEF Outcome
<1>3. ASSUME NEW fits, Sign(l, h, fits)
      PROVE  Outcome
  <2>1. LookupStatus(contexts, h, l) = "NoError"
    BY <1>3 DEF Sign, SignStatus
  <2>2. ASSUME NEW nh \in RollOnetimeUseHandle(contexts, contexts[p], {}), nh # NO_HANDLE,
               contexts' = [contexts EXCEPT ![p].handle = nh],
               Respond("Sign", l, h, "NoError", nh, NO_HANDLE),
               UNCHANGED << has_initialized, export_cdi_slots >>
        PROVE  Outcome
    <3>1. /\ resp'.cmd = "Sign" /\ Succeeded
          /\ resp'.used = h /\ resp'.locality = l /\ Told(nh, NO_HANDLE)
      BY <2>2 DEF Respond, Told, Succeeded
    <3>2. QED
      BY <1>2, <2>1, <2>2, <3>1
  <2>3. QED
    BY <1>1, <1>3, <2>2 DEF Sign
<1>4. ASSUME NEW format, NEW hdr_fits \in HeaderFits, CertifyKey(l, h, format, hdr_fits)
      PROVE  Outcome
  <2>1. LookupStatus(contexts, h, l) = "NoError"
    BY <1>4 DEF CertifyKey, CertifyKeyStatus
  <2>2. ASSUME NEW nh \in RollOnetimeUseHandle(contexts, contexts[p], {}), nh # NO_HANDLE,
               contexts' = [contexts EXCEPT ![p].handle = nh],
               Deliver("CertifyKey", l, h, nh, NO_HANDLE, hdr_fits),
               UNCHANGED << has_initialized, export_cdi_slots >>
        PROVE  Outcome
    <3>1. /\ resp'.cmd = "CertifyKey"
          /\ resp'.used = h /\ resp'.locality = l /\ Told(nh, NO_HANDLE)
      BY <2>2, DeliveryTells
    <3>2. CASE hdr_fits
      <4>1. Succeeded
        BY <2>2, <3>2 DEF Deliver, Respond, Succeeded
      <4>2. QED
        BY <1>2, <2>1, <2>2, <3>1, <4>1
    <3>3. CASE ~hdr_fits
      <4>1. BUFFER_MAY_REFUSE
        BY <1>4, <3>3 DEF HeaderFits
      <4>2. HeaderRefused
        BY <2>2, <3>3, <4>1 DEF Deliver, Respond, HeaderRefused
      <4>3. QED
        BY <1>2, <2>1, <2>2, <3>1, <4>2
    <3>4. QED
      BY <3>2, <3>3
  <2>3. QED
    BY <1>1, <1>4, <2>2 DEF CertifyKey
<1>5. QED
  BY <1>1, <1>3, <1>4 DEF UseKey, SignRejected, CertifyKeyRejected

(* How UpdateContextMeasurement ends, wherever it fails. *)
LEMMA UpdateOutcome ==
  ASSUME TypeOK, NEW l \in Localities, NEW h \in Handles, Update(l, h)
  PROVE  Outcome
<1>1. ASSUME NEW t, UpdateRejected(l, h, t)
      PROVE  Outcome
  BY <1>1, RejectionOutcome DEF UpdateRejected
<1>2. ASSUME NEW t, NEW m \in Measurements, NEW ok, NEW fits,
             UpdateContextMeasurement(l, h, t, m, ok, fits)
      PROVE  Outcome
  <2> DEFINE p == GetActiveContextPos(contexts, h, l)
             c == Lowest(ChildrenOfType(p, t))
             Rolls(ph) == [contexts EXCEPT ![p].handle = ph]
  <2>1. LookupStatus(contexts, h, l) = "NoError" /\ ChildrenOfType(p, t) # {}
    BY <1>2 DEF UpdateContextMeasurement, UpdateStatus
  <2>2. p \in Slots /\ contexts[p].state = "Active"
    BY <2>1, LookupNames
  <2>3. ChildrenOfType(p, t) \in SUBSET Slots
    BY <2>2 DEF ChildrenOfType, TypeOK, Context
  <2>4. c \in Slots /\ c \in contexts[p].children /\ contexts[c].state = "Active"
    <3>1. c \in ChildrenOfType(p, t)
      BY <2>1, <2>3, LowestIsMember
    <3>2. QED
      BY <2>3, <3>1 DEF ChildrenOfType
  <2>5. CASE Reject("UpdateContextMeasurement", l, h, "CryptoError")
             \/ Reject("UpdateContextMeasurement", l, h, "InternalError")
    BY <2>5, RejectionOutcome
  <2>6. ASSUME NEW ph \in RollOnetimeUseHandle(contexts, contexts[p], {}), ph # NO_HANDLE,
               contexts' = Rolls(ph),
               Respond("UpdateContextMeasurement", l, h, "InternalError", NO_HANDLE, NO_HANDLE),
               UNCHANGED << has_initialized, export_cdi_slots >>
        PROVE  Outcome
    <3>1. Found("UpdateContextMeasurement", p) /\ resp'.status = "InternalError"
      BY <2>1, <2>6, LookupNames DEF Found, Respond
    <3>2. UpdateFailed
      BY <2>2, <2>6, <3>1 DEF UpdateFailed
    <3>3. QED
      BY <3>2 DEF Outcome
  <2>7. ASSUME NEW ph \in RollOnetimeUseHandle(contexts, contexts[p], {}), ph # NO_HANDLE,
               NEW ch \in RollOnetimeUseHandle(Rolls(ph), contexts[c], {h}), ch # NO_HANDLE,
               contexts' = [Rolls(ph) EXCEPT ![c] = [Measured(@, m) EXCEPT !.handle = ch]],
               Deliver("UpdateContextMeasurement", l, h, ch, ph, fits),
               UNCHANGED << has_initialized, export_cdi_slots >>
        PROVE  Outcome
    <3>1. Found("UpdateContextMeasurement", p) /\ Told(ch, ph) /\ resp'.used = h
      BY <2>1, <2>7, DeliveryTells, LookupNames DEF Found
    <3>2. ChildMeasured
      BY <2>2, <2>4, <2>7, <3>1 DEF ChildMeasured, SecondRolls
    <3>3. QED
      BY <3>2 DEF Outcome
  <2>8. QED
    BY <1>2, <2>5, <2>6, <2>7 DEF UpdateContextMeasurement
<1>3. QED
  BY <1>1, <1>2 DEF Update

(***************************************************************************)
(* Every step ends in one of these ways.                                   *)
(***************************************************************************)
LEMMA StepOutcome ==
  ASSUME TypeOK, Next
  PROVE  Outcome
<1>1. ASSUME NEW l \in Localities, Query(l)
      PROVE  Outcome
  <2>1. UNCHANGED state_vars
    BY <1>1 DEF Query, GetProfile, GetCertificateChain
  <2>2. resp'.used = NO_HANDLE /\ resp'.handle = NO_HANDLE /\ resp'.parent_handle = NO_HANDLE
    BY <1>1 DEF Query, GetProfile, GetCertificateChain, Deliver, Respond
  <2>3. QED
    BY <2>1, <2>2 DEF Outcome, Unchanged
<1>2. QED
  BY <1>1, InitializeOutcome, DeriveOutcome, DestroyOutcome, RotateOutcome, UpdateOutcome,
     UseKeyOutcome DEF Next

-----------------------------------------------------------------------------
(***************************************************************************)
(* The array after each change, field by field.                            *)
(***************************************************************************)
LEMMA RehandledFields ==
  ASSUME TypeOK, NEW p \in Slots, NEW h, contexts' = [contexts EXCEPT ![p].handle = h]
  PROVE  /\ contexts'[p] = [contexts[p] EXCEPT !.handle = h]
         /\ contexts'[p].handle = h /\ contexts'[p].state = contexts[p].state
         /\ contexts'[p].locality = contexts[p].locality
         /\ contexts'[p].parent_idx = contexts[p].parent_idx
         /\ contexts'[p].tci_cumulative = contexts[p].tci_cumulative
         /\ \A k \in Slots \ {p} : contexts'[k] = contexts[k]
<1>1. contexts[p] \in Context
  BY DEF TypeOK
<1>2. /\ contexts'[p] = [contexts[p] EXCEPT !.handle = h]
      /\ \A k \in Slots \ {p} : contexts'[k] = contexts[k]
  BY DEF TypeOK
<1>3. QED
  BY <1>1, <1>2 DEF Context

(* The context that takes one more measurement, under a new handle. *)
LEMMA MeasuredFields ==
  ASSUME NEW c \in Context, NEW m, NEW h
  PROVE  LET d == [Measured(c, m) EXCEPT !.handle = h]
         IN  /\ d.handle = h /\ d.state = c.state /\ d.locality = c.locality
             /\ d.parent_idx = c.parent_idx /\ d.children = c.children
             /\ d.tci_cumulative = Append(c.tci_cumulative, m)
BY DEF Measured, Context

(* The array after a context is measured for itself. *)
LEMMA SelfMeasuredFields ==
  ASSUME TypeOK, NEW p \in Slots, NEW m, NEW h,
         contexts' = [contexts EXCEPT ![p] = [Measured(@, m) EXCEPT !.handle = h]]
  PROVE  /\ contexts'[p].handle = h /\ contexts'[p].state = contexts[p].state
         /\ contexts'[p].locality = contexts[p].locality
         /\ contexts'[p].parent_idx = contexts[p].parent_idx
         /\ contexts'[p].children = contexts[p].children
         /\ contexts'[p].tci_cumulative = Append(contexts[p].tci_cumulative, m)
         /\ \A k \in Slots \ {p} : contexts'[k] = contexts[k]
<1> DEFINE d == [Measured(contexts[p], m) EXCEPT !.handle = h]
<1>1. contexts[p] \in Context
  BY DEF TypeOK
<1>2. contexts'[p] = d /\ \A k \in Slots \ {p} : contexts'[k] = contexts[k]
  BY DEF TypeOK
<1>3. /\ d.handle = h /\ d.state = contexts[p].state /\ d.locality = contexts[p].locality
      /\ d.parent_idx = contexts[p].parent_idx /\ d.children = contexts[p].children
      /\ d.tci_cumulative = Append(contexts[p].tci_cumulative, m)
  BY <1>1, MeasuredFields
<1> HIDE DEF d
<1>4. QED
  BY <1>2, <1>3

(* The parent a derivation or an export leaves, retained or retired. *)
LEMMA TmpParentFields ==
  ASSUME NEW parent \in Context, NEW flags, NEW h
  PROVE  LET d == TmpParent(parent, flags, h)
         IN  /\ d.handle = h /\ d.locality = parent.locality
             /\ d.parent_idx = parent.parent_idx /\ d.children = parent.children
             /\ d.tci_cumulative = parent.tci_cumulative
             /\ d.state = IF "RETAIN_PARENT_CONTEXT" \in flags THEN parent.state ELSE "Retired"
BY DEF TmpParent, Context

(* The array after a child is made. *)
LEMMA ChildMadeFields ==
  ASSUME TypeOK, NEW p \in Slots, NEW c \in Slots, p # c, NEW flags, NEW t, NEW l, NEW m,
         NEW ph, NEW ch,
         contexts' = WithChild(p, c, TmpParent(contexts[p], flags, ph),
                               Measured(ChildContext(p, flags, t, l, ch), m))
  PROVE  /\ contexts'[p].handle = ph
         /\ contexts'[p].state =
              IF "RETAIN_PARENT_CONTEXT" \in flags THEN contexts[p].state ELSE "Retired"
         /\ contexts'[p].locality = contexts[p].locality
         /\ contexts'[p].parent_idx = contexts[p].parent_idx
         /\ contexts'[p].children = contexts[p].children \cup {c}
         /\ contexts'[p].tci_cumulative = contexts[p].tci_cumulative
         /\ contexts'[c].handle = ch /\ contexts'[c].state = "Active"
         /\ contexts'[c].locality = l /\ contexts'[c].parent_idx = p
         /\ contexts'[c].tci_cumulative = << m >>
         /\ \A k \in Slots \ {p, c} : contexts'[k] = contexts[k]
<1> DEFINE tmp == TmpParent(contexts[p], flags, ph)
<1>1. contexts[p] \in Context
  BY DEF TypeOK
<1>2. /\ contexts'[p] = [tmp EXCEPT !.children = @ \cup {c}]
      /\ contexts'[c] = Measured(ChildContext(p, flags, t, l, ch), m)
      /\ \A k \in Slots \ {p, c} : contexts'[k] = contexts[k]
  BY DEF WithChild, TypeOK
<1>3. DOMAIN tmp = DOMAIN contexts[p]
  BY <1>1 DEF TmpParent, Context
<1>4. /\ contexts'[p].handle = tmp.handle /\ contexts'[p].state = tmp.state
      /\ contexts'[p].locality = tmp.locality /\ contexts'[p].parent_idx = tmp.parent_idx
      /\ contexts'[p].tci_cumulative = tmp.tci_cumulative
      /\ contexts'[p].children = tmp.children \cup {c}
  <2>1. {"handle", "state", "locality", "parent_idx", "tci_cumulative", "children"}
          \subseteq DOMAIN contexts[p]
    BY <1>1 DEF Context
  <2> HIDE DEF tmp
  <2>2. QED
    BY <1>2, <1>3, <2>1
<1>5. /\ contexts'[c].handle = ch /\ contexts'[c].state = "Active"
      /\ contexts'[c].locality = l /\ contexts'[c].parent_idx = p
      /\ contexts'[c].tci_cumulative = Append(<< >>, m)
  <2> DEFINE new == ChildContext(p, flags, t, l, ch)
  <2>1. /\ new.handle = ch /\ new.state = "Active" /\ new.locality = l
        /\ new.parent_idx = p /\ new.tci_cumulative = << >>
        /\ {"handle", "state", "locality", "parent_idx", "tci_cumulative"} \subseteq DOMAIN new
    BY DEF ChildContext, Activated
  <2>2. contexts'[c] = [new EXCEPT !.tci_cumulative = Append(@, m)]
    BY <1>2 DEF Measured
  <2> HIDE DEF new
  <2>3. QED
    BY <2>1, <2>2
<1>6. Append(<< >>, m) = << m >>
  OBVIOUS
<1>7. QED
  BY <1>1, <1>2, <1>4, <1>5, <1>6, TmpParentFields

(* The array after an export that does not destroy its context. *)
LEMMA ReleasedFields ==
  ASSUME TypeOK, NEW p \in Slots, NEW flags, NEW ph,
         contexts' = [contexts EXCEPT ![p] = TmpParent(@, flags, ph)]
  PROVE  /\ contexts'[p].handle = ph
         /\ contexts'[p].state =
              IF "RETAIN_PARENT_CONTEXT" \in flags THEN contexts[p].state ELSE "Retired"
         /\ contexts'[p].locality = contexts[p].locality
         /\ contexts'[p].parent_idx = contexts[p].parent_idx
         /\ contexts'[p].children = contexts[p].children
         /\ contexts'[p].tci_cumulative = contexts[p].tci_cumulative
         /\ \A k \in Slots \ {p} : contexts'[k] = contexts[k]
<1>1. contexts[p] \in Context
  BY DEF TypeOK
<1>2. /\ contexts'[p] = TmpParent(contexts[p], flags, ph)
      /\ \A k \in Slots \ {p} : contexts'[k] = contexts[k]
  BY DEF TypeOK
<1>3. QED
  BY <1>1, <1>2, TmpParentFields

(* Where links agree and no path is a cycle, a child is not its own parent. *)
LEMMA ChildIsAnother ==
  ASSUME TypeOK, LinksAgree, NoCycle, NEW p \in Live(contexts), NEW c \in contexts[p].children
  PROVE  c \in Live(contexts) /\ contexts[c].parent_idx = p /\ c # p
<1>1. c \in Live(contexts) /\ contexts[c].parent_idx = p
  BY DEF LinksAgree
<1>2. {p} \in SUBSET Live(contexts) /\ {p} # {}
  OBVIOUS
<1>3. \E i \in {p} : contexts[i].parent_idx \notin {p}
  BY <1>2 DEF NoCycle
<1>4. QED
  BY <1>1, <1>3

-----------------------------------------------------------------------------
(***************************************************************************)
(* What each outcome says of the named context and of the array.           *)
(***************************************************************************)

(* The named context is an active one. *)
LEMMA NamedIsActive ==
  ASSUME NEW p \in Named
  PROVE  /\ p \in Slots /\ contexts[p].state = "Active" /\ p \in Live(contexts)
         /\ contexts[p].handle = resp'.used /\ contexts[p].locality = resp'.locality
BY DEF Named, ActiveWith, ActiveIn, Live

(* A free slot made a root. *)
LEMMA RootMadeSays ==
  ASSUME TypeOK, RootMade
  PROVE  \E i \in Slots, l \in Localities, h \in NewHandles \cup {DEFAULT} :
           /\ contexts[i].state = "Inactive"
           /\ contexts'[i].state = "Active" /\ contexts'[i].handle = h
           /\ contexts'[i].locality = l /\ contexts'[i].parent_idx = ROOT_INDEX
           /\ contexts'[i].tci_cumulative = << >>
           /\ resp'.locality = l /\ resp'.used = NO_HANDLE /\ Told(h, NO_HANDLE)
           /\ \A k \in Slots \ {i} : contexts'[k] = contexts[k]
<1>1. PICK i \in Slots, type \in ContextType, l \in Localities, h \in NewHandles \cup {DEFAULT} :
        /\ contexts[i].state = "Inactive"
        /\ contexts' = [contexts EXCEPT ![i] = RootContext(type, l, h)]
        /\ resp'.locality = l /\ resp'.used = NO_HANDLE /\ Told(h, NO_HANDLE)
  BY DEF RootMade
<1>2. /\ contexts'[i] = RootContext(type, l, h)
      /\ \A k \in Slots \ {i} : contexts'[k] = contexts[k]
  BY <1>1 DEF TypeOK
<1>3. /\ contexts'[i].state = "Active" /\ contexts'[i].handle = h
      /\ contexts'[i].locality = l /\ contexts'[i].parent_idx = ROOT_INDEX
      /\ contexts'[i].tci_cumulative = << >>
  BY <1>2 DEF RootContext, Activated
<1>4. QED
  BY <1>1, <1>2, <1>3

(* A context measured for itself. *)
LEMMA SelfMeasuredSays ==
  ASSUME TypeOK, SelfMeasured
  PROVE  \E p, m, h :
           /\ p \in Named /\ m \in Measurements
           /\ h \in RollOnetimeUseHandle(contexts, contexts[p], {}) \ {NO_HANDLE}
           /\ contexts[p].allow_recursive /\ Told(h, DEFAULT)
           /\ contexts'[p].handle = h /\ contexts'[p].state = contexts[p].state
           /\ contexts'[p].locality = contexts[p].locality
           /\ contexts'[p].parent_idx = contexts[p].parent_idx
           /\ contexts'[p].children = contexts[p].children
           /\ contexts'[p].tci_cumulative = Append(contexts[p].tci_cumulative, m)
           /\ \A k \in Slots \ {p} : contexts'[k] = contexts[k]
<1>1. PICK p \in Slots, m \in Measurements :
        \E h \in RollOnetimeUseHandle(contexts, contexts[p], {}) \ {NO_HANDLE} :
          /\ p \in Named /\ contexts[p].allow_recursive
          /\ contexts' = [contexts EXCEPT ![p] = [Measured(@, m) EXCEPT !.handle = h]]
          /\ Told(h, DEFAULT)
  BY DEF SelfMeasured, Found
<1>2. PICK h \in RollOnetimeUseHandle(contexts, contexts[p], {}) \ {NO_HANDLE} :
          /\ p \in Named /\ contexts[p].allow_recursive
          /\ contexts' = [contexts EXCEPT ![p] = [Measured(@, m) EXCEPT !.handle = h]]
          /\ Told(h, DEFAULT)
  BY <1>1
<1>3. /\ contexts'[p].handle = h /\ contexts'[p].state = contexts[p].state
      /\ contexts'[p].locality = contexts[p].locality
      /\ contexts'[p].parent_idx = contexts[p].parent_idx
      /\ contexts'[p].children = contexts[p].children
      /\ contexts'[p].tci_cumulative = Append(contexts[p].tci_cumulative, m)
      /\ \A k \in Slots \ {p} : contexts'[k] = contexts[k]
  BY <1>2, SelfMeasuredFields
<1>4. QED
  BY <1>2, <1>3

(* A new child. *)
LEMMA ChildMadeSays ==
  ASSUME TypeOK, ChildMade
  PROVE  \E p, c, flags, l, m, ph, ch :
           /\ p \in Named /\ c \in Slots /\ flags \in DeriveFlagSets
           /\ l \in Localities /\ m \in Measurements
           /\ ph \in ParentHandles(contexts[p], flags) \ {NO_HANDLE}
           /\ ch \in ChildHandles(flags, ph) \ {NO_HANDLE}
           /\ c # p /\ contexts[c].state = "Inactive" /\ Told(ch, ph)
           /\ contexts'[p].handle = ph
           /\ contexts'[p].state =
                IF "RETAIN_PARENT_CONTEXT" \in flags THEN contexts[p].state ELSE "Retired"
           /\ contexts'[p].locality = contexts[p].locality
           /\ contexts'[p].parent_idx = contexts[p].parent_idx
           /\ contexts'[p].children = contexts[p].children \cup {c}
           /\ contexts'[p].tci_cumulative = contexts[p].tci_cumulative
           /\ contexts'[c].handle = ch /\ contexts'[c].state = "Active"
           /\ contexts'[c].locality = l /\ contexts'[c].parent_idx = p
           /\ contexts'[c].tci_cumulative = << m >>
           /\ \A k \in Slots \ {p, c} : contexts'[k] = contexts[k]
<1> DEFINE Made(p, c, flags, t, l, m, ph, ch) ==
             /\ p \in Named /\ contexts[c].state = "Inactive" /\ Told(ch, ph)
             /\ contexts' = WithChild(p, c, TmpParent(contexts[p], flags, ph),
                                      Measured(ChildContext(p, flags, t, l, ch), m))
<1>1. PICK p \in Slots, c \in Slots, flags \in DeriveFlagSets, t \in TciTypes,
           l \in Localities, m \in Measurements :
        \E ph \in ParentHandles(contexts[p], flags) \ {NO_HANDLE} :
        \E ch \in ChildHandles(flags, ph) \ {NO_HANDLE} : Made(p, c, flags, t, l, m, ph, ch)
  BY DEF ChildMade, Found
<1>2. PICK ph \in ParentHandles(contexts[p], flags) \ {NO_HANDLE} :
        \E ch \in ChildHandles(flags, ph) \ {NO_HANDLE} : Made(p, c, flags, t, l, m, ph, ch)
  BY <1>1
<1>3. PICK ch \in ChildHandles(flags, ph) \ {NO_HANDLE} : Made(p, c, flags, t, l, m, ph, ch)
  BY <1>2
<1>4. p # c
  BY <1>3, NamedIsActive
<1>5. /\ contexts'[p].handle = ph
      /\ contexts'[p].state =
           IF "RETAIN_PARENT_CONTEXT" \in flags THEN contexts[p].state ELSE "Retired"
      /\ contexts'[p].locality = contexts[p].locality
      /\ contexts'[p].parent_idx = contexts[p].parent_idx
      /\ contexts'[p].children = contexts[p].children \cup {c}
      /\ contexts'[p].tci_cumulative = contexts[p].tci_cumulative
      /\ contexts'[c].handle = ch /\ contexts'[c].state = "Active"
      /\ contexts'[c].locality = l /\ contexts'[c].parent_idx = p
      /\ contexts'[c].tci_cumulative = << m >>
      /\ \A k \in Slots \ {p, c} : contexts'[k] = contexts[k]
  BY <1>3, <1>4, ChildMadeFields
<1>6. p \in Named /\ contexts[c].state = "Inactive" /\ Told(ch, ph)
  BY <1>3
<1> HIDE DEF Made
<1>7. QED
  BY <1>4, <1>5, <1>6

(* An export: its context is destroyed, or keeps its children. *)
LEMMA CdiExportedSays ==
  ASSUME TypeOK, CdiExported
  PROVE  \E p \in Named :
           /\ Told(INVALID, contexts'[p].handle)
           /\ \/ /\ contexts' = DestroyContext(contexts, p) /\ contexts[p].children = {}
              \/ \E flags, ph :
                   /\ flags \in DeriveFlagSets
                   /\ ph \in ParentHandles(contexts[p], flags) \ {NO_HANDLE}
                   /\ contexts'[p].handle = ph
                   /\ contexts'[p].state =
                        IF "RETAIN_PARENT_CONTEXT" \in flags THEN contexts[p].state
                        ELSE "Retired"
                   /\ "RETAIN_PARENT_CONTEXT" \notin flags => contexts[p].children # {}
                   /\ contexts'[p].locality = contexts[p].locality
                   /\ contexts'[p].parent_idx = contexts[p].parent_idx
                   /\ contexts'[p].children = contexts[p].children
                   /\ contexts'[p].tci_cumulative = contexts[p].tci_cumulative
                   /\ \A k \in Slots \ {p} : contexts'[k] = contexts[k]
<1>1. PICK p \in Slots, flags \in DeriveFlagSets :
        \E ph \in ParentHandles(contexts[p], flags) \ {NO_HANDLE} :
          /\ p \in Named /\ contexts' = ParentAfterExport(p, flags, ph)
          /\ Told(INVALID, contexts'[p].handle)
  BY DEF CdiExported, CdiTaken, Found
<1>2. PICK ph \in ParentHandles(contexts[p], flags) \ {NO_HANDLE} :
          /\ p \in Named /\ contexts' = ParentAfterExport(p, flags, ph)
          /\ Told(INVALID, contexts'[p].handle)
  BY <1>1
<1>3. CASE "RETAIN_PARENT_CONTEXT" \notin flags /\ contexts[p].children = {}
  BY <1>2, <1>3 DEF ParentAfterExport
<1>4. CASE ~("RETAIN_PARENT_CONTEXT" \notin flags /\ contexts[p].children = {})
  <2>1. contexts' = [contexts EXCEPT ![p] = TmpParent(@, flags, ph)]
    BY <1>2, <1>4 DEF ParentAfterExport
  <2>2. /\ contexts'[p].handle = ph
        /\ contexts'[p].state =
             IF "RETAIN_PARENT_CONTEXT" \in flags THEN contexts[p].state ELSE "Retired"
        /\ contexts'[p].locality = contexts[p].locality
        /\ contexts'[p].parent_idx = contexts[p].parent_idx
        /\ contexts'[p].children = contexts[p].children
        /\ contexts'[p].tci_cumulative = contexts[p].tci_cumulative
        /\ \A k \in Slots \ {p} : contexts'[k] = contexts[k]
    BY <2>1, ReleasedFields
  <2>3. QED
    BY <1>2, <1>4, <2>2
<1>5. QED
  BY <1>3, <1>4

(* A handle changed and nothing else. *)
LEMMA RehandledSays ==
  ASSUME TypeOK, Rehandled
  PROVE  \E p \in Named, h \in NewHandles \cup {DEFAULT} :
           /\ h = DEFAULT => contexts[p].handle = DEFAULT \/ resp'.cmd = "RotateContextHandle"
           /\ Told(h, NO_HANDLE)
           /\ contexts'[p] = [contexts[p] EXCEPT !.handle = h]
           /\ contexts'[p].handle = h /\ contexts'[p].state = contexts[p].state
           /\ contexts'[p].locality = contexts[p].locality
           /\ contexts'[p].parent_idx = contexts[p].parent_idx
           /\ contexts'[p].tci_cumulative = contexts[p].tci_cumulative
           /\ \A k \in Slots \ {p} : contexts'[k] = contexts[k]
<1>1. PICK p \in Slots, h \in NewHandles \cup {DEFAULT} :
        /\ p \in Named
        /\ h = DEFAULT => contexts[p].handle = DEFAULT \/ resp'.cmd = "RotateContextHandle"
        /\ Told(h, NO_HANDLE)
        /\ contexts' = [contexts EXCEPT ![p].handle = h]
  BY DEF Rehandled, Found
<1>2. /\ contexts'[p] = [contexts[p] EXCEPT !.handle = h]
      /\ contexts'[p].handle = h /\ contexts'[p].state = contexts[p].state
      /\ contexts'[p].locality = contexts[p].locality
      /\ contexts'[p].parent_idx = contexts[p].parent_idx
      /\ contexts'[p].tci_cumulative = contexts[p].tci_cumulative
      /\ \A k \in Slots \ {p} : contexts'[k] = contexts[k]
  BY <1>1, RehandledFields
<1>3. QED
  BY <1>1, <1>2

(* Only the parent's handle changed. *)
LEMMA UpdateFailedSays ==
  ASSUME TypeOK, UpdateFailed
  PROVE  \E p \in Named :
           /\ resp'.status = "InternalError" /\ resp'.cmd = "UpdateContextMeasurement"
           /\ contexts'[p] = [contexts[p] EXCEPT !.handle = contexts'[p].handle]
           /\ contexts'[p].state = contexts[p].state
           /\ contexts'[p].parent_idx = contexts[p].parent_idx
           /\ contexts'[p].tci_cumulative = contexts[p].tci_cumulative
           /\ \A k \in Slots \ {p} : contexts'[k] = contexts[k]
<1>1. PICK p, ph :
        /\ p \in Slots /\ p \in Named /\ resp'.cmd = "UpdateContextMeasurement"
        /\ contexts' = [contexts EXCEPT ![p].handle = ph]
        /\ resp'.status = "InternalError"
  BY DEF UpdateFailed, Found
<1>2. /\ contexts'[p] = [contexts[p] EXCEPT !.handle = ph]
      /\ contexts'[p].handle = ph /\ contexts'[p].state = contexts[p].state
      /\ contexts'[p].parent_idx = contexts[p].parent_idx
      /\ contexts'[p].tci_cumulative = contexts[p].tci_cumulative
      /\ \A k \in Slots \ {p} : contexts'[k] = contexts[k]
  BY <1>1, RehandledFields
<1>3. QED
  BY <1>1, <1>2

(* A child measured, it and its parent rolled. *)
MeasuredChild(p, c, m, ph, ch) ==
  /\ p \in Named /\ c \in contexts[p].children /\ m \in Measurements
  /\ ph \in RollOnetimeUseHandle(contexts, contexts[p], {}) \ {NO_HANDLE}
  /\ ch \in SecondRolls(p, c, ph)
  /\ c \in Slots /\ c # p /\ contexts[c].state = "Active"
  /\ contexts[c].parent_idx = p /\ Told(ch, ph)
  /\ contexts'[p].handle = ph /\ contexts'[p].state = contexts[p].state
  /\ contexts'[p].locality = contexts[p].locality
  /\ contexts'[p].parent_idx = contexts[p].parent_idx
  /\ contexts'[p].children = contexts[p].children
  /\ contexts'[p].tci_cumulative = contexts[p].tci_cumulative
  /\ contexts'[c].handle = ch /\ contexts'[c].state = contexts[c].state
  /\ contexts'[c].locality = contexts[c].locality
  /\ contexts'[c].parent_idx = contexts[c].parent_idx
  /\ contexts'[c].tci_cumulative = Append(contexts[c].tci_cumulative, m)
  /\ \A k \in Slots \ {p, c} : contexts'[k] = contexts[k]

(* UpdateContextMeasurement, when it succeeds, is such a step. *)
LEMMA ChildMeasuredSays ==
  ASSUME TypeOK, LinksAgree, NoCycle, ChildMeasured
  PROVE  \E p, c, m, ph, ch : MeasuredChild(p, c, m, ph, ch)
<1> DEFINE Updated(p, c, m, ph, ch) ==
             /\ Found("UpdateContextMeasurement", p)
             /\ c \in contexts[p].children /\ contexts[c].state = "Active"
             /\ contexts' = [[contexts EXCEPT ![p].handle = ph] EXCEPT
                               ![c] = [Measured(@, m) EXCEPT !.handle = ch]]
             /\ Told(ch, ph)
<1>1. PICK p \in Slots, c \in Slots, m \in Measurements :
        \E ph \in RollOnetimeUseHandle(contexts, contexts[p], {}) \ {NO_HANDLE} :
        \E ch \in SecondRolls(p, c, ph) : Updated(p, c, m, ph, ch)
  BY Zenon DEF ChildMeasured
<1>2. PICK ph \in RollOnetimeUseHandle(contexts, contexts[p], {}) \ {NO_HANDLE} :
        \E ch \in SecondRolls(p, c, ph) : Updated(p, c, m, ph, ch)
  BY <1>1
<1>3. PICK ch \in SecondRolls(p, c, ph) : Updated(p, c, m, ph, ch)
  BY <1>2
<1>4. c # p /\ contexts[c].parent_idx = p
  BY <1>3, NamedIsActive, ChildIsAnother DEF Found
<1>5. /\ contexts'[p].handle = ph /\ contexts'[p].state = contexts[p].state
      /\ contexts'[p].locality = contexts[p].locality
      /\ contexts'[p].parent_idx = contexts[p].parent_idx
      /\ contexts'[p].children = contexts[p].children
      /\ contexts'[p].tci_cumulative = contexts[p].tci_cumulative
      /\ contexts'[c].handle = ch /\ contexts'[c].state = contexts[c].state
      /\ contexts'[c].locality = contexts[c].locality
      /\ contexts'[c].parent_idx = contexts[c].parent_idx
      /\ contexts'[c].tci_cumulative = Append(contexts[c].tci_cumulative, m)
      /\ \A k \in Slots \ {p, c} : contexts'[k] = contexts[k]
  <2>1. contexts' = [[contexts EXCEPT ![p].handle = ph] EXCEPT
                       ![c] = [Measured(@, m) EXCEPT !.handle = ch]]
    BY <1>3
  <2> HIDE DEF Updated
  <2> DEFINE d == [Measured(contexts[c], m) EXCEPT !.handle = ch]
             e == [contexts[p] EXCEPT !.handle = ph]
  <2>2. contexts[p] \in Context /\ contexts[c] \in Context
    BY DEF TypeOK
  <2>3. contexts'[p] = e /\ contexts'[c] = d /\ \A k \in Slots \ {p, c} : contexts'[k] = contexts[k]
    BY <1>4, <2>1 DEF TypeOK
  <2>4. /\ e.handle = ph /\ e.state = contexts[p].state
        /\ e.locality = contexts[p].locality
        /\ e.parent_idx = contexts[p].parent_idx
        /\ e.children = contexts[p].children
        /\ e.tci_cumulative = contexts[p].tci_cumulative
    BY <2>2 DEF Context
  <2>5. /\ d.handle = ch /\ d.state = contexts[c].state /\ d.locality = contexts[c].locality
        /\ d.parent_idx = contexts[c].parent_idx
        /\ d.tci_cumulative = Append(contexts[c].tci_cumulative, m)
    BY <2>2, MeasuredFields
  <2> HIDE DEF d, e
  <2>6. QED
    BY <2>3, <2>4, <2>5
<1>6. p \in Named /\ c \in contexts[p].children /\ contexts[c].state = "Active" /\ Told(ch, ph)
  BY <1>3 DEF Found
<1> HIDE DEF Updated
<1>7. QED
  BY <1>4, <1>5, <1>6 DEF MeasuredChild

-----------------------------------------------------------------------------
(***************************************************************************)
(* What a failed command leaves behind.                                    *)
(***************************************************************************)

(***************************************************************************)
(* A command that fails before its response is written leaves every        *)
(* context and has_initialized as they were: each handler of dpe/src/      *)
(* commands/ works on copies and commits after its last fallible call,     *)
(* UpdateContextMeasurement apart (OtherFailuresKeepContexts).             *)
(***************************************************************************)
THEOREM FailuresCorrect == Spec => OtherFailuresKeepContexts
<1> DEFINE Other == resp'.status \notin {"NoError", "InvalidResponseBuf"}
                    /\ resp'.cmd # "UpdateContextMeasurement"
<1>1. ASSUME TypeOK, Next, Other
      PROVE  UNCHANGED << contexts, has_initialized >>
  <2>1. CASE Unchanged
    BY <2>1 DEF Unchanged, state_vars
  <2>2. CASE \/ RootMade \/ SelfMeasured \/ ChildMade \/ CdiExported
             \/ TreeDestroyed \/ Rehandled \/ ChildMeasured
    <3>1. \E h, ph : Told(h, ph)
      <4>1. RootMade \/ SelfMeasured => \E h, ph : Told(h, ph)
        BY DEF RootMade, SelfMeasured
      <4>2. ChildMade \/ CdiExported => \E h, ph : Told(h, ph)
        BY DEF ChildMade, CdiExported
      <4>3. TreeDestroyed \/ Rehandled => \E h, ph : Told(h, ph)
        BY DEF TreeDestroyed, Rehandled
      <4>4. ChildMeasured => \E h, ph : Told(h, ph)
        BY DEF ChildMeasured
      <4>5. QED
        BY <2>2, <4>1, <4>2, <4>3, <4>4
    <3>2. QED
      BY <1>1, <3>1 DEF Told
  <2>3. CASE ExportFailed
    BY <2>3 DEF ExportFailed, CdiTaken
  <2>4. CASE UpdateFailed
    BY <1>1, <2>4 DEF UpdateFailed, Found
  <2>5. QED
    BY <1>1, <2>1, <2>2, <2>3, <2>4, StepOutcome DEF Outcome
<1>2. TypeOK /\ [Next]_vars => [Other => UNCHANGED << contexts, has_initialized >>]_vars
  <2> HIDE DEF Other
  <2> QED
    BY <1>1
<1>3. QED
  BY TypeCorrect, <1>2, PTL DEF Spec, OtherFailuresKeepContexts

(***************************************************************************)
(* A caller of Sign or CertifyKey that gets an error, a short response     *)
(* buffer included, still holds a good handle, and where CertifyKey fails  *)
(* after its commit, on the header of its response, no more than that      *)
(* handle is lost (FailedKeyUseKeepsHandle).                               *)
(***************************************************************************)
THEOREM KeyUseCorrect == Spec => FailedKeyUseKeepsHandle
<1> DEFINE FailedUse == ~Succeeded /\ resp'.cmd \in {"Sign", "CertifyKey"}
           Lost == HeaderRefused /\ \E i \in Named :
                     contexts' = [contexts EXCEPT ![i].handle = contexts'[i].handle]
           Kept == UNCHANGED contexts \/ Lost
<1>1. ASSUME TypeOK, Next, FailedUse
      PROVE  Kept
  <2>1. CASE Unchanged
    BY <2>1 DEF Unchanged, state_vars
  <2>2. CASE RootMade
    BY <1>1, <2>2 DEF RootMade
  <2>3. CASE SelfMeasured \/ ChildMade \/ ExportFailed \/ CdiExported
    <3>1. resp'.cmd = "DeriveContext"
      BY <2>3 DEF SelfMeasured, ChildMade, ExportFailed, CdiExported, CdiTaken, Found
    <3>2. QED
      BY <1>1, <3>1
  <2>4. CASE TreeDestroyed \/ UpdateFailed \/ ChildMeasured
    <3>1. resp'.cmd \in {"DestroyContext", "UpdateContextMeasurement"}
      BY <2>4 DEF TreeDestroyed, UpdateFailed, ChildMeasured, Found
    <3>2. QED
      BY <1>1, <3>1
  <2>5. CASE Rehandled
    <3>1. PICK p \in Slots, h \in NewHandles \cup {DEFAULT} :
            /\ p \in Named /\ HeaderRefused
            /\ contexts' = [contexts EXCEPT ![p].handle = h]
      BY <1>1, <2>5 DEF Rehandled, Found
    <3>2. contexts'[p].handle = h
      BY <1>1, <3>1 DEF TypeOK, Context
    <3>3. Lost
      BY <3>1, <3>2
    <3>4. QED
      BY <3>3
  <2>6. QED
    BY <1>1, <2>1, <2>2, <2>3, <2>4, <2>5, StepOutcome DEF Outcome
<1>2. TypeOK /\ [Next]_vars => [FailedUse => Kept]_vars
  <2> HIDE DEF FailedUse, Kept
  <2> QED
    BY <1>1
<1>3. QED
  BY TypeCorrect, <1>2, PTL DEF Spec, FailedKeyUseKeepsHandle

(***************************************************************************)
(* The one handler that commits twice, UpdateContextMeasurement, leaves    *)
(* the contexts as they were but for the parent's handle when its second   *)
(* draw fails (FailedUpdateOnlyRollsParent).                               *)
(***************************************************************************)
THEOREM FailedUpdateCorrect == Spec => FailedUpdateOnlyRollsParent
<1> DEFINE Failed == resp'.cmd = "UpdateContextMeasurement" /\ resp'.status = "InternalError"
           Rolls(i) ==
             contexts'[i] = [contexts[i] EXCEPT
                               !.handle = IF i \in Named THEN contexts'[i].handle ELSE @]
<1>1. ASSUME TypeOK, Next, Failed, NEW i \in Slots
      PROVE  Rolls(i)
  <2>1. contexts[i] \in Context
    BY <1>1 DEF TypeOK
  <2>2. contexts'[i] = contexts[i] => Rolls(i)
    BY <2>1 DEF Context
  <2>3. CASE Unchanged
    BY <2>2, <2>3 DEF Unchanged, state_vars
  <2>4. CASE UpdateFailed
    <3>1. PICK p \in Slots :
             \E ph \in RollOnetimeUseHandle(contexts, contexts[p], {}) \ {NO_HANDLE} :
               /\ Found("UpdateContextMeasurement", p)
               /\ contexts' = [contexts EXCEPT ![p].handle = ph]
      BY <2>4 DEF UpdateFailed
    <3>2. PICK ph : p \in Named /\ contexts' = [contexts EXCEPT ![p].handle = ph]
      BY <3>1 DEF Found
    <3>3. CASE i = p
      <4>1. /\ contexts'[i] = [contexts[i] EXCEPT !.handle = ph] /\ contexts'[i].handle = ph
        BY <1>1, <3>2, <3>3, RehandledFields
      <4>2. QED
        BY <3>2, <3>3, <4>1
    <3>4. CASE i # p
      BY <1>1, <2>2, <3>2, <3>4, RehandledFields
    <3>5. QED
      BY <3>3, <3>4
  <2>5. CASE RootMade \/ SelfMeasured \/ ChildMade \/ ExportFailed \/ CdiExported
    <3>1. resp'.cmd \in {"InitializeContext", "DeriveContext"}
      BY <2>5 DEF RootMade, SelfMeasured, ChildMade, ExportFailed, CdiExported, CdiTaken, Found
    <3>2. QED
      BY <1>1, <3>1
  <2>6. CASE TreeDestroyed \/ Rehandled
    <3>1. resp'.cmd \in {"DestroyContext", "RotateContextHandle", "Sign", "CertifyKey"}
      BY <2>6 DEF TreeDestroyed, Rehandled, Found
    <3>2. QED
      BY <1>1, <3>1
  <2>7. CASE ChildMeasured
    BY <1>1, <2>7 DEF ChildMeasured, Told
  <2>8. QED
    BY <1>1, <2>3, <2>4, <2>5, <2>6, <2>7, StepOutcome DEF Outcome
<1>2. TypeOK /\ [Next]_vars => [Failed => \A i \in Slots : Rolls(i)]_vars
  <2> HIDE DEF Failed, Rolls
  <2> QED
    BY <1>1
<1>3. QED
  BY TypeCorrect, <1>2, PTL DEF Spec, FailedUpdateOnlyRollsParent
-----------------------------------------------------------------------------
(***************************************************************************)
(* Handles are good for one command.                                       *)
(***************************************************************************)

(* A context still active after a destruction is not the destroyed one, and *)
(* is what it was but for its children.                                     *)
LEMMA DestroyedIsGone ==
  ASSUME TypeOK, NEW p \in Slots, contexts' = DestroyContext(contexts, p), NEW k \in Slots,
         contexts'[k].state = "Active"
  PROVE  k # p /\ Same(k)
<1>1. p \in ToDestroy(contexts, p)
  BY DEF ToDestroy
<1>2. k \notin ToDestroy(contexts, p)
  BY DestroyFields
<1>3. QED
  BY <1>1, <1>2, DestroyFields DEF Same, SamePlace

(* When the handle of an active context is unique, and every context but    *)
(* that one keeps its handle or gets another, no context answers to it.     *)
LEMMA NobodyAnswers ==
  ASSUME HandlesUnique, NEW p \in Named, resp'.used # DEFAULT,
         \A k \in Slots : contexts'[k].state = "Active" =>
           \/ k # p /\ Same(k)
           \/ contexts'[k].handle # resp'.used
  PROVE  \A i \in Slots :
           ~(contexts'[i].state = "Active" /\ contexts'[i].handle = resp'.used)
<1>1. p \in Slots /\ contexts[p].state = "Active" /\ contexts[p].handle = resp'.used
  BY DEF Named, ActiveWith, ActiveIn
<1>2. \A k \in Slots \ {p} : contexts[k].state = "Active" => contexts[k].handle # resp'.used
  BY <1>1 DEF HandlesUnique, ActiveSlots
<1>3. QED
  BY <1>2 DEF Same

(***************************************************************************)
(* A random source that repeats nothing within a command makes a handle    *)
(* good for one command: whichever locality used it, no context of any     *)
(* locality answers to it afterwards (HandleIsOneTimeUse).  The rolled     *)
(* handle differs from every one in the array, UpdateContextMeasurement's  *)
(* second draw also from the one it has just replaced.                     *)
(***************************************************************************)
THEOREM OneTimeUseCorrect == ~RNG_MAY_REPEAT => (Spec => HandleIsOneTimeUse)
<1> SUFFICES ASSUME ~RNG_MAY_REPEAT
             PROVE  Spec => HandleIsOneTimeUse
  OBVIOUS
<1> DEFINE Used == Succeeded /\ resp'.used \notin {NO_HANDLE, DEFAULT}
           Gone(i) == ~(contexts'[i].state = "Active" /\ contexts'[i].handle = resp'.used)
<1>1. ASSUME TypeOK, LinksAgree, NoCycle, HandlesUnique, Next, Used
      PROVE  \A i \in Slots : Gone(i)
  <2> DEFINE Else(p) == \A k \in Slots : contexts'[k].state = "Active" =>
                          \/ k # p /\ Same(k)
                          \/ contexts'[k].handle # resp'.used
  <2>1. SUFFICES \E p \in Named : Else(p)
    BY <1>1, NobodyAnswers
  <2>2. \A k \in Slots : contexts'[k] = contexts[k] => Same(k)
    BY DEF Same
  <2>3. \A p \in Named : /\ p \in Slots /\ contexts[p].state = "Active"
                         /\ contexts[p].handle = resp'.used
    BY DEF Named, ActiveWith, ActiveIn
  <2>4. CASE Unchanged \/ RootMade
    BY <1>1, <2>4 DEF Unchanged, RootMade
  <2>5. CASE SelfMeasured
    <3>1. PICK p, h :
            /\ p \in Named /\ h \in RollOnetimeUseHandle(contexts, contexts[p], {}) \ {NO_HANDLE}
            /\ contexts'[p].handle = h /\ \A k \in Slots \ {p} : contexts'[k] = contexts[k]
      BY <1>1, <2>5, SelfMeasuredSays
    <3>2. h # resp'.used
      BY <1>1, <2>3, <3>1, RollIsFresh
    <3>3. QED
      BY <2>2, <3>1, <3>2
  <2>6. CASE ChildMade
    <3>1. PICK p, c, flags, ph, ch :
            /\ p \in Named /\ ph \in ParentHandles(contexts[p], flags) \ {NO_HANDLE}
            /\ ch \in ChildHandles(flags, ph) \ {NO_HANDLE}
            /\ contexts'[p].handle = ph
            /\ contexts'[p].state =
                 IF "RETAIN_PARENT_CONTEXT" \in flags THEN contexts[p].state ELSE "Retired"
            /\ contexts'[c].handle = ch
            /\ \A k \in Slots \ {p, c} : contexts'[k] = contexts[k]
      BY <1>1, <2>6, ChildMadeSays
    <3>2. ch # resp'.used
      BY <1>1, <2>3, <3>1, DrawnIsFresh DEF ChildHandles
    <3>3. contexts'[p].state = "Active" => ph # resp'.used
      BY <1>1, <2>3, <3>1, RollIsFresh DEF ParentHandles
    <3>4. QED
      BY <2>2, <3>1, <3>2, <3>3
  <2>7. CASE TreeDestroyed
    <3>1. PICK p \in Named : contexts' = DestroyContext(contexts, p)
      BY <2>7 DEF TreeDestroyed, Found
    <3>2. QED
      BY <1>1, <2>3, <3>1, DestroyedIsGone
  <2>8. CASE CdiExported
    <3>1. PICK p \in Named :
            \/ contexts' = DestroyContext(contexts, p)
            \/ \E flags, ph :
                 /\ ph \in ParentHandles(contexts[p], flags) \ {NO_HANDLE}
                 /\ contexts'[p].handle = ph
                 /\ contexts'[p].state =
                      IF "RETAIN_PARENT_CONTEXT" \in flags THEN contexts[p].state ELSE "Retired"
                 /\ \A k \in Slots \ {p} : contexts'[k] = contexts[k]
      BY <1>1, <2>8, CdiExportedSays
    <3>2. CASE contexts' = DestroyContext(contexts, p)
      BY <1>1, <2>3, <3>1, <3>2, DestroyedIsGone
    <3>3. ASSUME NEW flags, NEW ph \in ParentHandles(contexts[p], flags) \ {NO_HANDLE},
                 contexts'[p].handle = ph,
                 contexts'[p].state =
                   IF "RETAIN_PARENT_CONTEXT" \in flags THEN contexts[p].state ELSE "Retired",
                 \A k \in Slots \ {p} : contexts'[k] = contexts[k]
          PROVE  Else(p)
      <4>1. contexts'[p].state = "Active" => ph # resp'.used
        BY <1>1, <2>3, <3>3, RollIsFresh DEF ParentHandles
      <4>2. QED
        BY <2>2, <3>3, <4>1
    <3>4. QED
      BY <3>1, <3>2, <3>3
  <2>9. CASE Rehandled
    <3>1. PICK p \in Named, h \in NewHandles \cup {DEFAULT} :
             contexts'[p].handle = h /\ \A k \in Slots \ {p} : contexts'[k] = contexts[k]
      BY <1>1, <2>9, RehandledSays
    <3>2. h # resp'.used
      BY <1>1, <2>3, DrawnIsFresh DEF NewHandles
    <3>3. QED
      BY <2>2, <3>1, <3>2
  <2>10. CASE ChildMeasured
    <3>1. PICK p, c, m, ph, ch : MeasuredChild(p, c, m, ph, ch)
      BY <1>1, <2>10, ChildMeasuredSays
    <3> USE <3>1 DEF MeasuredChild
    <3>2. ph # resp'.used
      BY <1>1, <2>3, <3>1, RollIsFresh
    <3>3. ch # resp'.used
      BY <1>1, <3>1, DrawnIsFresh DEF SecondRolls, RollOnetimeUseHandle
    <3>4. QED
      BY <2>2, <3>1, <3>2, <3>3
  <2>11. CASE ExportFailed \/ UpdateFailed
    BY <1>1, <2>11 DEF ExportFailed, UpdateFailed, Succeeded
  <2>12. QED
    BY <1>1, <2>4, <2>5, <2>6, <2>7, <2>8, <2>9, <2>10, <2>11, StepOutcome DEF Outcome
<1>2. TypeOK /\ LinksAgree /\ NoCycle /\ HandlesUnique /\ [Next]_vars
        => [Used => \A i \in Slots : Gone(i)]_vars
  <2> HIDE DEF Used, Gone
  <2> QED
    BY <1>1
<1>3. QED
  BY TypeCorrect, LinksCorrect, NoCycleCorrect, HandlesCorrect, <1>2, PTL
     DEF Spec, HandleIsOneTimeUse
-----------------------------------------------------------------------------
(***************************************************************************)
(* Measurements.                                                           *)
(***************************************************************************)

(***************************************************************************)
(* A measurement is added to a live context only by DeriveContext with     *)
(* RECURSIVE, on the context it names, or by UpdateContextMeasurement, on  *)
(* a child of the one it names; one at a time, and never taken back by     *)
(* another command (MeasurementsAreExtended).                              *)
(***************************************************************************)
THEOREM MeasurementsCorrect == Spec => MeasurementsAreExtended
<1> DEFINE old(i) == contexts[i].tci_cumulative
           new(i) == contexts'[i].tci_cumulative
           Extended(i) ==
             /\ resp'.status \in {"NoError", "InvalidResponseBuf"}
             /\ \E m \in Measurements : new(i) = Append(old(i), m)
             /\ \/ i \in Named /\ contexts[i].allow_recursive
                \/ contexts[i].parent_idx \in Named
           Fair(i) == new(i) # old(i) /\ contexts'[i].state # "Inactive" => Extended(i)
<1>1. ASSUME TypeOK, LinksAgree, NoCycle, Next, NEW i \in Live(contexts)
      PROVE  Fair(i)
  <2>1. i \in Slots /\ contexts[i].state # "Inactive"
    BY DEF Live
  <2>2. contexts'[i] = contexts[i] => Fair(i)
    OBVIOUS
  <2>3. \A h, ph : Told(h, ph) => resp'.status \in {"NoError", "InvalidResponseBuf"}
    BY DEF Told
  <2>4. CASE Unchanged \/ ExportFailed
    BY <2>2, <2>4 DEF Unchanged, ExportFailed, state_vars
  <2>5. CASE RootMade
    BY <1>1, <2>1, <2>2, <2>5, RootMadeSays
  <2>6. CASE SelfMeasured
    <3>1. PICK p, m, h :
            /\ p \in Named /\ m \in Measurements /\ contexts[p].allow_recursive
            /\ Told(h, DEFAULT) /\ new(p) = Append(old(p), m)
            /\ \A k \in Slots \ {p} : contexts'[k] = contexts[k]
      BY <1>1, <2>6, SelfMeasuredSays
    <3>2. i = p => Extended(i)
      BY <2>3, <3>1
    <3>3. QED
      BY <2>1, <2>2, <3>1, <3>2
  <2>7. CASE ChildMade
    <3>1. PICK p, c :
            /\ contexts[c].state = "Inactive" /\ new(p) = old(p)
            /\ \A k \in Slots \ {p, c} : contexts'[k] = contexts[k]
      BY <1>1, <2>7, ChildMadeSays
    <3>2. QED
      BY <2>1, <2>2, <3>1
  <2>8. ASSUME NEW p \in Slots, contexts' = DestroyContext(contexts, p)
        PROVE  Fair(i)
    BY <1>1, <2>1, <2>8, DestroyFields
  <2>9. CASE CdiExported
    <3>1. PICK p \in Named :
            \/ contexts' = DestroyContext(contexts, p)
            \/ new(p) = old(p) /\ \A k \in Slots \ {p} : contexts'[k] = contexts[k]
      BY <1>1, <2>9, CdiExportedSays
    <3>2. CASE contexts' = DestroyContext(contexts, p)
      BY <2>8, <3>2, NamedIsActive
    <3>3. CASE new(p) = old(p) /\ \A k \in Slots \ {p} : contexts'[k] = contexts[k]
      BY <2>1, <2>2, <3>3
    <3>4. QED
      BY <3>1, <3>2, <3>3
  <2>10. CASE TreeDestroyed
    BY <2>8, <2>10 DEF TreeDestroyed
  <2>11. CASE Rehandled \/ UpdateFailed
    <3>1. PICK p : new(p) = old(p) /\ \A k \in Slots \ {p} : contexts'[k] = contexts[k]
      BY <1>1, <2>11, RehandledSays, UpdateFailedSays
    <3>2. QED
      BY <2>1, <2>2, <3>1
  <2>12. CASE ChildMeasured
    <3>1. PICK p, c, m, ph, ch : MeasuredChild(p, c, m, ph, ch)
      BY <1>1, <2>12, ChildMeasuredSays
    <3> USE <3>1 DEF MeasuredChild
    <3>2. i = c => Extended(i)
      BY <2>3, <3>1
    <3>3. QED
      BY <2>1, <2>2, <3>1, <3>2
  <2>13. QED
    BY <1>1, <2>4, <2>5, <2>6, <2>7, <2>9, <2>10, <2>11, <2>12, StepOutcome DEF Outcome
<1>2. TypeOK /\ LinksAgree /\ NoCycle /\ [Next]_vars
        => [\A i \in Live(contexts) : Fair(i)]_vars
  <2> HIDE DEF Fair
  <2> QED
    BY <1>1
<1>3. QED
  BY TypeCorrect, LinksCorrect, NoCycleCorrect, <1>2, PTL DEF Spec, MeasurementsAreExtended
-----------------------------------------------------------------------------
(***************************************************************************)
(* Ancestors.                                                              *)
(***************************************************************************)

(* A live context is in its own lineage, and so are the parents of those    *)
(* that are.                                                                *)
LEMMA LineageIsClosed ==
  ASSUME TypeOK, NEW i \in Slots
  PROVE  /\ i \in Lineage(contexts, i) /\ Lineage(contexts, i) \subseteq Slots
         /\ \A j \in Lineage(contexts, i) : ParentOf(contexts, j) \subseteq Lineage(contexts, i)
<1> DEFINE up == [j \in Slots |-> ParentOf(contexts, j)]
<1>1. up \in [Slots -> SUBSET Slots]
  BY DEF TypeOK, Context, ParentOf
<1>2. {i} \in SUBSET Slots
  OBVIOUS
<1>3. /\ Reachable({i}, up) \subseteq Slots /\ {i} \subseteq Reachable({i}, up)
      /\ \A j \in Reachable({i}, up) : up[j] \subseteq Reachable({i}, up)
  <2> HIDE DEF up
  <2> QED
    BY <1>1, <1>2, ReachableIsClosed
<1>4. QED
  BY <1>3 DEF Lineage

(* It is the least such set. *)
LEMMA LineageIsLeast ==
  ASSUME NEW i \in Slots, NEW D \in SUBSET Slots, i \in D,
         \A j \in D : ParentOf(contexts, j) \subseteq D
  PROVE  Lineage(contexts, i) \subseteq D
<1> DEFINE up == [j \in Slots |-> ParentOf(contexts, j)]
<1>1. {i} \subseteq D /\ \A j \in D : up[j] \subseteq D
  OBVIOUS
<1> HIDE DEF up
<1>2. Reachable({i}, up) \subseteq D
  BY <1>1, ReachableIsLeast
<1>3. QED
  BY <1>2 DEF Lineage, up

(* The lineage of a child contains that of its parent. *)
LEMMA ChildExtendsLineage ==
  ASSUME TypeOK, NEW j \in Slots, NEW k \in Slots, contexts[k].parent_idx = j
  PROVE  Lineage(contexts, j) \subseteq Lineage(contexts, k)
<1>1. j # ROOT_INDEX
  BY SlotsAssumption DEF Slots, ROOT_INDEX
<1>2. j \in Lineage(contexts, k)
  BY <1>1, LineageIsClosed DEF ParentOf
<1>3. QED
  BY <1>2, LineageIsClosed, LineageIsLeast

(***************************************************************************)
(* The two walks agree: whatever get_descendants finds below a context has *)
(* it among its ancestors.                                                 *)
(***************************************************************************)
LEMMA DescendantHasAncestor ==
  ASSUME TypeOK, LinksAgree, NEW p \in Live(contexts)
  PROVE  \A k \in Descendants(contexts, p) : p \in Lineage(contexts, k)
<1> DEFINE down == [j \in Slots |-> contexts[j].children]
           D    == {k \in Live(contexts) : p \in Lineage(contexts, k)}
<1>1. p \in Slots /\ \A k \in Live(contexts) : k \in Slots
  BY DEF Live
<1>2. \A j \in Live(contexts) : \A k \in contexts[j].children :
        k \in Live(contexts) /\ contexts[k].parent_idx = j
  BY DEF LinksAgree
<1>3. ASSUME NEW j \in D, NEW k \in contexts[j].children
      PROVE  k \in D
  BY <1>1, <1>2, ChildExtendsLineage
<1>4. p \in D
  BY <1>1, LineageIsClosed
<1>5. D \in SUBSET Slots /\ contexts[p].children \subseteq D
  BY <1>1, <1>3, <1>4
<1>6. \A j \in D : down[j] \subseteq D
  BY <1>1, <1>3
<1> HIDE DEF down, D
<1>7. Reachable(contexts[p].children, down) \subseteq D
  BY <1>5, <1>6, ReachableIsLeast
<1>8. QED
  BY <1>7 DEF Descendants, down, D

-----------------------------------------------------------------------------
(***************************************************************************)
(* The reach of a command.                                                 *)
(***************************************************************************)

(***************************************************************************)
(* Whatever active context a command changes, beyond its children bitmap,  *)
(* the caller holds the handle of one of its ancestors or its own: one     *)
(* locality's commands do not reach the contexts another has derived from  *)
(* elsewhere (OthersAreUntouched).  DestroyContext is the far-reaching     *)
(* one, down to every descendant and up to retired ancestors only.         *)
(***************************************************************************)
THEOREM ReachCorrect == Spec => OthersAreUntouched
<1> DEFINE Untouched(i) ==
             contexts'[i] = [contexts[i] EXCEPT !.children = contexts'[i].children]
           Owned(i) == Named \cap Lineage(contexts, i) # {}
           Reach ==
             \A i \in ActiveSlots :
               \/ contexts'[i] = [contexts[i] EXCEPT !.children = contexts'[i].children]
               \/ Named \cap Lineage(contexts, i) # {}
<1>1. ASSUME TypeOK, LinksAgree, NoCycle, Next, NEW i \in ActiveSlots
      PROVE  Untouched(i) \/ Owned(i)
  <2>1. i \in Slots /\ contexts[i].state = "Active" /\ contexts[i] \in Context
    BY <1>1 DEF ActiveSlots, TypeOK
  <2>2. contexts'[i] = contexts[i] => Untouched(i)
    BY <2>1 DEF Context
  <2>3. i \in Named => Owned(i)
    BY <1>1, <2>1, LineageIsClosed
  <2>4. CASE Unchanged \/ ExportFailed
    BY <2>2, <2>4 DEF Unchanged, ExportFailed, state_vars
  <2>5. CASE RootMade
    BY <1>1, <2>1, <2>2, <2>5, RootMadeSays
  <2>6. CASE SelfMeasured \/ Rehandled \/ UpdateFailed
    <3>1. PICK p \in Named : \A k \in Slots \ {p} : contexts'[k] = contexts[k]
      BY <1>1, <2>6, SelfMeasuredSays, RehandledSays, UpdateFailedSays
    <3>2. QED
      BY <2>1, <2>2, <2>3, <3>1
  <2>7. CASE ChildMade
    <3>1. PICK p, c : /\ p \in Named /\ contexts[c].state = "Inactive"
                      /\ \A k \in Slots \ {p, c} : contexts'[k] = contexts[k]
      BY <1>1, <2>7, ChildMadeSays
    <3>2. QED
      BY <2>1, <2>2, <2>3, <3>1
  <2>8. ASSUME NEW p \in Named, contexts' = DestroyContext(contexts, p)
        PROVE  Untouched(i) \/ Owned(i)
    <3>1. p \in Slots /\ p \in Live(contexts)
      BY NamedIsActive
    <3>2. CASE i \notin ToDestroy(contexts, p)
      <4>1. contexts'[i] = [contexts[i] EXCEPT !.children = @ \ ToDestroy(contexts, p)]
        BY <2>1, <2>8, <3>2 DEF DestroyContext
      <4>2. QED
        BY <2>1, <4>1 DEF Context
    <3>3. CASE i \in Descendants(contexts, p)
      BY <1>1, <3>1, <3>3, DescendantHasAncestor
    <3>4. CASE i = p
      BY <2>3, <3>4
    <3>5. i \notin RetiredAncestors(contexts, p)
      <4>1. contexts \in [Slots -> Context]
        BY <1>1 DEF TypeOK
      <4>2. i \in RetiredAncestors(contexts, p) =>
              \E k \in RetiredAncestors(contexts, p) \cup {p} :
                k \in Slots /\ i \in LoneRetiredParent(contexts, k)
        BY <3>1, <4>1, RetiredAncestorsAreClosed
      <4>3. QED
        BY <2>1, <4>1, <4>2, LoneRetiredParentIs
    <3>6. QED
      BY <3>2, <3>3, <3>4, <3>5 DEF ToDestroy
  <2>9. CASE CdiExported
    <3>1. PICK p \in Named :
            \/ contexts' = DestroyContext(contexts, p)
            \/ \A k \in Slots \ {p} : contexts'[k] = contexts[k]
      BY <1>1, <2>9, CdiExportedSays
    <3>2. QED
      BY <2>1, <2>2, <2>3, <2>8, <3>1
  <2>10. CASE TreeDestroyed
    BY <2>8, <2>10 DEF TreeDestroyed, Found
  <2>11. CASE ChildMeasured
    <3>1. PICK p, c, m, ph, ch : MeasuredChild(p, c, m, ph, ch)
      BY <1>1, <2>11, ChildMeasuredSays
    <3>2. /\ p \in Named /\ p \in Slots /\ c \in Slots /\ contexts[c].parent_idx = p
          /\ \A k \in Slots \ {p, c} : contexts'[k] = contexts[k]
      BY <3>1, NamedIsActive DEF MeasuredChild
    <3>3. p \in Lineage(contexts, c)
      BY <1>1, <3>2, ChildExtendsLineage, LineageIsClosed
    <3>4. QED
      BY <2>1, <2>2, <2>3, <3>2, <3>3
  <2>12. QED
    BY <1>1, <2>4, <2>5, <2>6, <2>7, <2>9, <2>10, <2>11, StepOutcome DEF Outcome
<1>2. TypeOK /\ LinksAgree /\ NoCycle /\ [Next]_vars
        => [Reach]_vars
  <2> HIDE DEF Untouched, Owned
  <2>1. (\A i \in ActiveSlots : Untouched(i) \/ Owned(i)) => Reach
    BY DEF Untouched, Owned
  <2> HIDE DEF Reach
  <2> QED
    BY <1>1, <2>1
<1>3. QED
  BY TypeCorrect, LinksCorrect, NoCycleCorrect, <1>2, PTL DEF Spec, OthersAreUntouched

(***************************************************************************)
(* A CDI is exported only from an active context, for the holder of its    *)
(* handle, when no ancestor of the context is a simulation context or has  *)
(* been denied the export; it is the one of that lineage's measurements    *)
(* (ExportIsPermitted).  DeriveContext looks at the named context alone:   *)
(* that this is enough is PermissionsInherited and OneNormalTree.          *)
(***************************************************************************)
THEOREM ExportCorrect == Spec => ExportIsPermitted
<1> DEFINE Permitted(cdi) ==
             \E i \in Named :
               /\ cdi = MeasurementHash(contexts, i)
               /\ \A k \in Lineage(contexts, i) :
                    contexts[k].allow_export_cdi /\ contexts[k].context_type = "Normal"
<1>1. ASSUME TypeOK, LinksAgree, PermissionsInherited, OneNormalTree, Next,
             NEW cdi \in export_cdi_slots' \ export_cdi_slots
      PROVE  Permitted(cdi)
  <2>1. CASE \E p \in Slots, flags \in DeriveFlagSets : CdiTaken(p, flags)
    <3>1. PICK p \in Slots, flags \in DeriveFlagSets : CdiTaken(p, flags)
      BY <2>1
    <3>2. p \in Named /\ cdi = MeasurementHash(contexts, p)
      BY <1>1, <3>1 DEF CdiTaken, Found
    <3>3. contexts[p].allow_export_cdi /\ contexts[p].context_type # "Simulation"
      BY <3>1 DEF CdiTaken, DerivePermitted
    <3>4. p \in Live(contexts) /\ contexts[p].context_type = "Normal"
      BY <1>1, <3>2, <3>3, NamedIsActive DEF TypeOK, Context, ContextType
    <3> DEFINE D == {k \in Live(contexts) :
                       contexts[k].allow_export_cdi /\ contexts[k].context_type = "Normal"}
    <3>5. D \in SUBSET Slots /\ p \in D
      BY <3>3, <3>4 DEF Live
    <3>6. ASSUME NEW k \in D
          PROVE  ParentOf(contexts, k) \subseteq D
      <4>1. CASE IsRoot(contexts, k)
        BY <4>1 DEF IsRoot, ParentOf
      <4>2. CASE ~IsRoot(contexts, k)
        <5> DEFINE j == contexts[k].parent_idx
        <5>1. j \in Live(contexts)
          BY <1>1, <4>2 DEF LinksAgree
        <5>2. contexts[j].allow_export_cdi /\ contexts[j].context_type = "Normal"
          BY <1>1, <4>2 DEF PermissionsInherited, OneNormalTree, Parent
        <5>3. ParentOf(contexts, k) = {j}
          BY <4>2 DEF IsRoot, ParentOf
        <5>4. QED
          BY <5>1, <5>2, <5>3
      <4>3. QED
        BY <4>1, <4>2
    <3> HIDE DEF D
    <3>7. Lineage(contexts, p) \subseteq D
      BY <3>5, <3>6, LineageIsLeast
    <3>8. QED
      BY <3>2, <3>7 DEF D
  <2>2. CASE UNCHANGED export_cdi_slots
    BY <1>1, <2>2
  <2>3. QED
    <3>1. CASE Unchanged \/ RootMade \/ SelfMeasured \/ ChildMade
      BY <2>2, <3>1 DEF Unchanged, RootMade, SelfMeasured, ChildMade, state_vars
    <3>2. CASE TreeDestroyed \/ Rehandled \/ UpdateFailed \/ ChildMeasured
      BY <2>2, <3>2 DEF TreeDestroyed, Rehandled, UpdateFailed, ChildMeasured
    <3>3. CASE ExportFailed \/ CdiExported
      BY <2>1, <3>3 DEF ExportFailed, CdiExported
    <3>4. QED
      BY <1>1, <3>1, <3>2, <3>3, StepOutcome DEF Outcome
<1>2. TypeOK /\ LinksAgree /\ PermissionsInherited /\ OneNormalTree /\ [Next]_vars
        => [\A cdi \in export_cdi_slots' \ export_cdi_slots : Permitted(cdi)]_vars
  <2> HIDE DEF Permitted
  <2> QED
    BY <1>1
<1>3. QED
  BY TypeCorrect, LinksCorrect, PermissionsCorrect, NormalTreeCorrect, <1>2, PTL
     DEF Spec, ExportIsPermitted
-----------------------------------------------------------------------------
(***************************************************************************)
(* The handles a command returns.                                          *)
(***************************************************************************)

(* An active context is the only one its handle finds in its locality.      *)
LEMMA HandleFindsOne ==
  ASSUME HandlesUnique, DefaultIsAlone, NEW i \in ActiveSlots
  PROVE  ActiveWith(contexts, contexts[i].handle, contexts[i].locality) = {i}
<1>1. ASSUME NEW j \in ActiveWith(contexts, contexts[i].handle, contexts[i].locality)
      PROVE  j = i
  BY DEF HandlesUnique, DefaultIsAlone, ActiveSlots, ActiveWith, ActiveIn
<1>2. QED
  BY <1>1 DEF ActiveSlots, ActiveWith, ActiveIn

(* So a command names no context but one. *)
LEMMA NamedIsOne ==
  ASSUME HandlesUnique, DefaultIsAlone, NEW p \in Named
  PROVE  Named = {p}
BY HandleFindsOne, NamedIsActive DEF ActiveSlots, Named

(* The same after the step. *)
LEMMA HandleWillFindOne ==
  ASSUME HandlesUnique', DefaultIsAlone', NEW i \in Slots, contexts'[i].state = "Active"
  PROVE  ActiveWith(contexts', contexts'[i].handle, contexts'[i].locality) = {i}
<1>1. ASSUME NEW j \in ActiveWith(contexts', contexts'[i].handle, contexts'[i].locality)
      PROVE  j = i
  BY DEF HandlesUnique, DefaultIsAlone, ActiveSlots, ActiveWith, ActiveIn
<1>2. QED
  BY <1>1 DEF ActiveWith, ActiveIn

(***************************************************************************)
(* A caller can go on with what a successful command told it: the handle   *)
(* finds exactly one context, of its own locality or a child of the one it *)
(* named, and the parent handle of UpdateContextMeasurement and of a       *)
(* DeriveContext that is not recursive finds the named context and no      *)
(* other (ReturnedHandlesResolve).                                         *)
(***************************************************************************)
THEOREM ReturnedHandlesCorrect ==
  ~RNG_MAY_REPEAT /\ "SIMULATION" \notin Support => (Spec => ReturnedHandlesResolve)
<1> SUFFICES ASSUME ~RNG_MAY_REPEAT, "SIMULATION" \notin Support
             PROVE  Spec => ReturnedHandlesResolve
  OBVIOUS
<1> DEFINE Handle ==
             Usable(resp'.handle) =>
               \E i \in Slots :
                 /\ ActiveWith(contexts', resp'.handle, contexts'[i].locality) = {i}
                 /\ \/ contexts'[i].locality = resp'.locality
                    \/ \E p \in Named : i \in contexts'[p].children
           ParentHandle ==
             Usable(resp'.parent_handle) /\ ~DerivedInPlace =>
               ActiveWith(contexts', resp'.parent_handle, resp'.locality) = Named
           Resolve == Succeeded => /\ Handle
                                   /\ ParentHandle
<1>1. ASSUME TypeOK, LinksAgree, NoCycle, HandlesUnique, DefaultIsAlone,
             HandlesUnique', DefaultIsAlone', Next, Succeeded
      PROVE  Handle /\ ParentHandle
  <2>1. ~Usable(NO_HANDLE) /\ ~Usable(INVALID)
    BY DEF Usable
  <2>2. \A h, ph : Told(h, ph) => resp'.handle = h /\ resp'.parent_handle = ph
    BY <1>1 DEF Told, Succeeded
  <2>3. ASSUME NEW i \in Slots, contexts'[i].state = "Active", contexts'[i].handle = resp'.handle,
               \/ contexts'[i].locality = resp'.locality
               \/ \E p \in Named : i \in contexts'[p].children
        PROVE  Handle
    BY <1>1, <2>3, HandleWillFindOne
  <2>4. ASSUME NEW p \in Named, contexts'[p].locality = contexts[p].locality,
               contexts'[p].state = "Active", contexts'[p].handle = resp'.parent_handle
        PROVE  ParentHandle
    BY <1>1, <2>4, HandleWillFindOne, NamedIsOne, NamedIsActive
  <2>5. CASE Unchanged
    BY <1>1, <2>1, <2>5 DEF Unchanged
  <2>6. CASE RootMade
    <3>1. PICK i \in Slots, h \in NewHandles \cup {DEFAULT} :
            /\ contexts'[i].state = "Active" /\ contexts'[i].handle = h
            /\ contexts'[i].locality = resp'.locality /\ Told(h, NO_HANDLE)
      BY <1>1, <2>6, RootMadeSays
    <3>2. QED
      BY <2>1, <2>2, <2>3, <3>1
  <2>7. CASE SelfMeasured \/ Rehandled
    <3>1. ASSUME NEW p \in Named, contexts'[p].handle = resp'.handle,
                 contexts'[p].state = contexts[p].state,
                 contexts'[p].locality = contexts[p].locality
          PROVE  Handle
      BY <2>3, <3>1, NamedIsActive
    <3>2. CASE SelfMeasured
      <4>1. PICK p, m, h :
              /\ p \in Named /\ Told(h, DEFAULT)
              /\ contexts'[p].handle = h /\ contexts'[p].state = contexts[p].state
              /\ contexts'[p].locality = contexts[p].locality
              /\ contexts'[p].children = contexts[p].children
        BY <1>1, <3>2, SelfMeasuredSays
      <4>2. resp'.cmd = "DeriveContext" /\ UNCHANGED export_cdi_slots
        BY <3>2 DEF SelfMeasured, Found
      <4>3. DerivedInPlace
        BY <4>1, <4>2 DEF DerivedInPlace
      <4>4. QED
        BY <2>2, <3>1, <4>1, <4>3
    <3>3. CASE Rehandled
      <4>1. PICK p, h :
              /\ p \in Named /\ Told(h, NO_HANDLE)
              /\ contexts'[p].handle = h /\ contexts'[p].state = contexts[p].state
              /\ contexts'[p].locality = contexts[p].locality
        BY <1>1, <3>3, RehandledSays
      <4>2. QED
        BY <2>1, <2>2, <3>1, <4>1
    <3>4. QED
      BY <2>7, <3>2, <3>3
  <2>8. CASE ChildMade
    <3>1. PICK p, c, flags, ph, ch :
            /\ p \in Named /\ c \in Slots /\ Told(ch, ph)
            /\ ph \in ParentHandles(contexts[p], flags) \ {NO_HANDLE}
            /\ contexts'[p].handle = ph
            /\ contexts'[p].state =
                 IF "RETAIN_PARENT_CONTEXT" \in flags THEN contexts[p].state ELSE "Retired"
            /\ contexts'[p].locality = contexts[p].locality
            /\ contexts'[p].children = contexts[p].children \cup {c}
            /\ contexts'[c].handle = ch /\ contexts'[c].state = "Active"
      BY <1>1, <2>8, ChildMadeSays
    <3>2. Handle
      BY <2>2, <2>3, <3>1
    <3>3. ParentHandle
      <4>1. CASE "RETAIN_PARENT_CONTEXT" \in flags
        BY <2>2, <2>4, <3>1, <4>1, NamedIsActive
      <4>2. CASE "RETAIN_PARENT_CONTEXT" \notin flags
        BY <2>1, <2>2, <3>1, <4>2 DEF ParentHandles
      <4>3. QED
        BY <4>1, <4>2
    <3>4. QED
      BY <3>2, <3>3
  <2>9. CASE CdiExported
    <3>1. PICK p \in Named :
            /\ Told(INVALID, contexts'[p].handle)
            /\ \/ contexts' = DestroyContext(contexts, p)
               \/ \E flags, ph :
                    /\ ph \in ParentHandles(contexts[p], flags) \ {NO_HANDLE}
                    /\ contexts'[p].handle = ph
                    /\ contexts'[p].state =
                         IF "RETAIN_PARENT_CONTEXT" \in flags THEN contexts[p].state
                         ELSE "Retired"
                    /\ contexts'[p].locality = contexts[p].locality
      BY <1>1, <2>9, CdiExportedSays
    <3> resp'.handle = INVALID /\ resp'.parent_handle = contexts'[p].handle
      BY <2>2, <3>1
    <3>2. CASE contexts' = DestroyContext(contexts, p)
      <4>1. p \in Slots /\ p \in ToDestroy(contexts, p) /\ contexts[p] \in Context
        BY <1>1, NamedIsActive DEF ToDestroy, TypeOK
      <4>2. contexts'[p] = Destroyed(contexts[p])
        BY <3>2, <4>1 DEF DestroyContext
      <4>3. contexts'[p].handle = INVALID
        BY <4>1, <4>2 DEF Destroyed, Context
      <4>4. QED
        BY <2>1, <3>1, <4>3
    <3>3. ASSUME NEW flags, NEW ph \in ParentHandles(contexts[p], flags) \ {NO_HANDLE},
                 contexts'[p].handle = ph,
                 contexts'[p].state =
                   IF "RETAIN_PARENT_CONTEXT" \in flags THEN contexts[p].state ELSE "Retired",
                 contexts'[p].locality = contexts[p].locality
          PROVE  ParentHandle
      <4>1. CASE "RETAIN_PARENT_CONTEXT" \in flags
        BY <2>4, <3>1, <3>3, <4>1, NamedIsActive
      <4>2. CASE "RETAIN_PARENT_CONTEXT" \notin flags
        BY <2>1, <3>1, <3>3, <4>2 DEF ParentHandles
      <4>3. QED
        BY <4>1, <4>2
    <3>4. QED
      BY <2>1, <3>1, <3>2, <3>3
  <2>10. CASE TreeDestroyed
    BY <2>1, <2>2, <2>10 DEF TreeDestroyed
  <2>11. CASE ChildMeasured
    <3>1. PICK p, c, m, ph, ch : MeasuredChild(p, c, m, ph, ch)
      BY <1>1, <2>11, ChildMeasuredSays
    <3>2. Handle
      BY <2>2, <2>3, <3>1 DEF MeasuredChild
    <3>3. ParentHandle
      BY <2>2, <2>4, <3>1, NamedIsActive DEF MeasuredChild
    <3>4. QED
      BY <3>2, <3>3
  <2>12. CASE ExportFailed \/ UpdateFailed
    BY <1>1, <2>12 DEF ExportFailed, UpdateFailed, Succeeded
  <2>13. QED
    BY <1>1, <2>5, <2>6, <2>7, <2>8, <2>9, <2>10, <2>11, <2>12, StepOutcome DEF Outcome
<1>2. TypeOK /\ LinksAgree /\ NoCycle /\ HandlesUnique /\ DefaultIsAlone
        /\ HandlesUnique' /\ DefaultIsAlone' /\ [Next]_vars
        => [Resolve]_vars
  <2> HIDE DEF Handle, ParentHandle
  <2>1. ASSUME Handle, ParentHandle
        PROVE  Resolve
    BY <2>1
  <2>2. ~Succeeded => Resolve
    OBVIOUS
  <2> HIDE DEF Resolve
  <2>3. QED
    BY <1>1, <2>1, <2>2
<1>3. QED
  BY TypeCorrect, LinksCorrect, NoCycleCorrect, HandlesCorrect, DefaultCorrect, <1>2, PTL
     DEF Spec, ReturnedHandlesResolve

-----------------------------------------------------------------------------
(***************************************************************************)
(* A DPE instance implements ContextForest, for every choice of the        *)
(* constants: the step simulation, by cases on how a command ends.         *)
(***************************************************************************)

(***************************************************************************)
(* The forest's functions before and after a step.                         *)
(***************************************************************************)
LEMMA ForestDomains ==
  /\ DOMAIN node_parent = Live(contexts) /\ DOMAIN node_handle = ActiveSlots
  /\ DOMAIN node_log = Live(contexts)
  /\ node_parent' = [i \in Live(contexts)' |-> contexts'[i].parent_idx]
  /\ node_handle' = [i \in ActiveSlots' |-> contexts'[i].handle]
  /\ node_log' = [i \in Live(contexts)' |-> contexts'[i].tci_cumulative]
BY DEF node_parent, node_handle, node_log

(* A step that leaves the array alone leaves the forest alone. *)
LEMMA ForestStutters ==
  ASSUME UNCHANGED contexts
  PROVE  UNCHANGED Forest!vars
BY DEF Forest!vars, node_parent, node_handle, node_log, Live, ActiveSlots

(* InitializeContext plants a root. *)
LEMMA RootIsPlanted ==
  ASSUME TypeOK, TypeOK', RootMade
  PROVE  Forest!Plant
<1>1. PICK i \in Slots, h \in NewHandles \cup {DEFAULT} :
        /\ contexts[i].state = "Inactive"
        /\ contexts'[i].state = "Active" /\ contexts'[i].handle = h
        /\ contexts'[i].parent_idx = ROOT_INDEX /\ contexts'[i].tci_cumulative = << >>
        /\ \A k \in Slots \ {i} : contexts'[k] = contexts[k]
  BY RootMadeSays
<1>2. i \in Slots \ Live(contexts) /\ h \in Handles
  BY <1>1 DEF Live, TypeOK, Context
<1>3. /\ Live(contexts)' = Live(contexts) \cup {i} /\ ActiveSlots' = ActiveSlots \cup {i}
      /\ ActiveSlots \subseteq Live(contexts) /\ Live(contexts) \subseteq Slots
  BY <1>1 DEF Live, ActiveSlots
<1>4. node_parent' = Forest!Added(node_parent, i, ROOT_INDEX)
  BY <1>1, <1>2, <1>3 DEF node_parent, Forest!Added
<1>5. node_handle' = Forest!Added(node_handle, i, h)
  BY <1>1, <1>2, <1>3 DEF node_handle, Forest!Added
<1>6. node_log' = Forest!Added(node_log, i, << >>)
  BY <1>1, <1>2, <1>3 DEF node_log, Forest!Added
<1>7. Forest!Forest = Live(contexts)
  BY ForestDomains DEF Forest!Forest
<1>8. QED
  BY <1>2, <1>4, <1>5, <1>6, <1>7 DEF Forest!Plant

(* DeriveContext grows a leaf below the context it names. *)
LEMMA ChildIsGrown ==
  ASSUME TypeOK, TypeOK', ChildMade
  PROVE  Forest!Grow
<1>1. PICK p, c, flags, m, ph, ch :
        /\ p \in Named /\ c \in Slots /\ m \in Measurements
        /\ c # p /\ contexts[c].state = "Inactive"
        /\ contexts'[p].handle = ph
        /\ contexts'[p].state =
             IF "RETAIN_PARENT_CONTEXT" \in flags THEN contexts[p].state ELSE "Retired"
        /\ contexts'[p].parent_idx = contexts[p].parent_idx
        /\ contexts'[p].tci_cumulative = contexts[p].tci_cumulative
        /\ contexts'[c].handle = ch /\ contexts'[c].state = "Active"
        /\ contexts'[c].parent_idx = p /\ contexts'[c].tci_cumulative = << m >>
        /\ \A k \in Slots \ {p, c} : contexts'[k] = contexts[k]
  BY ChildMadeSays
<1>2. p \in Slots /\ contexts[p].state = "Active" /\ p \in ActiveSlots
  BY <1>1, NamedIsActive DEF ActiveSlots
<1>3. ph \in Handles /\ ch \in Handles
  BY <1>1, <1>2 DEF TypeOK, Context
<1>4. /\ Live(contexts)' = Live(contexts) \cup {c} /\ c \notin Live(contexts)
      /\ Live(contexts) \subseteq Slots /\ c \notin ActiveSlots /\ ActiveSlots \subseteq Slots
  BY <1>1, <1>2 DEF Live, ActiveSlots
<1>5. node_parent' = Forest!Added(node_parent, c, p)
  BY <1>1, <1>2, <1>4 DEF node_parent, Forest!Added
<1>6. node_log' = Forest!Added(node_log, c, << m >>)
  BY <1>1, <1>2, <1>4 DEF node_log, Forest!Added
<1>7. CASE "RETAIN_PARENT_CONTEXT" \in flags
  <2>1. ActiveSlots' = ActiveSlots \cup {c}
    BY <1>1, <1>2, <1>7 DEF ActiveSlots
  <2> DEFINE kept == [node_handle EXCEPT ![p] = ph]
  <2>2. /\ DOMAIN kept = ActiveSlots /\ kept[p] = ph
        /\ \A k \in ActiveSlots \ {p} : kept[k] = contexts[k].handle
    BY <1>2 DEF node_handle
  <2> HIDE DEF kept
  <2>3. node_handle' = Forest!Added(kept, c, ch)
    BY <1>1, <1>2, <1>4, <2>1, <2>2 DEF node_handle, Forest!Added
  <2>4. node_handle' = Forest!Added([node_handle EXCEPT ![p] = ph], c, ch)
    BY <2>3 DEF kept
  <2>5. Forest!Held = ActiveSlots /\ Forest!Forest = Live(contexts)
    BY ForestDomains DEF Forest!Held, Forest!Forest
  <2>6. QED
    BY <1>1, <1>2, <1>3, <1>4, <1>5, <1>6, <2>4, <2>5 DEF Forest!Grow
<1>8. CASE "RETAIN_PARENT_CONTEXT" \notin flags
  <2>1. ActiveSlots' = (ActiveSlots \ {p}) \cup {c}
    BY <1>1, <1>2, <1>8 DEF ActiveSlots
  <2> DEFINE left == Forest!Without(node_handle, {p})
  <2>2. /\ DOMAIN left = ActiveSlots \ {p}
        /\ \A k \in ActiveSlots \ {p} : left[k] = contexts[k].handle
    BY DEF node_handle, Forest!Without
  <2> HIDE DEF left
  <2>3. node_handle' = Forest!Added(left, c, ch)
    BY <1>1, <1>2, <1>4, <2>1, <2>2 DEF node_handle, Forest!Added
  <2>4. node_handle' = Forest!Added(Forest!Without(node_handle, {p}), c, ch)
    BY <2>3 DEF left
  <2>5. Forest!Held = ActiveSlots /\ Forest!Forest = Live(contexts)
    BY ForestDomains DEF Forest!Held, Forest!Forest
  <2>6. QED
    BY <1>1, <1>2, <1>3, <1>4, <1>5, <1>6, <2>4, <2>5 DEF Forest!Grow
<1>9. QED
  BY <1>7, <1>8

-----------------------------------------------------------------------------
(***************************************************************************)
(* Measurements and handles.                                               *)
(***************************************************************************)

(* No context moves, and all but x and y keep their measurements and handles. *)
LEMMA NodesStay ==
  ASSUME NEW x \in ActiveSlots, NEW y \in ActiveSlots,
         \A k \in {x, y} : /\ contexts'[k].state = contexts[k].state
                           /\ contexts'[k].parent_idx = contexts[k].parent_idx,
         \A k \in Slots \ {x, y} : contexts'[k] = contexts[k]
  PROVE  /\ Live(contexts)' = Live(contexts) /\ ActiveSlots' = ActiveSlots
         /\ ActiveSlots \subseteq Live(contexts) /\ Live(contexts) \subseteq Slots
         /\ UNCHANGED node_parent
         /\ \A k \in ActiveSlots \ {x, y} : node_handle'[k] = node_handle[k]
<1>1. Live(contexts)' = Live(contexts) /\ ActiveSlots' = ActiveSlots
  BY DEF Live, ActiveSlots
<1>2. ActiveSlots \subseteq Live(contexts) /\ Live(contexts) \subseteq Slots
  BY DEF Live, ActiveSlots
<1>3. \A k \in Slots : contexts'[k].parent_idx = contexts[k].parent_idx
  OBVIOUS
<1>4. UNCHANGED node_parent
  BY <1>1, <1>2, <1>3 DEF node_parent
<1>5. \A k \in ActiveSlots \ {x, y} : node_handle'[k] = node_handle[k]
  BY <1>1, <1>2 DEF node_handle
<1>6. QED
  BY <1>1, <1>2, <1>4, <1>5

(* The handles of active contexts are handles. *)
LEMMA HandlesAfter ==
  ASSUME TypeOK', ActiveSlots' = ActiveSlots
  PROVE  node_handle' \in [ActiveSlots -> Handles]
<1>1. \A k \in ActiveSlots' : contexts'[k].handle \in Handles
  BY DEF TypeOK, Context, ActiveSlots
<1>2. QED
  BY <1>1 DEF node_handle

(***************************************************************************)
(* DeriveContext with RECURSIVE extends the context it names, and          *)
(* UpdateContextMeasurement a child of it, whose parent's handle may       *)
(* change.                                                                 *)
(***************************************************************************)
LEMMA MeasuringExtends ==
  ASSUME TypeOK, TypeOK', LinksAgree, NoCycle, SelfMeasured \/ ChildMeasured
  PROVE  Forest!Extend
<1>1. \E p, n, m :
        /\ p \in ActiveSlots /\ n \in ActiveSlots /\ m \in Measurements
        /\ p = n \/ contexts[n].parent_idx = p
        /\ \A k \in {p, n} : /\ contexts'[k].state = contexts[k].state
                             /\ contexts'[k].parent_idx = contexts[k].parent_idx
        /\ contexts'[n].tci_cumulative = Append(contexts[n].tci_cumulative, m)
        /\ p # n => contexts'[p].tci_cumulative = contexts[p].tci_cumulative
        /\ \A k \in Slots \ {p, n} : contexts'[k] = contexts[k]
  <2>1. CASE SelfMeasured
    <3>1. PICK p, m :
            /\ p \in Named /\ m \in Measurements
            /\ contexts'[p].state = contexts[p].state
            /\ contexts'[p].parent_idx = contexts[p].parent_idx
            /\ contexts'[p].tci_cumulative = Append(contexts[p].tci_cumulative, m)
            /\ \A k \in Slots \ {p} : contexts'[k] = contexts[k]
      BY <2>1, SelfMeasuredSays
    <3>2. p \in ActiveSlots
      BY <3>1, NamedIsActive DEF ActiveSlots
    <3>3. QED
      BY <3>1, <3>2
  <2>2. CASE ChildMeasured
    <3>1. PICK p, c, m, ph, ch : MeasuredChild(p, c, m, ph, ch)
      BY <2>2, ChildMeasuredSays
    <3>2. p \in ActiveSlots /\ c \in ActiveSlots
      BY <3>1, NamedIsActive DEF ActiveSlots, MeasuredChild
    <3>3. QED
      BY <3>1, <3>2 DEF MeasuredChild
  <2>3. QED
    BY <2>1, <2>2
<1>2. PICK p, n, m :
        /\ p \in ActiveSlots /\ n \in ActiveSlots /\ m \in Measurements
        /\ p = n \/ contexts[n].parent_idx = p
        /\ \A k \in {p, n} : /\ contexts'[k].state = contexts[k].state
                             /\ contexts'[k].parent_idx = contexts[k].parent_idx
        /\ contexts'[n].tci_cumulative = Append(contexts[n].tci_cumulative, m)
        /\ p # n => contexts'[p].tci_cumulative = contexts[p].tci_cumulative
        /\ \A k \in Slots \ {p, n} : contexts'[k] = contexts[k]
  BY <1>1
<1>3. /\ Live(contexts)' = Live(contexts) /\ ActiveSlots' = ActiveSlots
      /\ ActiveSlots \subseteq Live(contexts) /\ Live(contexts) \subseteq Slots
      /\ UNCHANGED node_parent
      /\ \A k \in ActiveSlots \ {p, n} : node_handle'[k] = node_handle[k]
  BY <1>2, NodesStay
<1>4. node_log' = [node_log EXCEPT ![n] = Append(@, m)]
  BY <1>2, <1>3 DEF node_log
<1>5. node_parent[n] = contexts[n].parent_idx
  BY <1>2, <1>3 DEF node_parent
<1>6. \A k \in ActiveSlots \ {n, node_parent[n]} : node_handle'[k] = node_handle[k]
  BY <1>2, <1>3, <1>5
<1>7. node_handle' \in [ActiveSlots -> Handles]
  BY <1>3, HandlesAfter
<1>8. Forest!Held = ActiveSlots
  BY ForestDomains DEF Forest!Held
<1>9. QED
  BY <1>2, <1>3, <1>4, <1>6, <1>7, <1>8 DEF Forest!Extend

(* A context that is named and rolled is reissued. *)
LEMMA RollingReissues ==
  ASSUME TypeOK, TypeOK', NEW p \in Named,
         contexts'[p].state = contexts[p].state,
         contexts'[p].parent_idx = contexts[p].parent_idx,
         contexts'[p].tci_cumulative = contexts[p].tci_cumulative,
         \A k \in Slots \ {p} : contexts'[k] = contexts[k]
  PROVE  Forest!Reissue
<1>1. p \in ActiveSlots
  BY NamedIsActive DEF ActiveSlots
<1>2. /\ Live(contexts)' = Live(contexts) /\ ActiveSlots' = ActiveSlots
      /\ ActiveSlots \subseteq Live(contexts) /\ Live(contexts) \subseteq Slots
      /\ UNCHANGED node_parent
      /\ \A k \in ActiveSlots \ {p, p} : node_handle'[k] = node_handle[k]
  BY <1>1, NodesStay
<1>3. UNCHANGED node_log
  BY <1>2 DEF node_log
<1>4. node_handle' = [node_handle EXCEPT ![p] = contexts'[p].handle]
  BY <1>1, <1>2 DEF node_handle
<1>5. contexts'[p].handle \in Handles
  BY <1>1, <1>2 DEF TypeOK, Context, ActiveSlots
<1>6. Forest!Held = ActiveSlots
  BY ForestDomains DEF Forest!Held
<1>7. QED
  BY <1>1, <1>2, <1>3, <1>4, <1>5, <1>6 DEF Forest!Reissue

(* The children of a node are those of the bitmap. *)
LEMMA ForestChildren ==
  ASSUME LinksAgree, NEW n \in Live(contexts)
  PROVE  Forest!ChildrenOf(n) = contexts[n].children
<1>1. n # ROOT_INDEX
  BY SlotsAssumption DEF Live, Slots, ROOT_INDEX
<1>2. Forest!ChildrenOf(n) = {k \in Live(contexts) : contexts[k].parent_idx = n}
  BY ForestDomains DEF Forest!ChildrenOf, Forest!Forest, node_parent
<1>3. QED
  BY <1>1, <1>2 DEF LinksAgree, IsRoot, Parent

(* An export that does not retain a context with children retires it. *)
LEMMA ExportRetires ==
  ASSUME TypeOK, LinksAgree, NEW p \in Named, contexts[p].children # {},
         contexts'[p].state = "Retired",
         contexts'[p].parent_idx = contexts[p].parent_idx,
         contexts'[p].tci_cumulative = contexts[p].tci_cumulative,
         \A k \in Slots \ {p} : contexts'[k] = contexts[k]
  PROVE  Forest!Retire
<1>1. p \in ActiveSlots /\ p \in Slots /\ p \in Live(contexts)
  BY NamedIsActive DEF ActiveSlots
<1>2. Live(contexts)' = Live(contexts) /\ ActiveSlots' = ActiveSlots \ {p}
  BY <1>1 DEF Live, ActiveSlots
<1>3. Live(contexts) \subseteq Slots /\ ActiveSlots \subseteq Slots
  BY DEF Live, ActiveSlots
<1>4. UNCHANGED << node_parent, node_log >>
  BY <1>1, <1>2, <1>3 DEF node_parent, node_log
<1>5. node_handle' = Forest!Without(node_handle, {p})
  BY <1>1, <1>2, <1>3 DEF node_handle, Forest!Without
<1>6. Forest!Held = ActiveSlots
  BY ForestDomains DEF Forest!Held
<1>7. Forest!ChildrenOf(p) # {}
  BY <1>1, ForestChildren
<1>8. QED
  BY <1>1, <1>4, <1>5, <1>6, <1>7 DEF Forest!Retire
-----------------------------------------------------------------------------
(***************************************************************************)
(* Destruction.                                                            *)
(***************************************************************************)

(* A live context's subtree is itself and what get_descendants finds. *)
LEMMA SubtreeIsDescendants ==
  ASSUME TypeOK, LinksAgree, NEW p \in Live(contexts)
  PROVE  Forest!Subtree(p) = Descendants(contexts, p) \cup {p}
<1> DEFINE T == Descendants(contexts, p) \cup {p}
           down == [j \in Slots |-> contexts[j].children]
<1>1. p \in Slots /\ contexts[p].state # "Inactive" /\ Live(contexts) \subseteq Slots
  BY DEF Live
<1>2. contexts \in [Slots -> Context]
  BY DEF TypeOK
<1>3. \A k \in Live(contexts) : \A j \in contexts[k].children :
        j \in Live(contexts) /\ contexts[j].parent_idx = k
  BY DEF LinksAgree
<1>4. T \in SUBSET Live(contexts)
  BY <1>1, <1>2, <1>3, DescendantsAreChildren
<1>5. \A j \in T : contexts[j].children \subseteq T
  BY <1>1, <1>2, DescendantsAreClosed
<1>6. Forest!Forest = Live(contexts)
  BY ForestDomains DEF Forest!Forest
<1>7. \A j \in Live(contexts) : Forest!ChildrenOf(j) = contexts[j].children
  BY ForestChildren
<1>8. Forest!Subtree(p) \subseteq T
  <2> HIDE DEF T
  <2>1. p \in T
    BY DEF T
  <2>2. \A j \in T : Forest!ChildrenOf(j) \subseteq T
    BY <1>4, <1>5, <1>7
  <2>3. QED
    BY <1>4, <1>6, <2>1, <2>2 DEF Forest!Subtree
<1>9. ASSUME NEW D \in SUBSET Live(contexts), p \in D,
             \A j \in D : Forest!ChildrenOf(j) \subseteq D
      PROVE  T \subseteq D
  <2>1. D \in SUBSET Slots /\ contexts[p].children \subseteq D
    BY <1>1, <1>7, <1>9
  <2>2. \A j \in D : down[j] \subseteq D
    BY <1>1, <1>7, <1>9
  <2> HIDE DEF down
  <2>3. Reachable(contexts[p].children, down) \subseteq D
    BY <2>1, <2>2, ReachableIsLeast
  <2>4. QED
    BY <1>9, <2>3 DEF Descendants, down
<1>10. T \subseteq Forest!Subtree(p)
  <2> HIDE DEF T
  <2> QED
    BY <1>4, <1>6, <1>9 DEF Forest!Subtree
<1>11. QED
  BY <1>8, <1>10

(* What destroy_context collects withers with the context, and all that does. *)
LEMMA ToDestroyWithers ==
  ASSUME TypeOK, LinksAgree, RetiredIsNeeded, NEW p \in ActiveSlots
  PROVE  /\ ToDestroy(contexts, p) \subseteq Live(contexts)
         /\ Forest!Withers(p, ToDestroy(contexts, p))
<1> DEFINE R == ToDestroy(contexts, p)
           A == RetiredAncestors(contexts, p)
<1>1. p \in Slots /\ contexts[p].state = "Active" /\ p \in Live(contexts)
  BY DEF ActiveSlots, Live
<1>2. contexts \in [Slots -> Context]
  BY DEF TypeOK
<1>3. Forest!Subtree(p) = Descendants(contexts, p) \cup {p}
  BY <1>1, SubtreeIsDescendants
<1>4. R = Forest!Subtree(p) \cup A
  BY <1>3 DEF ToDestroy
<1>5. \A k \in Live(contexts) : Forest!ChildrenOf(k) = contexts[k].children
  BY ForestChildren
<1>6. Forest!Held = ActiveSlots /\ Forest!Forest = Live(contexts)
  BY ForestDomains DEF Forest!Held, Forest!Forest
<1>7. Forest!Subtree(p) \subseteq Live(contexts)
  BY <1>6 DEF Forest!Subtree
<1>8. ASSUME NEW k \in A
      PROVE  k \in Live(contexts) /\ k \notin ActiveSlots /\ contexts[k].children \subseteq R
  <2>1. PICK j \in A \cup {p} : k \in LoneRetiredParent(contexts, j)
    BY <1>1, <1>2, RetiredAncestorsAreClosed
  <2>2. j \in Slots /\ A \subseteq Slots
    BY <1>1, <1>2, RetiredAncestorsAreClosed
  <2>3. /\ k \in Slots /\ contexts[k].state = "Retired" /\ contexts[j].parent_idx = k
        /\ \E x \in Slots : contexts[k].children = {x}
    BY <1>2, <2>1, <2>2, LoneRetiredParentIs
  <2>4. j \in Live(contexts)
    <3>1. CASE j = p
      BY <1>1, <3>1
    <3>2. CASE j \in A
      <4>1. \E i \in A \cup {p} : i \in Slots /\ j \in LoneRetiredParent(contexts, i)
        BY <1>1, <1>2, <3>2, RetiredAncestorsAreClosed
      <4>2. contexts[j].state = "Retired"
        BY <1>2, <4>1, LoneRetiredParentIs
      <4>3. QED
        BY <2>2, <4>2 DEF Live
    <3>3. QED
      BY <3>1, <3>2
  <2>5. k # ROOT_INDEX
    BY <2>3, SlotsAssumption DEF Slots, ROOT_INDEX
  <2>6. j \in contexts[k].children
    BY <2>3, <2>4, <2>5 DEF LinksAgree, IsRoot, Parent
  <2>7. j \in R
    BY DEF ToDestroy
  <2>8. QED
    BY <2>3, <2>6, <2>7 DEF Live, ActiveSlots
<1>9. ASSUME NEW k \in Live(contexts) \ R, k \notin ActiveSlots
      PROVE  ~(contexts[k].children \subseteq R)
  <2>1. k \in Slots /\ contexts[k].state = "Retired"
    BY <1>2, <1>9 DEF Live, ActiveSlots, Context, ContextState
  <2>2. contexts[k].children # {}
    BY <2>1 DEF RetiredIsNeeded
  <2>3. QED
    BY <1>1, <1>9, <2>1, <2>2, RetiredSurvivorKeepsChild
<1> HIDE DEF R, A
<1>10. R \subseteq Live(contexts)
  BY <1>4, <1>7, <1>8
<1>11. Forest!Withers(p, R)
  <2>1. Forest!Subtree(p) \subseteq R
    BY <1>4
  <2>2. \A k \in R \ Forest!Subtree(p) : k \notin ActiveSlots /\ Forest!ChildrenOf(k) \subseteq R
    BY <1>4, <1>5, <1>8
  <2>3. \A k \in Live(contexts) \ R : k \in ActiveSlots \/ ~(Forest!ChildrenOf(k) \subseteq R)
    BY <1>5, <1>9
  <2>4. QED
    BY <1>6, <2>1, <2>2, <2>3 DEF Forest!Withers
<1>12. QED
  BY <1>10, <1>11 DEF R

(* DestroyContext, or an export that leaves nothing to keep, prunes the forest. *)
LEMMA DestroyingPrunes ==
  ASSUME TypeOK, LinksAgree, RetiredIsNeeded, NEW p \in Named,
         contexts' = DestroyContext(contexts, p)
  PROVE  Forest!Prune
<1> DEFINE R == ToDestroy(contexts, p)
<1>1. p \in Slots /\ p \in ActiveSlots
  BY NamedIsActive DEF ActiveSlots
<1>2. R \subseteq Live(contexts) /\ Forest!Withers(p, R)
  BY <1>1, ToDestroyWithers
<1>3. \A k \in Slots \cap R : contexts'[k].state = "Inactive"
  BY <1>1, DestroyFields
<1>4. \A k \in Slots \ R : /\ contexts'[k].state = contexts[k].state
                           /\ contexts'[k].handle = contexts[k].handle
                           /\ contexts'[k].tci_cumulative = contexts[k].tci_cumulative
                           /\ contexts'[k].parent_idx = contexts[k].parent_idx
  BY <1>1, DestroyFields DEF SamePlace
<1> HIDE DEF R
<1>5. Live(contexts)' = Live(contexts) \ R /\ ActiveSlots' = ActiveSlots \ R
  BY <1>3, <1>4 DEF Live, ActiveSlots
<1>6. Live(contexts) \subseteq Slots /\ ActiveSlots \subseteq Slots
  BY DEF Live, ActiveSlots
<1>7. node_parent' = Forest!Without(node_parent, R)
  BY <1>4, <1>5, <1>6 DEF node_parent, Forest!Without
<1>8. node_handle' = Forest!Without(node_handle, R)
  BY <1>4, <1>5, <1>6 DEF node_handle, Forest!Without
<1>9. node_log' = Forest!Without(node_log, R)
  BY <1>4, <1>5, <1>6 DEF node_log, Forest!Without
<1>10. Forest!Held = ActiveSlots /\ Forest!Forest = Live(contexts)
  BY ForestDomains DEF Forest!Held, Forest!Forest
<1>11. QED
  BY <1>1, <1>2, <1>7, <1>8, <1>9, <1>10 DEF Forest!Prune

-----------------------------------------------------------------------------
(* An instance starts as an empty forest, or with the root of AUTO_INIT. *)
LEMMA InitIsForest ==
  ASSUME Init
  PROVE  Forest!Init
<1> USE DEF Live, ActiveSlots
<1>1. 0 \in Slots /\ 0 # ROOT_INDEX
  BY SlotsAssumption DEF Slots, ROOT_INDEX
<1>2. CASE contexts = StateNew
  <2>1. Live(contexts) = {} /\ ActiveSlots = {}
    BY <1>2 DEF StateNew, NewContext
  <2>2. QED
    BY <2>1 DEF Forest!Init, node_parent, node_handle, node_log
<1>3. ASSUME NEW root \in AutoInitRoots, contexts = [StateNew EXCEPT ![0] = root]
      PROVE  Forest!Init
  <2>1. /\ root.state = "Active" /\ root.parent_idx = ROOT_INDEX /\ root.handle = DEFAULT
        /\ \/ root.tci_cumulative = << >>
           \/ \E m \in Measurements : root.tci_cumulative = << m >>
    <3> DEFINE new == RootContext("Normal", AutoInitLocality, DEFAULT)
    <3>1. /\ new.state = "Active" /\ new.parent_idx = ROOT_INDEX /\ new.handle = DEFAULT
          /\ new.tci_cumulative = << >>
          /\ {"state", "parent_idx", "handle", "tci_cumulative", "tci_type"} \subseteq DOMAIN new
      BY DEF RootContext, Activated
    <3>2. AutoInitRoots =
            {new} \cup {[Measured(new, m) EXCEPT !.tci_type = t] : m \in Measurements, t \in TciTypes}
      BY DEF AutoInitRoots
    <3> HIDE DEF new
    <3>3. root = new \/ \E m \in Measurements, t \in TciTypes :
                          root = [Measured(new, m) EXCEPT !.tci_type = t]
      BY <3>2
    <3>4. CASE root = new
      BY <3>1, <3>4
    <3>5. ASSUME NEW m \in Measurements, NEW t, root = [Measured(new, m) EXCEPT !.tci_type = t]
          PROVE  /\ root.state = "Active" /\ root.parent_idx = ROOT_INDEX
                 /\ root.handle = DEFAULT /\ root.tci_cumulative = << m >>
      <4>1. Append(<< >>, m) = << m >>
        OBVIOUS
      <4>2. QED
        BY <3>1, <3>5, <4>1 DEF Measured
    <3>6. QED
      BY <3>3, <3>4, <3>5
  <2>2. /\ contexts[0] = root
        /\ \A k \in Slots \ {0} : contexts[k].state = "Inactive"
    BY <1>1, <1>3 DEF StateNew, NewContext
  <2>3. Live(contexts) = {0} /\ ActiveSlots = {0}
    BY <1>1, <2>1, <2>2
  <2>4. node_parent = [k \in {0} |-> ROOT_INDEX] /\ node_handle = [k \in {0} |-> DEFAULT]
    BY <2>1, <2>2, <2>3 DEF node_parent, node_handle
  <2>5. \/ node_log = [k \in {0} |-> << >>]
        \/ \E m \in Measurements : node_log = [k \in {0} |-> << m >>]
    BY <2>1, <2>2, <2>3 DEF node_log
  <2>6. DEFAULT \in Handles
    BY DEF Handles
  <2>7. QED
    BY <1>1, <2>4, <2>5, <2>6 DEF Forest!Init
<1>4. QED
  BY <1>2, <1>3 DEF Init

(***************************************************************************)
(* Every command is one step of the forest or none.                        *)
(***************************************************************************)
LEMMA StepIsForestStep ==
  ASSUME TypeOK, TypeOK', LinksAgree, NoCycle, RetiredIsNeeded, [Next]_vars
  PROVE  [Forest!Next]_(Forest!vars)
<1>1. CASE UNCHANGED contexts
  BY <1>1, ForestStutters
<1>2. CASE RootMade
  BY <1>2, RootIsPlanted DEF Forest!Next
<1>3. CASE ChildMade
  BY <1>3, ChildIsGrown DEF Forest!Next
<1>4. CASE SelfMeasured \/ ChildMeasured
  BY <1>4, MeasuringExtends DEF Forest!Next
<1>5. CASE Rehandled \/ UpdateFailed
  <2>1. \E p \in Named :
          /\ contexts'[p].state = contexts[p].state
          /\ contexts'[p].parent_idx = contexts[p].parent_idx
          /\ contexts'[p].tci_cumulative = contexts[p].tci_cumulative
          /\ \A k \in Slots \ {p} : contexts'[k] = contexts[k]
    BY <1>5, RehandledSays, UpdateFailedSays
  <2>2. QED
    BY <2>1, RollingReissues DEF Forest!Next
<1>6. CASE TreeDestroyed
  BY <1>6, DestroyingPrunes DEF TreeDestroyed, Found, Forest!Next
<1>7. CASE CdiExported
  <2>1. PICK p \in Named :
          \/ contexts' = DestroyContext(contexts, p)
          \/ \E flags :
               /\ contexts'[p].state =
                    IF "RETAIN_PARENT_CONTEXT" \in flags THEN contexts[p].state ELSE "Retired"
               /\ "RETAIN_PARENT_CONTEXT" \notin flags => contexts[p].children # {}
               /\ contexts'[p].parent_idx = contexts[p].parent_idx
               /\ contexts'[p].tci_cumulative = contexts[p].tci_cumulative
               /\ \A k \in Slots \ {p} : contexts'[k] = contexts[k]
    BY <1>7, CdiExportedSays
  <2>2. CASE contexts' = DestroyContext(contexts, p)
    BY <2>2, DestroyingPrunes DEF Forest!Next
  <2>3. CASE /\ contexts'[p].state = contexts[p].state
             /\ contexts'[p].parent_idx = contexts[p].parent_idx
             /\ contexts'[p].tci_cumulative = contexts[p].tci_cumulative
             /\ \A k \in Slots \ {p} : contexts'[k] = contexts[k]
    BY <2>3, RollingReissues DEF Forest!Next
  <2>4. CASE /\ contexts'[p].state = "Retired" /\ contexts[p].children # {}
             /\ contexts'[p].parent_idx = contexts[p].parent_idx
             /\ contexts'[p].tci_cumulative = contexts[p].tci_cumulative
             /\ \A k \in Slots \ {p} : contexts'[k] = contexts[k]
    BY <2>4, ExportRetires DEF Forest!Next
  <2>5. QED
    BY <2>1, <2>2, <2>3, <2>4
<1>8. CASE Unchanged \/ ExportFailed \/ UNCHANGED vars
  BY <1>1, <1>8 DEF Unchanged, ExportFailed, state_vars, vars
<1>9. QED
  BY <1>2, <1>3, <1>4, <1>5, <1>6, <1>7, <1>8, StepOutcome DEF Outcome

(***************************************************************************)
(* A DPE instance is a context forest (ImplementsForest): whatever its     *)
(* handlers write into how many slots, each command plants a root, grows   *)
(* one leaf, extends one log, reissues one handle, retires one node or     *)
(* prunes one subtree with the retired ancestors it leaves childless.      *)
(***************************************************************************)
THEOREM RefinementCorrect == Spec => ImplementsForest
<1>1. Init => Forest!Init
  BY InitIsForest
<1>2. TypeOK /\ TypeOK' /\ LinksAgree /\ NoCycle /\ RetiredIsNeeded /\ [Next]_vars
        => [Forest!Next]_(Forest!vars)
  BY StepIsForestStep
<1>3. QED
  BY TypeCorrect, LinksCorrect, NoCycleCorrect, RetiredCorrect, <1>1, <1>2, PTL
     DEF Spec, ImplementsForest, Forest!Spec
=============================================================================
