---------------------------- MODULE DpeInstance ----------------------------
(***************************************************************************)
(* A DPE instance executing commands: dpe/src/dpe_instance.rs and the      *)
(* handlers of dpe/src/commands/, over the context array of DpeContext and *)
(* the exported-CDI slots of the crypto layer.                             *)
(*                                                                         *)
(* The instance is sequential: a command runs to its response before the   *)
(* next is read, so one action is one command.  What makes a command       *)
(* non-deterministic is its environment: the random handles it draws, the  *)
(* crypto and platform calls that may fail, and whether the caller's       *)
(* response buffer holds the response.                                     *)
(***************************************************************************)
EXTENDS DpeContext

CONSTANTS
  Support,             \* the optional features of the instance, after preprocess_support
  AutoInitLocality,    \* Platform::get_auto_init_locality
  DeriveFlagSets,      \* the combinations of DeriveContextFlags commands carry
  MAX_CDI_HANDLES,     \* capacity of the crypto layer's exported-CDI slots
  MAX_TCI_EXTENDS,     \* bound: measurements a cumulative TCI may take
  NO_HANDLE,           \* stands for the error of a handle draw, and for no handle
  RNG_MAY_FAIL,        \* whether generate_new_handle may fail
  RNG_MAY_REPEAT,      \* whether a draw may give bytes its command has already seen
  BACKEND_MAY_FAIL,    \* whether crypto and platform calls may fail
  BUFFER_MAY_OVERFLOW, \* whether the response buffer may be too short
  BUFFER_MAY_REFUSE    \* whether it may refuse a header when it holds what follows it

SupportFlags ==
  { "SIMULATION", "RECURSIVE", "AUTO_INIT", "ROTATE_CONTEXT", "X509", "CSR",
    "INTERNAL_INFO", "INTERNAL_DICE", "RETAIN_PARENT_CONTEXT", "CDI_EXPORT" }

DeriveContextFlags ==
  { "INTERNAL_INPUT_INFO", "INTERNAL_INPUT_DICE", "RETAIN_PARENT_CONTEXT",
    "MAKE_DEFAULT", "CHANGE_LOCALITY", "ALLOW_NEW_CONTEXT_TO_EXPORT",
    "INPUT_ALLOW_X509", "RECURSIVE", "EXPORT_CDI", "CREATE_CERTIFICATE",
    "ALLOW_RECURSIVE" }

ASSUME SupportAssumption == Support \subseteq SupportFlags

ASSUME InputsAssumption ==
  /\ AutoInitLocality \in Localities
  /\ DeriveFlagSets \subseteq SUBSET DeriveContextFlags
  /\ NO_HANDLE \notin Handles

ASSUME BoundsAssumption == MAX_CDI_HANDLES \in Nat /\ MAX_TCI_EXTENDS \in Nat

ASSUME EnvironmentAssumption ==
  {RNG_MAY_FAIL, RNG_MAY_REPEAT, BACKEND_MAY_FAIL, BUFFER_MAY_OVERFLOW, BUFFER_MAY_REFUSE}
    \subseteq BOOLEAN

VARIABLES
  contexts,          \* State::contexts
  has_initialized,   \* State::has_initialized
  export_cdi_slots,  \* the CDIs held by the crypto layer, each named by its hash
  resp               \* the last response; no command reads it

state_vars == << contexts, has_initialized, export_cdi_slots >>

vars == << contexts, has_initialized, export_cdi_slots, resp >>

-----------------------------------------------------------------------------
(***************************************************************************)
(* Responses.                                                              *)
(***************************************************************************)

(***************************************************************************)
(* The response of command cmd, issued from locality l with handle h.      *)
(***************************************************************************)
Respond(cmd, l, h, status, handle, parent_handle) ==
  resp' = [ cmd           |-> cmd,
            locality      |-> l,
            used          |-> h,
            status        |-> status,
            handle        |-> handle,
            parent_handle |-> parent_handle ]

Reject(cmd, l, h, status) ==
  /\ Respond(cmd, l, h, status, NO_HANDLE, NO_HANDLE)
  /\ UNCHANGED state_vars

(***************************************************************************)
(* write_at(0, response): a buffer that is too short gets nothing.         *)
(***************************************************************************)
Deliver(cmd, l, h, handle, parent_handle, fits) ==
  IF fits
    THEN Respond(cmd, l, h, "NoError", handle, parent_handle)
    ELSE Respond(cmd, l, h, "InvalidResponseBuf", NO_HANDLE, NO_HANDLE)

Fits == IF BUFFER_MAY_OVERFLOW THEN BOOLEAN ELSE {TRUE}

(***************************************************************************)
(* A certificate is written behind the header of its response, which is    *)
(* written last.  ResponseBuffer lets that second write fail as well; the  *)
(* repository's buffers are slices and refuse only what reaches past their *)
(* end, and never a header in front of a certificate they have taken.      *)
(***************************************************************************)
HeaderFits == IF BUFFER_MAY_REFUSE THEN BOOLEAN ELSE {TRUE}

BackendOk == IF BACKEND_MAY_FAIL THEN BOOLEAN ELSE {TRUE}

-----------------------------------------------------------------------------
(***************************************************************************)
(* Handles.                                                                *)
(***************************************************************************)

(***************************************************************************)
(* Mutant of GenerateNewHandle: a draw is not compared with the handles in *)
(* use.                                                                    *)
(***************************************************************************)
GenerateAnyHandle(cs, seen) == RandHandles \ ({DEFAULT} \cup seen)

(***************************************************************************)
(* The outcomes of generate_new_handle on the committed array cs: a draw   *)
(* that is neither the default handle nor held by any slot, or no handle   *)
(* after a failed or MAX_NEW_HANDLE_ATTEMPTS colliding draws.  The random  *)
(* source repeats one of the values in seen only if RNG_MAY_REPEAT.        *)
(***************************************************************************)
GenerateNewHandle(cs, seen) ==
  LET taken == {DEFAULT} \cup {cs[i].handle : i \in Slots}
      fresh == RandHandles \ (taken \cup (IF RNG_MAY_REPEAT THEN {} ELSE seen))
  IN  IF RNG_MAY_FAIL \/ fresh = {} THEN fresh \cup {NO_HANDLE} ELSE fresh

(***************************************************************************)
(* Mutant of RollOnetimeUseHandle: the handle stays good for another       *)
(* command.                                                                *)
(***************************************************************************)
RollNothing(cs, c, seen) == {c.handle}

(***************************************************************************)
(* roll_onetime_use_handle: the default handle is not rolled.              *)
(***************************************************************************)
RollOnetimeUseHandle(cs, c, seen) ==
  IF c.handle = DEFAULT THEN {DEFAULT} ELSE GenerateNewHandle(cs, seen)

-----------------------------------------------------------------------------
(***************************************************************************)
(* Start-up: State::new, then DpeInstance::new, or new_auto_init with a    *)
(* measurement.                                                            *)
(***************************************************************************)

(***************************************************************************)
(* The context InitializeContext activates.                                *)
(***************************************************************************)
RootContext(type, l, h) ==
  Activated([ handle                   |-> h,
              tci_type                 |-> 0,
              locality                 |-> l,
              parent_idx               |-> ROOT_INDEX,
              context_type             |-> type,
              uses_internal_input_info |-> FALSE,
              uses_internal_input_dice |-> FALSE,
              allow_x509               |-> TRUE,
              allow_export_cdi         |-> TRUE,
              allow_recursive          |-> type = "Normal" ])

StateNew == [i \in Slots |-> NewContext]

AutoInitRoots ==
  LET root == RootContext("Normal", AutoInitLocality, DEFAULT)
  IN  {root} \cup {[Measured(root, m) EXCEPT !.tci_type = t] :
                     m \in Measurements, t \in TciTypes}

(***************************************************************************)
(* resp before the first command.                                          *)
(***************************************************************************)
NoResponse ==
  [ cmd           |-> "None",
    locality      |-> AutoInitLocality,
    used          |-> NO_HANDLE,
    status        |-> "NoError",
    handle        |-> NO_HANDLE,
    parent_handle |-> NO_HANDLE ]

Init ==
  /\ export_cdi_slots = {}
  /\ resp = NoResponse
  /\ \/ /\ "AUTO_INIT" \notin Support
        /\ contexts = StateNew
        /\ has_initialized = FALSE
     \/ /\ "AUTO_INIT" \in Support
        /\ \E root \in AutoInitRoots : contexts = [StateNew EXCEPT ![0] = root]
        /\ has_initialized = TRUE

-----------------------------------------------------------------------------
(***************************************************************************)
(* InitializeContext.                                                      *)
(***************************************************************************)
InitFlags == {"DEFAULT", "SIMULATION"}

(***************************************************************************)
(* Mutant of InitializeStatus: has_initialized is not consulted.           *)
(***************************************************************************)
InitializeAgainStatus(flags) ==
  IF "SIMULATION" \in flags /\ "SIMULATION" \notin Support THEN "ArgumentNotSupported"
  ELSE IF flags \notin {{"DEFAULT"}, {"SIMULATION"}} THEN "InvalidArgument"
  ELSE IF InactiveSlots(contexts) = {} THEN "MaxTcis"
  ELSE "NoError"

InitializeStatus(flags) ==
  IF \/ "DEFAULT" \in flags /\ has_initialized
     \/ "SIMULATION" \in flags /\ "SIMULATION" \notin Support
    THEN "ArgumentNotSupported"
  ELSE IF flags \notin {{"DEFAULT"}, {"SIMULATION"}} THEN "InvalidArgument"
  ELSE IF InactiveSlots(contexts) = {} THEN "MaxTcis"
  ELSE "NoError"

InitializeRejected(l, flags) ==
  /\ InitializeStatus(flags) # "NoError"
  /\ Reject("InitializeContext", l, NO_HANDLE, InitializeStatus(flags))

InitializeDefault(l, fits) ==
  /\ InitializeStatus({"DEFAULT"}) = "NoError"
  /\ has_initialized' = TRUE
  /\ contexts' = [contexts EXCEPT ![GetNextInactiveContextPos(contexts)] =
                                     RootContext("Normal", l, DEFAULT)]
  /\ Deliver("InitializeContext", l, NO_HANDLE, DEFAULT, NO_HANDLE, fits)
  /\ UNCHANGED export_cdi_slots

InitializeSimulation(l, fits) ==
  /\ InitializeStatus({"SIMULATION"}) = "NoError"
  /\ \E h \in GenerateNewHandle(contexts, {}) :
       \/ /\ h = NO_HANDLE
          /\ Reject("InitializeContext", l, NO_HANDLE, "InternalError")
       \/ /\ h # NO_HANDLE
          /\ contexts' = [contexts EXCEPT ![GetNextInactiveContextPos(contexts)] =
                                             RootContext("Simulation", l, h)]
          /\ Deliver("InitializeContext", l, NO_HANDLE, h, NO_HANDLE, fits)
          /\ UNCHANGED << has_initialized, export_cdi_slots >>

-----------------------------------------------------------------------------
(***************************************************************************)
(* DeriveContext.                                                          *)
(***************************************************************************)

(***************************************************************************)
(* The support each flag asks for.                                         *)
(***************************************************************************)
DeriveSupported(flags) ==
  /\ "INTERNAL_INPUT_INFO" \in flags => "INTERNAL_INFO" \in Support
  /\ "INTERNAL_INPUT_DICE" \in flags => "INTERNAL_DICE" \in Support
  /\ "RETAIN_PARENT_CONTEXT" \in flags => "RETAIN_PARENT_CONTEXT" \in Support
  /\ "INPUT_ALLOW_X509" \in flags => "X509" \in Support
  /\ flags \cap {"CREATE_CERTIFICATE", "EXPORT_CDI"} # {} => "CDI_EXPORT" \in Support
  /\ "RECURSIVE" \in flags => "RECURSIVE" \in Support

(***************************************************************************)
(* Mutants of DerivePermitted, each without one of the checks of the       *)
(* parent.                                                                 *)
(***************************************************************************)
DerivePermittedAnyExport(parent, flags) ==
  /\ "INPUT_ALLOW_X509" \in flags => parent.allow_x509
  /\ "EXPORT_CDI" \in flags =>
       /\ flags \cap {"RECURSIVE", "CHANGE_LOCALITY"} = {}
       /\ parent.context_type # "Simulation"
  /\ "RECURSIVE" \in flags => parent.allow_recursive

DerivePermittedAnyRecursive(parent, flags) ==
  "RECURSIVE" \in flags => flags \cap {"RETAIN_PARENT_CONTEXT", "ALLOW_RECURSIVE"} = {}

(***************************************************************************)
(* What the parent permits, and which flags exclude each other.            *)
(***************************************************************************)
DerivePermitted(parent, flags) ==
  /\ "INPUT_ALLOW_X509" \in flags => parent.allow_x509
  /\ "EXPORT_CDI" \in flags =>
       /\ "CREATE_CERTIFICATE" \in flags
       /\ flags \cap {"RECURSIVE", "CHANGE_LOCALITY"} = {}
       /\ parent.context_type # "Simulation"
       /\ parent.allow_export_cdi
  /\ "RECURSIVE" \in flags =>
       /\ flags \cap {"RETAIN_PARENT_CONTEXT", "ALLOW_RECURSIVE"} = {}
       /\ parent.allow_recursive

(***************************************************************************)
(* Mutant of TciTypeIsUniqueAmongChildren: retired children are            *)
(* overlooked.                                                             *)
(***************************************************************************)
TciTypeIsUniqueAmongActive(parent, tci_type) ==
  \A i \in parent.children : contexts[i].state = "Active" => contexts[i].tci_type # tci_type

TciTypeIsUniqueAmongChildren(parent, tci_type) ==
  \A i \in parent.children : contexts[i].tci_type # tci_type

(***************************************************************************)
(* The checks a recursive derivation makes of the context it updates.      *)
(***************************************************************************)
RecursiveStatus(c, tci_type, locality) ==
  IF c.tci_type # tci_type THEN "InvalidArgument"
  ELSE IF c.locality # locality THEN "InvalidLocality"
  ELSE "NoError"

(***************************************************************************)
(* Every check made before the first handle is drawn, in the order of the  *)
(* code; locality is the child's.                                          *)
(***************************************************************************)
DeriveStatus(l, h, flags, tci_type, locality) ==
  IF ~DeriveSupported(flags) THEN "ArgumentNotSupported"
  ELSE IF LookupStatus(contexts, h, l) # "NoError" THEN LookupStatus(contexts, h, l)
  ELSE LET parent == contexts[GetActiveContextPos(contexts, h, l)]
       IN  IF ~DerivePermitted(parent, flags) THEN "InvalidArgument"
           ELSE IF "RECURSIVE" \in flags
             THEN RecursiveStatus(parent, tci_type, locality)
           ELSE IF ~TciTypeIsUniqueAmongChildren(parent, tci_type)
             THEN "InvalidArgument"
           ELSE "NoError"

DeriveRejected(l, h, flags, tci_type, locality) ==
  /\ DeriveStatus(l, h, flags, tci_type, locality) # "NoError"
  /\ Reject("DeriveContext", l, h, DeriveStatus(l, h, flags, tci_type, locality))

(***************************************************************************)
(* Mutant of DeriveRecursive: the measurement is recorded before the new   *)
(* handle is drawn.                                                        *)
(***************************************************************************)
DeriveRecursiveInPlace(l, h, flags, tci_type, locality, m, ok, fits) ==
  LET p == GetActiveContextPos(contexts, h, l)
  IN  /\ "RECURSIVE" \in flags
      /\ DeriveStatus(l, h, flags, tci_type, locality) = "NoError"
      /\ Len(contexts[p].tci_cumulative) < MAX_TCI_EXTENDS
      /\ \E nh \in RollOnetimeUseHandle(contexts, contexts[p], {}) :
           /\ contexts' = [contexts EXCEPT
                             ![p] = [Measured(@, m) EXCEPT
                                       !.handle = IF nh = NO_HANDLE THEN @ ELSE nh]]
           /\ Respond("DeriveContext", l, h,
                      IF nh = NO_HANDLE THEN "InternalError" ELSE "NoError", nh, DEFAULT)
           /\ UNCHANGED << has_initialized, export_cdi_slots >>

(***************************************************************************)
(* RECURSIVE: the measurement is added to the named context itself.  The   *)
(* parent handle of the response is the default one, for the caller to     *)
(* ignore: no parent is retained.                                          *)
(***************************************************************************)
DeriveRecursive(l, h, flags, tci_type, locality, m, ok, fits) ==
  LET p == GetActiveContextPos(contexts, h, l)
  IN  /\ "RECURSIVE" \in flags
      /\ DeriveStatus(l, h, flags, tci_type, locality) = "NoError"
      /\ Len(contexts[p].tci_cumulative) < MAX_TCI_EXTENDS
      /\ \/ ~ok /\ Reject("DeriveContext", l, h, "CryptoError")
         \/ ok /\ \E nh \in RollOnetimeUseHandle(contexts, contexts[p], {}) :
              \/ nh = NO_HANDLE /\ Reject("DeriveContext", l, h, "InternalError")
              \/ /\ nh # NO_HANDLE
                 /\ contexts' = [contexts EXCEPT
                                   ![p] = [Measured(@, m) EXCEPT !.handle = nh]]
                 /\ Deliver("DeriveContext", l, h, nh, DEFAULT, fits)
                 /\ UNCHANGED << has_initialized, export_cdi_slots >>

(***************************************************************************)
(* The handle the parent will have: drawn if it is retained and not the    *)
(* default context.                                                        *)
(***************************************************************************)
ParentHandles(parent, flags) ==
  IF "RETAIN_PARENT_CONTEXT" \in flags
    THEN RollOnetimeUseHandle(contexts, parent, {})
    ELSE {INVALID}

(***************************************************************************)
(* The uncommitted copy of the parent, with its new handle or retired.     *)
(***************************************************************************)
TmpParent(parent, flags, handle) ==
  [parent EXCEPT
     !.handle = handle,
     !.state  = IF "RETAIN_PARENT_CONTEXT" \in flags THEN @ ELSE "Retired"]

(***************************************************************************)
(* RustCryptoImpl::derive_exported_cdi refuses a CDI it already holds, and *)
(* any CDI once its slots are used up.                                     *)
(***************************************************************************)
ExportRefused(cdi) ==
  \/ cdi \in export_cdi_slots
  \/ Cardinality(export_cdi_slots) >= MAX_CDI_HANDLES

(***************************************************************************)
(* What becomes of the parent of a successful export.                      *)
(***************************************************************************)
ParentAfterExport(p, flags, handle) ==
  IF "RETAIN_PARENT_CONTEXT" \notin flags /\ contexts[p].children = {}
    THEN DestroyContext(contexts, p)
    ELSE [contexts EXCEPT ![p] = TmpParent(@, flags, handle)]

(***************************************************************************)
(* CREATE_CERTIFICATE with EXPORT_CDI.  outcome says whether the calls     *)
(* before derive_exported_cdi, or those after it, fail.  The certificate   *)
(* is written behind the response header, so a short buffer is noticed     *)
(* while the certificate is encoded: after derive_exported_cdi, which      *)
(* keeps its slot, and before the parent is committed.  The header that    *)
(* tells the parent's handle and the CDI's is written when both are.       *)
(***************************************************************************)
ExportOutcomes == IF BACKEND_MAY_FAIL THEN {"ok", "early", "late"} ELSE {"ok"}

DeriveExportedCdi(l, h, flags, tci_type, outcome, fits, hdr_fits) ==
  LET p       == GetActiveContextPos(contexts, h, l)
      cdi     == MeasurementHash(contexts, p)
      refused == \/ outcome = "early"
                 \/ LineageStatus(contexts, p) # "NoError"
                 \/ ExportRefused(cdi)
      failed  == outcome = "late" \/ ~fits
  IN  /\ "EXPORT_CDI" \in flags
      /\ DeriveStatus(l, h, flags, tci_type, l) = "NoError"
      /\ \E ph \in ParentHandles(contexts[p], flags) :
           \/ ph = NO_HANDLE /\ Reject("DeriveContext", l, h, "InternalError")
           \/ ph # NO_HANDLE /\ refused /\ Reject("DeriveContext", l, h, "CryptoError")
           \/ /\ ph # NO_HANDLE /\ ~refused /\ failed
              /\ export_cdi_slots' = export_cdi_slots \cup {cdi}
              /\ Respond("DeriveContext", l, h, "CryptoError", NO_HANDLE, NO_HANDLE)
              /\ UNCHANGED << contexts, has_initialized >>
           \/ /\ ph # NO_HANDLE /\ ~refused /\ ~failed
              /\ export_cdi_slots' = export_cdi_slots \cup {cdi}
              /\ contexts' = ParentAfterExport(p, flags, ph)
              /\ Deliver("DeriveContext", l, h, INVALID, contexts'[p].handle, hdr_fits)
              /\ UNCHANGED has_initialized

(***************************************************************************)
(* Mutants of the two checks below: the parent may be retained.            *)
(***************************************************************************)
SafeToMakeDefaultBeside(p, flags, locality) ==
  \/ ActiveIn(contexts, locality) = {}
  \/ ActiveIn(contexts, locality) = {p} /\ contexts[p].handle = DEFAULT

SafeToMakeNonDefaultBeside(p, flags, locality) ==
  \/ ActiveWith(contexts, DEFAULT, locality) = {}
  \/ GetActiveContextPos(contexts, DEFAULT, locality) = p

(***************************************************************************)
(* safe_to_make_child: a default context stays alone in its locality.      *)
(***************************************************************************)
SafeToMakeDefault(p, flags, locality) ==
  \/ ActiveIn(contexts, locality) = {}
  \/ /\ ActiveIn(contexts, locality) = {p}
     /\ contexts[p].handle = DEFAULT
     /\ "RETAIN_PARENT_CONTEXT" \notin flags

SafeToMakeNonDefault(p, flags, locality) ==
  \/ ActiveWith(contexts, DEFAULT, locality) = {}
  \/ /\ GetActiveContextPos(contexts, DEFAULT, locality) = p
     /\ "RETAIN_PARENT_CONTEXT" \notin flags

SafeToMakeChild(p, flags, locality) ==
  IF "MAKE_DEFAULT" \in flags
    THEN SafeToMakeDefault(p, flags, locality)
    ELSE SafeToMakeNonDefault(p, flags, locality)

ChildHandles(flags, ph) ==
  IF "MAKE_DEFAULT" \in flags THEN {DEFAULT} ELSE GenerateNewHandle(contexts, {ph})

(***************************************************************************)
(* Mutants of ChildContext: one grants whatever the flags ask for, one     *)
(* makes every context a Normal one.                                       *)
(***************************************************************************)
ChildOfAnyParent(p, flags, tci_type, locality, handle) ==
  Activated([ handle                   |-> handle,
              tci_type                 |-> tci_type,
              locality                 |-> locality,
              parent_idx               |-> p,
              context_type             |-> contexts[p].context_type,
              uses_internal_input_info |-> "INTERNAL_INPUT_INFO" \in flags,
              uses_internal_input_dice |-> "INTERNAL_INPUT_DICE" \in flags,
              allow_x509               |-> "INPUT_ALLOW_X509" \in flags,
              allow_export_cdi         |-> "ALLOW_NEW_CONTEXT_TO_EXPORT" \in flags,
              allow_recursive          |-> "ALLOW_RECURSIVE" \in flags ])

NormalChild(p, flags, tci_type, locality, handle) ==
  [ChildOfAnyParent(p, flags, tci_type, locality, handle) EXCEPT !.context_type = "Normal"]

(***************************************************************************)
(* The context derived from p, before its measurement.                     *)
(***************************************************************************)
ChildContext(p, flags, tci_type, locality, handle) ==
  Activated([ handle                   |-> handle,
              tci_type                 |-> tci_type,
              locality                 |-> locality,
              parent_idx               |-> p,
              context_type             |-> contexts[p].context_type,
              uses_internal_input_info |-> "INTERNAL_INPUT_INFO" \in flags,
              uses_internal_input_dice |-> "INTERNAL_INPUT_DICE" \in flags,
              allow_x509               |-> "INPUT_ALLOW_X509" \in flags,
              allow_export_cdi         |-> /\ "ALLOW_NEW_CONTEXT_TO_EXPORT" \in flags
                                           /\ contexts[p].allow_export_cdi,
              allow_recursive          |-> /\ "ALLOW_RECURSIVE" \in flags
                                           /\ contexts[p].allow_recursive ])

(***************************************************************************)
(* The two slots a derivation commits: the child c, and its parent p with  *)
(* one more child.                                                         *)
(***************************************************************************)
WithChild(p, c, parent, child) ==
  [contexts EXCEPT ![c] = child,
                   ![p] = [parent EXCEPT !.children = @ \cup {c}]]

ChildStatus(p, flags, locality) ==
  IF InactiveSlots(contexts) = {} THEN "MaxTcis"
  ELSE IF ~SafeToMakeChild(p, flags, locality) THEN "InvalidArgument"
  ELSE "NoError"

DeriveChild(l, h, flags, tci_type, locality, m, ok, fits) ==
  LET p == GetActiveContextPos(contexts, h, l)
      c == GetNextInactiveContextPos(contexts)
  IN  /\ flags \cap {"RECURSIVE", "EXPORT_CDI"} = {}
      /\ DeriveStatus(l, h, flags, tci_type, locality) = "NoError"
      /\ MAX_TCI_EXTENDS > 0
      /\ \E ph \in ParentHandles(contexts[p], flags) :
           \/ ph = NO_HANDLE /\ Reject("DeriveContext", l, h, "InternalError")
           \/ /\ ph # NO_HANDLE /\ ChildStatus(p, flags, locality) # "NoError"
              /\ Reject("DeriveContext", l, h, ChildStatus(p, flags, locality))
           \/ /\ ph # NO_HANDLE /\ ChildStatus(p, flags, locality) = "NoError"
              /\ \E ch \in ChildHandles(flags, ph) :
                   \/ ch = NO_HANDLE /\ Reject("DeriveContext", l, h, "InternalError")
                   \/ ch # NO_HANDLE /\ ~ok /\ Reject("DeriveContext", l, h, "CryptoError")
                   \/ /\ ch # NO_HANDLE /\ ok
                      /\ contexts' =
                           WithChild(p, c, TmpParent(contexts[p], flags, ph),
                                     Measured(ChildContext(p, flags, tci_type, locality, ch), m))
                      /\ Deliver("DeriveContext", l, h, ch, ph, fits)
                      /\ UNCHANGED << has_initialized, export_cdi_slots >>

-----------------------------------------------------------------------------
(***************************************************************************)
(* DestroyContext.                                                         *)
(***************************************************************************)
DestroyStatus(l, h) ==
  IF LookupStatus(contexts, h, l) # "NoError" THEN LookupStatus(contexts, h, l)
  ELSE DescendantsStatus(contexts, GetActiveContextPos(contexts, h, l))

DestroyRejected(l, h) ==
  /\ DestroyStatus(l, h) # "NoError"
  /\ Reject("DestroyContext", l, h, DestroyStatus(l, h))

DestroyCtx(l, h, fits) ==
  /\ DestroyStatus(l, h) = "NoError"
  /\ contexts' = DestroyContext(contexts, GetActiveContextPos(contexts, h, l))
  /\ Deliver("DestroyContext", l, h, NO_HANDLE, NO_HANDLE, fits)
  /\ UNCHANGED << has_initialized, export_cdi_slots >>

-----------------------------------------------------------------------------
(***************************************************************************)
(* RotateContextHandle.                                                    *)
(***************************************************************************)
NonDefaultValidHandlesExist(l, idx) ==
  \E i \in ActiveIn(contexts, l) : contexts[i].handle # DEFAULT /\ i # idx

RotateStatus(l, h, to_default) ==
  IF "ROTATE_CONTEXT" \notin Support THEN "InvalidCommand"
  ELSE IF LookupStatus(contexts, h, l) # "NoError" THEN LookupStatus(contexts, h, l)
  ELSE IF /\ to_default
          /\ \/ LookupStatus(contexts, DEFAULT, l) = "NoError"
             \/ NonDefaultValidHandlesExist(l, GetActiveContextPos(contexts, h, l))
    THEN "InvalidArgument"
  ELSE "NoError"

RotateRejected(l, h, to_default) ==
  /\ RotateStatus(l, h, to_default) # "NoError"
  /\ Reject("RotateContextHandle", l, h, RotateStatus(l, h, to_default))

RotateCtx(l, h, to_default, fits) ==
  /\ RotateStatus(l, h, to_default) = "NoError"
  /\ \E nh \in IF to_default THEN {DEFAULT} ELSE GenerateNewHandle(contexts, {}) :
       \/ nh = NO_HANDLE /\ Reject("RotateContextHandle", l, h, "InternalError")
       \/ /\ nh # NO_HANDLE
          /\ contexts' = [contexts EXCEPT
                            ![GetActiveContextPos(contexts, h, l)].handle = nh]
          /\ Deliver("RotateContextHandle", l, h, nh, NO_HANDLE, fits)
          /\ UNCHANGED << has_initialized, export_cdi_slots >>

-----------------------------------------------------------------------------
(***************************************************************************)
(* UpdateContextMeasurement.                                               *)
(***************************************************************************)
ChildrenOfType(p, tci_type) ==
  {i \in contexts[p].children :
     contexts[i].state = "Active" /\ contexts[i].tci_type = tci_type}

UpdateStatus(l, h, tci_type) ==
  IF h = DEFAULT THEN "InvalidArgument"
  ELSE IF LookupStatus(contexts, h, l) # "NoError" THEN "InvalidParentLocality"
  ELSE IF ChildrenOfType(GetActiveContextPos(contexts, h, l), tci_type) = {}
    THEN "InvalidArgument"
  ELSE "NoError"

UpdateRejected(l, h, tci_type) ==
  /\ UpdateStatus(l, h, tci_type) # "NoError"
  /\ Reject("UpdateContextMeasurement", l, h, UpdateStatus(l, h, tci_type))

(***************************************************************************)
(* Mutant of UpdateContextMeasurement: the measurement is committed with   *)
(* the parent, before the child's handle is drawn.                         *)
(***************************************************************************)
UpdateMeasuresFirst(l, h, tci_type, m, ok, fits) ==
  LET p == GetActiveContextPos(contexts, h, l)
      c == Lowest(ChildrenOfType(p, tci_type))
  IN  /\ UpdateStatus(l, h, tci_type) = "NoError"
      /\ Len(contexts[c].tci_cumulative) < MAX_TCI_EXTENDS
      /\ \E ph \in RollOnetimeUseHandle(contexts, contexts[p], {}) \ {NO_HANDLE} :
           contexts' = [contexts EXCEPT ![p].handle = ph, ![c] = Measured(@, m)]
      /\ Respond("UpdateContextMeasurement", l, h, "InternalError", NO_HANDLE, NO_HANDLE)
      /\ UNCHANGED << has_initialized, export_cdi_slots >>

(***************************************************************************)
(* The parent's new handle is committed before the child's is drawn, so a  *)
(* failed second draw leaves the first in place.                           *)
(***************************************************************************)
UpdateContextMeasurement(l, h, tci_type, m, ok, fits) ==
  LET p == GetActiveContextPos(contexts, h, l)
      c == Lowest(ChildrenOfType(p, tci_type))
  IN  /\ UpdateStatus(l, h, tci_type) = "NoError"
      /\ Len(contexts[c].tci_cumulative) < MAX_TCI_EXTENDS
      /\ \/ ~ok /\ Reject("UpdateContextMeasurement", l, h, "CryptoError")
         \/ ok /\ \E ph \in RollOnetimeUseHandle(contexts, contexts[p], {}) :
              \/ ph = NO_HANDLE /\ Reject("UpdateContextMeasurement", l, h, "InternalError")
              \/ /\ ph # NO_HANDLE
                 /\ UNCHANGED << has_initialized, export_cdi_slots >>
                 /\ LET rolled == [contexts EXCEPT ![p].handle = ph]
                    IN  \E ch \in RollOnetimeUseHandle(rolled, contexts[c], {h}) :
                          \/ /\ ch = NO_HANDLE
                             /\ contexts' = rolled
                             /\ Respond("UpdateContextMeasurement", l, h, "InternalError",
                                        NO_HANDLE, NO_HANDLE)
                          \/ /\ ch # NO_HANDLE
                             /\ contexts' = [rolled EXCEPT
                                  ![c] = [Measured(@, m) EXCEPT !.handle = ch]]
                             /\ Deliver("UpdateContextMeasurement", l, h, ch, ph, fits)

-----------------------------------------------------------------------------
(***************************************************************************)
(* Sign and CertifyKey: the context is used, then its handle is rolled.    *)
(* Sign commits the new handle when its response is written, CertifyKey    *)
(* between the certificate and the header that tells it.                   *)
(***************************************************************************)
SignStatus(l, h, ok) ==
  IF LookupStatus(contexts, h, l) # "NoError" THEN LookupStatus(contexts, h, l)
  ELSE LET i == GetActiveContextPos(contexts, h, l)
       IN  IF contexts[i].context_type = "Simulation" THEN "InvalidArgument"
           ELSE IF LineageStatus(contexts, i) # "NoError" THEN LineageStatus(contexts, i)
           ELSE IF ~ok THEN "CryptoError"
           ELSE "NoError"

SignRejected(l, h, ok) ==
  /\ SignStatus(l, h, ok) # "NoError"
  /\ Reject("Sign", l, h, SignStatus(l, h, ok))

(***************************************************************************)
(* Mutant of Sign: the new handle is committed before the response is      *)
(* written.                                                                *)
(***************************************************************************)
SignCommitsFirst(l, h, fits) ==
  LET i == GetActiveContextPos(contexts, h, l)
  IN  /\ SignStatus(l, h, TRUE) = "NoError"
      /\ \E nh \in RollOnetimeUseHandle(contexts, contexts[i], {}) \ {NO_HANDLE} :
           /\ contexts' = [contexts EXCEPT ![i].handle = nh]
           /\ Deliver("Sign", l, h, nh, NO_HANDLE, fits)
           /\ UNCHANGED << has_initialized, export_cdi_slots >>

Sign(l, h, fits) ==
  LET i == GetActiveContextPos(contexts, h, l)
  IN  /\ SignStatus(l, h, TRUE) = "NoError"
      /\ \E nh \in RollOnetimeUseHandle(contexts, contexts[i], {}) :
           \/ nh = NO_HANDLE /\ Reject("Sign", l, h, "InternalError")
           \/ /\ nh # NO_HANDLE /\ ~fits
              /\ Reject("Sign", l, h, "InvalidResponseBuf")
           \/ /\ nh # NO_HANDLE /\ fits
              /\ contexts' = [contexts EXCEPT ![i].handle = nh]
              /\ Respond("Sign", l, h, "NoError", nh, NO_HANDLE)
              /\ UNCHANGED << has_initialized, export_cdi_slots >>

CertFormats == {"X509", "CSR", "Unknown"}

(***************************************************************************)
(* A short buffer fails the certificate, before the handle is rolled.      *)
(***************************************************************************)
CertifyKeyStatus(l, h, format, ok, fits) ==
  IF LookupStatus(contexts, h, l) # "NoError" THEN LookupStatus(contexts, h, l)
  ELSE LET i == GetActiveContextPos(contexts, h, l)
       IN  IF format \in {"X509", "CSR"} \ Support THEN "ArgumentNotSupported"
           ELSE IF \/ format = "X509" /\ ~contexts[i].allow_x509
                   \/ format = "Unknown"
             THEN "InvalidArgument"
           ELSE IF LineageStatus(contexts, i) # "NoError" THEN LineageStatus(contexts, i)
           ELSE IF ~ok THEN "CryptoError"
           ELSE IF ~fits THEN "InternalError"
           ELSE "NoError"

CertifyKeyRejected(l, h, format, ok, fits) ==
  /\ CertifyKeyStatus(l, h, format, ok, fits) # "NoError"
  /\ Reject("CertifyKey", l, h, CertifyKeyStatus(l, h, format, ok, fits))

(***************************************************************************)
(* write_header also refuses a key of another profile than the command's,  *)
(* which is the profile of the result the key is in.                       *)
(***************************************************************************)
CertifyKey(l, h, format, hdr_fits) ==
  LET i == GetActiveContextPos(contexts, h, l)
  IN  /\ CertifyKeyStatus(l, h, format, TRUE, TRUE) = "NoError"
      /\ \E nh \in RollOnetimeUseHandle(contexts, contexts[i], {}) :
           \/ nh = NO_HANDLE /\ Reject("CertifyKey", l, h, "InternalError")
           \/ /\ nh # NO_HANDLE
              /\ contexts' = [contexts EXCEPT ![i].handle = nh]
              /\ Deliver("CertifyKey", l, h, nh, NO_HANDLE, hdr_fits)
              /\ UNCHANGED << has_initialized, export_cdi_slots >>

-----------------------------------------------------------------------------
(***************************************************************************)
(* GetProfile and GetCertificateChain read no context: they fail with the  *)
(* platform or the buffer, or answer.  A chunk may not exceed              *)
(* MAX_CHUNK_SIZE.                                                         *)
(***************************************************************************)
GetProfile(l, ok, fits) ==
  /\ IF ok THEN Deliver("GetProfile", l, NO_HANDLE, NO_HANDLE, NO_HANDLE, fits)
           ELSE Respond("GetProfile", l, NO_HANDLE, "PlatformError", NO_HANDLE, NO_HANDLE)
  /\ UNCHANGED state_vars

GetCertificateChain(l, oversized, ok, fits) ==
  /\ IF oversized
       THEN Respond("GetCertificateChain", l, NO_HANDLE, "InvalidArgument", NO_HANDLE, NO_HANDLE)
     ELSE IF ~ok
       THEN Respond("GetCertificateChain", l, NO_HANDLE, "PlatformError", NO_HANDLE, NO_HANDLE)
     ELSE Deliver("GetCertificateChain", l, NO_HANDLE, NO_HANDLE, NO_HANDLE, fits)
  /\ UNCHANGED state_vars

-----------------------------------------------------------------------------
(***************************************************************************)
(* The commands a locality may issue.                                      *)
(***************************************************************************)
Initialize(l) ==
  \/ \E flags \in SUBSET InitFlags : InitializeRejected(l, flags)
  \/ \E fits \in Fits : InitializeDefault(l, fits)
  \/ \E fits \in Fits : InitializeSimulation(l, fits)

(***************************************************************************)
(* The child's locality is the caller's unless CHANGE_LOCALITY is set.     *)
(***************************************************************************)
TargetLocalities(l, flags) == IF "CHANGE_LOCALITY" \in flags THEN Localities ELSE {l}

Derive(l, h) ==
  \E flags \in DeriveFlagSets : \E t \in TciTypes, target \in TargetLocalities(l, flags) :
    \/ DeriveRejected(l, h, flags, t, target)
    \/ \E m \in Measurements, ok \in BackendOk, fits \in Fits :
         DeriveRecursive(l, h, flags, t, target, m, ok, fits)
    \/ \E m \in Measurements, ok \in BackendOk, fits \in Fits :
         DeriveChild(l, h, flags, t, target, m, ok, fits)
    \/ \E outcome \in ExportOutcomes, fits \in Fits, hdr_fits \in HeaderFits :
         DeriveExportedCdi(l, h, flags, t, outcome, fits, hdr_fits)

Destroy(l, h) ==
  \/ DestroyRejected(l, h)
  \/ \E fits \in Fits : DestroyCtx(l, h, fits)

Rotate(l, h) ==
  \E to_default \in BOOLEAN :
    \/ RotateRejected(l, h, to_default)
    \/ \E fits \in Fits : RotateCtx(l, h, to_default, fits)

Update(l, h) ==
  \E t \in TciTypes :
    \/ UpdateRejected(l, h, t)
    \/ \E m \in Measurements, ok \in BackendOk, fits \in Fits :
         UpdateContextMeasurement(l, h, t, m, ok, fits)

UseKey(l, h) ==
  \/ \E ok \in BackendOk : SignRejected(l, h, ok)
  \/ \E fits \in Fits : Sign(l, h, fits)
  \/ \E format \in CertFormats :
       \/ \E ok \in BackendOk, fits \in Fits : CertifyKeyRejected(l, h, format, ok, fits)
       \/ \E hdr_fits \in HeaderFits : CertifyKey(l, h, format, hdr_fits)

Query(l) ==
  \E ok \in BackendOk, fits \in Fits :
    \/ GetProfile(l, ok, fits)
    \/ \E oversized \in BOOLEAN : GetCertificateChain(l, oversized, ok, fits)

Next ==
  \E l \in Localities :
    \/ Initialize(l)
    \/ Query(l)
    \/ \E h \in Handles :
         Derive(l, h) \/ Destroy(l, h) \/ Rotate(l, h) \/ Update(l, h) \/ UseKey(l, h)

Spec == Init /\ [][Next]_vars
=============================================================================
