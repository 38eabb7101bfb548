--------------------------- MODULE DpeProperties ---------------------------
(***************************************************************************)
(* What a DPE instance promises: the type invariant, the invariants of the *)
(* context forest and of its handles, and what a step may never do.        *)
(***************************************************************************)
EXTENDS DpeInstance

Commands ==
  { "None", "InitializeContext", "DeriveContext", "DestroyContext",
    "RotateContextHandle", "UpdateContextMeasurement", "Sign", "CertifyKey",
    "GetProfile", "GetCertificateChain" }

Statuses ==
  { "NoError", "InternalError", "InvalidCommand", "InvalidArgument",
    "ArgumentNotSupported", "InvalidHandle", "InvalidLocality",
    "InvalidParentLocality", "MaxTcis", "InvalidResponseBuf", "CryptoError",
    "PlatformError" }

Response ==
  [ cmd           : Commands,
    locality      : Localities,
    used          : Handles \cup {NO_HANDLE},
    status        : Statuses,
    handle        : Handles \cup {NO_HANDLE},
    parent_handle : Handles \cup {NO_HANDLE} ]

(***************************************************************************)
(* The type invariant of dpe/src/state.rs's State and of the last response.*)
(* The crypto layer never holds more exported CDIs than it has slots for.  *)
(***************************************************************************)
TypeOK ==
  /\ contexts \in [Slots -> Context]
  /\ has_initialized \in BOOLEAN
  /\ IsFiniteSet(export_cdi_slots)
  /\ Cardinality(export_cdi_slots) <= MAX_CDI_HANDLES
  /\ resp \in Response

-----------------------------------------------------------------------------
(***************************************************************************)
(* The context forest.                                                     *)
(***************************************************************************)
Live(cs) == {i \in Slots : cs[i].state # "Inactive"}

IsRoot(cs, i) == cs[i].parent_idx = ROOT_INDEX

Parent(i) == contexts[contexts[i].parent_idx]

(***************************************************************************)
(* The parent_idx of a live context and the children bitmap of its parent  *)
(* agree, and neither points at an inactive slot.  DestroyContext and      *)
(* DeriveContext each write both ends of such links, in two slots or more. *)
(***************************************************************************)
LinksAgree ==
  /\ \A i \in Live(contexts) : ~IsRoot(contexts, i) =>
        contexts[i].parent_idx \in Live(contexts) /\ i \in Parent(i).children
  /\ \A i \in Live(contexts) : \A j \in contexts[i].children :
        j \in Live(contexts) /\ contexts[j].parent_idx = i

(***************************************************************************)
(* A slot that is not in use holds nothing that the next command could     *)
(* mistake for a context: no parent, no children, no measurement, no flag. *)
(* This is what Context::destroy must leave for Context::activate and the  *)
(* searches to find.                                                       *)
(***************************************************************************)
InactiveIsBlank ==
  \A i \in Slots \ Live(contexts) :
    /\ IsRoot(contexts, i) /\ contexts[i].children = {}
    /\ contexts[i].tci_cumulative = << >> /\ contexts[i].tci_type = 0
    /\ ~contexts[i].allow_x509 /\ ~contexts[i].allow_recursive
    /\ ~contexts[i].uses_internal_input_info /\ ~contexts[i].uses_internal_input_dice

(***************************************************************************)
(* A retired context, whose handle nobody holds, is kept only for its      *)
(* children: destroy_context must take it along with the last of them, or  *)
(* its slot would be lost for ever.                                        *)
(***************************************************************************)
RetiredIsNeeded ==
  \A i \in Slots : contexts[i].state = "Retired" =>
    contexts[i].children # {} /\ contexts[i].handle = INVALID

(***************************************************************************)
(* Following parents from any live context ends at a root: every set of    *)
(* live contexts has a member whose parent is outside it.                  *)
(* RootToChildIter and get_descendants terminate only because of this.     *)
(***************************************************************************)
NoCycle ==
  \A D \in SUBSET Live(contexts) : D # {} =>
    \E i \in D : contexts[i].parent_idx \notin D

(***************************************************************************)
(* The Normal contexts form one tree, which InitializeContext starts once: *)
(* the type of a context is its parent's, at most one live root is Normal, *)
(* and none is before has_initialized.                                     *)
(***************************************************************************)
OneNormalTree ==
  /\ \A i \in Live(contexts) : ~IsRoot(contexts, i) =>
        contexts[i].context_type = Parent(i).context_type
  /\ \A i, j \in Live(contexts) :
        /\ contexts[i].context_type = "Normal" /\ IsRoot(contexts, i)
        /\ contexts[j].context_type = "Normal" /\ IsRoot(contexts, j)
        => i = j /\ has_initialized

(***************************************************************************)
(* A context never has a permission that its parent lacks, so no chain of  *)
(* derivations regains what an ancestor gave up.                           *)
(***************************************************************************)
PermissionsInherited ==
  \A i \in Live(contexts) : ~IsRoot(contexts, i) =>
    /\ contexts[i].allow_x509 => Parent(i).allow_x509
    /\ contexts[i].allow_export_cdi => Parent(i).allow_export_cdi
    /\ contexts[i].allow_recursive => Parent(i).allow_recursive

(***************************************************************************)
(* "Each INPUT_TYPE value SHALL be unique among the direct children of a   *)
(* given context": UpdateContextMeasurement names a child by it.           *)
(***************************************************************************)
InputTypeNamesChild ==
  \A i, j \in Live(contexts) :
    /\ i # j /\ ~IsRoot(contexts, i)
    /\ contexts[i].parent_idx = contexts[j].parent_idx
    => contexts[i].tci_type # contexts[j].tci_type

-----------------------------------------------------------------------------
(***************************************************************************)
(* Handles.                                                                *)
(***************************************************************************)
ActiveSlots == {i \in Slots : contexts[i].state = "Active"}

(***************************************************************************)
(* "Generates a random context handle that is unique from all other        *)
(* context handles": two active contexts never share a handle, other than  *)
(* the default one, which each locality has for itself.                    *)
(***************************************************************************)
HandlesUnique ==
  \A i, j \in ActiveSlots :
    contexts[i].handle = contexts[j].handle /\ contexts[i].handle # DEFAULT => i = j

(***************************************************************************)
(* "When a default context is in a locality, it MUST be the only context   *)
(* in the locality."                                                       *)
(***************************************************************************)
DefaultIsAlone ==
  \A i, j \in ActiveSlots :
    /\ contexts[i].locality = contexts[j].locality
    /\ contexts[i].handle = DEFAULT
    => i = j

-----------------------------------------------------------------------------
(***************************************************************************)
(* What a step may never do.  A step is a command, and resp' its response. *)
(***************************************************************************)
Succeeded == resp'.status = "NoError"

(***************************************************************************)
(* The context a command named, in the state it was issued in.             *)
(***************************************************************************)
Named == ActiveWith(contexts, resp'.used, resp'.locality)

(***************************************************************************)
(* A command that fails leaves every context as it was, as the fuzz        *)
(* harness asserts.                                                        *)
(***************************************************************************)
FailureKeepsContexts ==
  [][~Succeeded => UNCHANGED << contexts, has_initialized >>]_vars

(***************************************************************************)
(* The same for every failure before the response is written and every     *)
(* command but UpdateContextMeasurement, whose first commit comes before   *)
(* its last failure.                                                       *)
(***************************************************************************)
OtherFailuresKeepContexts ==
  [][/\ resp'.status \notin {"NoError", "InvalidResponseBuf"}
     /\ resp'.cmd # "UpdateContextMeasurement"
     => UNCHANGED << contexts, has_initialized >>]_vars

(***************************************************************************)
(* When the second handle draw of UpdateContextMeasurement fails, only the *)
(* parent's handle has changed: no measurement is recorded and no handle   *)
(* but the parent's is lost.                                               *)
(***************************************************************************)
FailedUpdateOnlyRollsParent ==
  [][resp'.cmd = "UpdateContextMeasurement" /\ resp'.status = "InternalError" =>
       \A i \in Slots :
         contexts'[i] = [contexts[i] EXCEPT
                           !.handle = IF i \in Named THEN contexts'[i].handle ELSE @]]_vars

(***************************************************************************)
(* Once DeriveContext has set the child and parent contexts, "we cannot    *)
(* error out anymore".                                                     *)
(***************************************************************************)
DeriveCommitsLast ==
  [][~Succeeded /\ resp'.cmd = "DeriveContext" => UNCHANGED contexts]_vars

(***************************************************************************)
(* A Sign or CertifyKey that fails leaves its caller the handle it holds,  *)
(* a buffer too short for the response included.  Sign commits the rolled  *)
(* handle after its response; CertifyKey after the certificate but before  *)
(* the header that tells it, so that a buffer that holds the one and       *)
(* refuses the other loses the handle, and no more than that.              *)
(***************************************************************************)
HeaderRefused ==
  BUFFER_MAY_REFUSE /\ resp'.cmd = "CertifyKey" /\ resp'.status = "InvalidResponseBuf"

FailedKeyUseKeepsHandle ==
  [][~Succeeded /\ resp'.cmd \in {"Sign", "CertifyKey"} =>
       \/ UNCHANGED contexts
       \/ HeaderRefused /\ \E i \in Named :
            contexts' = [contexts EXCEPT ![i].handle = contexts'[i].handle]]_vars

(***************************************************************************)
(* A handle other than the default one is good for one command: after a    *)
(* command that succeeds with it, no active context answers to it.         *)
(***************************************************************************)
HandleIsOneTimeUse ==
  [][Succeeded /\ resp'.used \notin {NO_HANDLE, DEFAULT} =>
       \A i \in Slots :
         ~(contexts'[i].state = "Active" /\ contexts'[i].handle = resp'.used)]_vars

(***************************************************************************)
(* The handle a command returns names exactly one active context, the      *)
(* caller's or, for DeriveContext and UpdateContextMeasurement, a child of *)
(* the context the command named; the parent handle it returns names the   *)
(* context the command named.  A DeriveContext that measures the named     *)
(* context itself, and neither gives it a child nor exports, has no parent *)
(* to name.                                                                *)
(***************************************************************************)
Usable(h) == h \notin {NO_HANDLE, INVALID}

DerivedInPlace ==
  /\ resp'.cmd = "DeriveContext" /\ UNCHANGED export_cdi_slots
  /\ \E p \in Named : contexts'[p].children = contexts[p].children

ReturnedHandlesResolve ==
  [][Succeeded =>
       /\ Usable(resp'.handle) =>
            \E i \in Slots :
              /\ ActiveWith(contexts', resp'.handle, contexts'[i].locality) = {i}
              /\ \/ contexts'[i].locality = resp'.locality
                 \/ \E p \in Named : i \in contexts'[p].children
       /\ Usable(resp'.parent_handle) /\ ~DerivedInPlace =>
            ActiveWith(contexts', resp'.parent_handle, resp'.locality) = Named]_vars

(***************************************************************************)
(* A live context keeps its place in the tree, its locality, its type and  *)
(* its permissions until it is destroyed; a retired one also keeps its     *)
(* measurements, and never becomes active again.                           *)
(***************************************************************************)
IdentityIsStable ==
  [][\A i \in Live(contexts) : contexts'[i].state # "Inactive" =>
       /\ \A f \in {"parent_idx", "locality", "tci_locality", "tci_type", "context_type",
                    "allow_x509", "allow_export_cdi", "allow_recursive",
                    "uses_internal_input_info", "uses_internal_input_dice"} :
            contexts'[i][f] = contexts[i][f]
       /\ contexts[i].state = "Retired" =>
            /\ contexts'[i].state = "Retired"
            /\ contexts'[i].tci_cumulative = contexts[i].tci_cumulative]_vars

(***************************************************************************)
(* The measurements of a live context are only ever extended, by one       *)
(* measurement at a time, and only for whoever names the context, with     *)
(* permission to update itself, or its parent.                             *)
(***************************************************************************)
MeasurementsAreExtended ==
  [][\A i \in Live(contexts) :
       LET old == contexts[i].tci_cumulative
           new == contexts'[i].tci_cumulative
       IN  new # old /\ contexts'[i].state # "Inactive" =>
             /\ resp'.status \in {"NoError", "InvalidResponseBuf"}
             /\ \E m \in Measurements : new = Append(old, m)
             /\ \/ i \in Named /\ contexts[i].allow_recursive
                \/ contexts[i].parent_idx \in Named]_vars

(***************************************************************************)
(* A command reaches no context but the one it names, those derived from   *)
(* it, and the retired ancestors it leaves without children: another       *)
(* locality's active context changes only its children bitmap unless the   *)
(* caller holds the handle of an ancestor.                                 *)
(***************************************************************************)
OthersAreUntouched ==
  [][\A i \in ActiveSlots :
       \/ contexts'[i] = [contexts[i] EXCEPT !.children = contexts'[i].children]
       \/ Named \cap Lineage(contexts, i) # {}]_vars

(***************************************************************************)
(* The base CDI is locked after its first use: once the instance has been  *)
(* initialized it stays so, and no new Normal root appears, whatever is    *)
(* destroyed.                                                              *)
(***************************************************************************)
NormalRoots(cs) ==
  {i \in Live(cs) : IsRoot(cs, i) /\ cs[i].context_type = "Normal"}

NormalRootOnlyOnce ==
  [][has_initialized =>
       has_initialized' /\ NormalRoots(contexts') \subseteq NormalRoots(contexts)]_vars

(***************************************************************************)
(* A CDI leaves the instance only for the holder of an active Normal       *)
(* context whose whole lineage permits exporting, and only with that       *)
(* lineage's measurements.                                                 *)
(***************************************************************************)
ExportIsPermitted ==
  [][\A cdi \in export_cdi_slots' \ export_cdi_slots :
       \E i \in Named :
         /\ cdi = MeasurementHash(contexts, i)
         /\ \A k \in Lineage(contexts, i) :
              contexts[k].allow_export_cdi /\ contexts[k].context_type = "Normal"]_vars
=============================================================================
