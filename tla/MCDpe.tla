------------------------------- MODULE MCDpe -------------------------------
(***************************************************************************)
(* Instances of DpeInstance for TLC: the flag combinations, the supported  *)
(* features and the handles of each run.                                   *)
(***************************************************************************)
EXTENDS DpeValidator, DpeRefinement, TLC

CONSTANTS h1, h2, h3, h4, h5, h6

HandlesSym4 == Permutations({h1, h2, h3, h4})
HandlesSym5 == Permutations({h1, h2, h3, h4, h5})
HandlesSymKept == Permutations({h2, h3, h4})

(***************************************************************************)
(* resp is written by every command and read by none, so two states that   *)
(* differ in it alone have the same successors.                            *)
(***************************************************************************)
StateView == state_vars

Retain == "RETAIN_PARENT_CONTEXT"
MakeDefault == "MAKE_DEFAULT"
ChangeLocality == "CHANGE_LOCALITY"

(***************************************************************************)
(* Forest runs: derivations in place, with and without the parent.         *)
(***************************************************************************)
ForestSupport == {"AUTO_INIT", "RETAIN_PARENT_CONTEXT", "ROTATE_CONTEXT"}
ForestFlags == { {}, {Retain}, {MakeDefault}, {MakeDefault, Retain} }

(***************************************************************************)
(* Locality runs: contexts given to another locality, default or not, or   *)
(* measured in place.                                                      *)
(***************************************************************************)
LocalitySupport == {"RETAIN_PARENT_CONTEXT", "ROTATE_CONTEXT", "RECURSIVE"}
LocalityFlags ==
  { {}, {Retain}, {MakeDefault}, {ChangeLocality}, {ChangeLocality, Retain},
    {ChangeLocality, MakeDefault}, {ChangeLocality, MakeDefault, Retain}, {"RECURSIVE"} }

(***************************************************************************)
(* Failure runs: a root that may export, sign an X.509 certificate and     *)
(* update itself, and children that give some of that up; every command,   *)
(* with every source of failure.  The last sets are the combinations       *)
(* DeriveContext refuses, whatever the parent.                             *)
(***************************************************************************)
AllowExport == "ALLOW_NEW_CONTEXT_TO_EXPORT"
ExportCdi == {"CREATE_CERTIFICATE", "EXPORT_CDI"}

FailureSupport ==
  { "AUTO_INIT", "RETAIN_PARENT_CONTEXT", "ROTATE_CONTEXT", "RECURSIVE", "X509", "CSR",
    "CDI_EXPORT", "INTERNAL_INFO" }
FailureFlags ==
  { {Retain}, {AllowExport, "INPUT_ALLOW_X509", "ALLOW_RECURSIVE"}, {"ALLOW_RECURSIVE"},
    {Retain, AllowExport, "INTERNAL_INPUT_INFO"}, {"INPUT_ALLOW_X509", "CREATE_CERTIFICATE"},
    {"RECURSIVE"}, ExportCdi, ExportCdi \cup {Retain},
    {"EXPORT_CDI"}, {"RECURSIVE", Retain}, {"INTERNAL_INPUT_DICE"} }

(***************************************************************************)
(* Simulation runs: trees of Simulation contexts beside the Normal one.    *)
(***************************************************************************)
SimulationSupport ==
  {"SIMULATION", "RETAIN_PARENT_CONTEXT", "ROTATE_CONTEXT", "CDI_EXPORT", "CSR"}
SimulationFlags == { {}, {Retain}, {MakeDefault}, {AllowExport}, ExportCdi }

(***************************************************************************)
(* Disagreement runs: the smallest features that show each one.            *)
(***************************************************************************)
AutoRetain == {"AUTO_INIT", "RETAIN_PARENT_CONTEXT", "ROTATE_CONTEXT"}

(***************************************************************************)
(* Restored runs: what a kept slot may hold.  Every combination of links,  *)
(* with and without a child past the end, for active and retired contexts; *)
(* simulation contexts, default ones and inactive ones that are not blank. *)
(***************************************************************************)
Kept(state, h, p, ch) ==
  [RootContext("Normal", 0, h) EXCEPT
     !.state = state, !.parent_idx = p, !.children = ch, !.allow_x509 = (p = ROOT_INDEX)]

KeptLinks == (Slots \cup {ROOT_INDEX, MAX_HANDLES}) \X (SUBSET Slots \cup {{MAX_HANDLES}})

KeptInactive ==
  { NewContext, [NewContext EXCEPT !.children = {1}], [NewContext EXCEPT !.parent_idx = 0],
    [NewContext EXCEPT !.allow_recursive = TRUE], [NewContext EXCEPT !.tci_type = 1],
    [NewContext EXCEPT !.allow_x509 = TRUE] }

KeptForest ==
  KeptInactive
    \cup {Kept("Active", h1, ln[1], ln[2]) : ln \in KeptLinks}
    \cup {Kept("Retired", INVALID, ln[1], ln[2]) : ln \in KeptLinks}
    \cup {[Kept("Active", h1, p, ch) EXCEPT !.context_type = "Simulation"] :
             p \in {0, ROOT_INDEX}, ch \in {{}, {1}}}

(***************************************************************************)
(* The same with two localities, flags and default handles, and no links   *)
(* but those of small forests.                                             *)
(***************************************************************************)
KeptFlags == { {}, {Retain}, {ChangeLocality}, {ChangeLocality, MakeDefault, Retain} }

KeptDefaults ==
  KeptInactive
    \cup {[Kept("Active", h, p, ch) EXCEPT !.locality = l, !.tci_locality = l] :
             h \in {DEFAULT, h1}, p \in {0, 1, ROOT_INDEX}, ch \in {{}, {1}, {2}}, l \in Localities}
    \cup {Kept("Retired", INVALID, p, ch) :
             p \in {0, ROOT_INDEX}, ch \in {{}, {1}, {2}, {1, 2}}}
    \cup {[Kept("Active", h1, 0, {}) EXCEPT !.allow_x509 = TRUE],
           [Kept("Active", h1, 0, {}) EXCEPT !.uses_internal_input_dice = TRUE],
           [Kept("Active", h1, 0, {}) EXCEPT !.locality = 1]}
=============================================================================
