------------------------------- MODULE MCKeys -------------------------------
(***************************************************************************)
(* Model checking of KeySession.                                           *)
(***************************************************************************)
EXTENDS KeySession

Node(t, x509, info, dice) == [tci |-> t, allow_x509 |-> x509, info |-> info, dice |-> dice]

Root == Node("root", TRUE, FALSE, FALSE)

Child(x509, info, dice) == << Root, Node("child", x509, info, dice) >>

(***************************************************************************)
(* A root and children of it that have the same measurements and differ in *)
(* what else goes into the digest.                                         *)
(***************************************************************************)
MCLineages ==
  { << Root >>, Child(TRUE, TRUE, FALSE), Child(TRUE, FALSE, TRUE), Child(FALSE, FALSE, FALSE) }

(***************************************************************************)
(* One label gives no key for one of the contexts, and neither does the    *)
(* exported CDI of the root.                                               *)
(***************************************************************************)
MCIsValidScalar(key) ==
  /\ key.label = "l2" => key.cdi.digest # NodesBytes(Child(FALSE, FALSE, FALSE))
  /\ key.label = EXPORTED => key.cdi.digest # NodesBytes(<< Root >>)
=============================================================================
