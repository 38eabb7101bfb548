------------------------------- MODULE MCSim --------------------------------
(***************************************************************************)
(* Model checking of Simulator.                                            *)
(***************************************************************************)
EXTENDS Simulator

Request(id, len, is_raw, exports) ==
  [ len |-> HdrSize + len, magic |-> TRUE, id |-> id, profile |-> "Mldsa87",
    is_raw |-> is_raw, size |-> RawMaxSize, exports |-> exports ]

(***************************************************************************)
(* Requests that leave the context alone, roll its handle, destroy it and  *)
(* roll two handles; one is for another profile than the build's, one is   *)
(* answered with a certificate, one has the response type of another       *)
(* command, and one, a raw Sign, is a byte short.                          *)
(***************************************************************************)
MCRequests ==
  { [Request("GetProfile", 0, FALSE, FALSE) EXCEPT !.profile = "P256Sha256"],
    Request("DeriveContext", 80, FALSE, TRUE),
    Request("RotateCtx", 20, FALSE, FALSE),
    Request("Sign", 1095, TRUE, FALSE),
    Request("DestroyCtx", 16, FALSE, FALSE),
    Request("UpdateContextMeasurement", 76, FALSE, FALSE) }
=============================================================================
