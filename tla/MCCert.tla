------------------------------- MODULE MCCert -------------------------------
(***************************************************************************)
(* Requests for TLC.                                                       *)
(***************************************************************************)
EXTENDS CertWriter

(***************************************************************************)
(* The svn of a root is zero; those of derived contexts are what the       *)
(* command says, and take one byte, two (from 128 on) or five (2^31 on).   *)
(***************************************************************************)
Svn0 == Integer(8, 8, FALSE)
Svn1 == Integer(8, 7, FALSE)
Svn2 == Integer(8, 7, TRUE)
Svn5 == Integer(8, 4, TRUE)

FromRoot(n, svn) == <<Svn0>> \o [i \in 1 .. n - 1 |-> svn]

Lineages ==
  {FromRoot(1, Svn1), FromRoot(3, Svn1), FromRoot(2, Svn2), FromRoot(64, Svn1), FromRoot(64, Svn5)}

(***************************************************************************)
(* Signatures whose halves take a byte less than the curve, and one more.  *)
(***************************************************************************)
Halves(len) == {Integer(len, 1, FALSE), Integer(len, 0, TRUE)}

Kinds == {<<"X509", FALSE>>, <<"X509", TRUE>>, <<"Csr", FALSE>>}

(***************************************************************************)
(* What the platform and the caller provide: as little as they can, or as  *)
(* much.                                                                   *)
(***************************************************************************)
Small ==
  [ label |-> 0, subject_alt_name |-> NoSubjectAltName, issuer_name |-> 0,
    sid |-> "SubjectKeyIdentifier", sid_serial |-> Integer(1, 1, FALSE) ]
Large ==
  [ label |-> 48, subject_alt_name |-> [oid |-> 8, name |-> 128], issuer_name |-> 128,
    sid |-> "IssuerAndSerialNumber", sid_serial |-> Integer(20, 0, TRUE) ]

Make(profile, kind, crit, recursive, svns, slot0, data, half, capacity) ==
  [ profile |-> profile, format |-> kind[1], is_ca |-> kind[2], crit_dice |-> crit,
    supports_recursive |-> recursive /\ ~kind[2], svns |-> svns, slot0 |-> slot0,
    label |-> data.label, subject_alt_name |-> data.subject_alt_name,
    issuer_name |-> data.issuer_name, sid |-> data.sid, sid_serial |-> data.sid_serial,
    sig_r |-> half, sig_s |-> Integer(half.len, 0, FALSE), capacity |-> capacity ]

(***************************************************************************)
(* Every kind of request in a buffer that is large enough, and small ones  *)
(* in buffers of every size.                                               *)
(***************************************************************************)
Ample ==
  UNION { { Make(profile, kind, crit, recursive, svns, slot0, data, half, 65535) :
              kind \in Kinds, crit \in BOOLEAN, recursive \in BOOLEAN, svns \in Lineages,
              slot0 \in {Svn0, Svn5}, data \in {Small, Large},
              half \in Halves(IF profile = "P256Sha256" THEN 32 ELSE 48) } :
          profile \in Profiles }

Tight ==
  { Make("P256Sha256", kind, FALSE, FALSE, <<Svn0>>, Svn0, Small, Integer(32, 0, TRUE), capacity) :
      kind \in Kinds, capacity \in 0 .. 1100 }

CertRequests == Ample \cup Tight

(***************************************************************************)
(* A lineage whose svns take different widths.                             *)
(***************************************************************************)
MixedRequests ==
  { Make(profile, kind, FALSE, TRUE, svns, svns[1], Small, Integer(32, 0, TRUE), 65535) :
      profile \in Profiles, kind \in Kinds, svns \in Lineages }
=============================================================================
