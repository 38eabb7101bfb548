---------------------------- MODULE CommandCodec ----------------------------
(***************************************************************************)
(* The bytes of commands and responses: how a command is recognised, how   *)
(* much of a response is sent, what a client reads back from it, and the   *)
(* number an error becomes on the way.                                     *)
(*                                                                         *)
(* Abstraction.  Bytes are their length and what their first bytes decide: *)
(* a request is a record of its header, its length and, for Sign, the      *)
(* flags and the size that tell its two layouts apart; a response is the   *)
(* layout of its type and the length of the certificate in it.             *)
(***************************************************************************)
EXTENDS Integers, Sequences

CONSTANT MAX_HANDLES   \* context slots: they size the buffers for certificates

ASSUME HandlesAssumption == MAX_HANDLES \in Nat \ {0}

Profiles == {"P256Sha256", "P384Sha384", "Mldsa87"}

PerProfile(profile, p256, p384, mldsa) ==
  CASE profile = "P256Sha256" -> p256
    [] profile = "P384Sha384" -> p384
    [] profile = "Mldsa87"    -> mldsa

TciSize(profile) == PerProfile(profile, 32, 48, 48)

Aligned(n) == ((n + 3) \div 4) * 4

(***************************************************************************)
(* The constant build.rs computes.                                         *)
(***************************************************************************)
MaxCertSize(profile) ==
  Aligned(PerProfile(profile, 643, 756, 12307)
            + PerProfile(profile, 126, 159, 158) * MAX_HANDLES)

-----------------------------------------------------------------------------
(***************************************************************************)
(* Commands.                                                               *)
(***************************************************************************)
HdrSize == 12

HandleSize == 16

SignHeaderSize == HandleSize + 48 + 4

RawMaxSize == 1024

CommandIds ==
  {"GetProfile", "InitCtx", "DeriveContext", "CertifyKey", "Sign", "RotateCtx", "DestroyCtx",
   "GetCertificateChain", "UpdateContextMeasurement"}

DeriveContextSize(profile) == HandleSize + TciSize(profile) + 16

UpdateSize(profile) == HandleSize + TciSize(profile) + 12

CertifyKeySize(profile) == HandleSize + 8 + PerProfile(profile, 32, 48, 48)

SignSize(profile) == HandleSize + 4 + PerProfile(profile, 32 + 32, 48 + 48, 48 + 64)

(***************************************************************************)
(* The size of a command without its header.                               *)
(***************************************************************************)
CommandSize(profile, id) ==
  CASE id = "GetProfile" -> 0
    [] id = "InitCtx" -> 4
    [] id = "DeriveContext" -> DeriveContextSize(profile)
    [] id = "CertifyKey" -> CertifyKeySize(profile)
    [] id = "Sign" -> SignSize(profile)
    [] id = "SignRaw" -> SignHeaderSize + 4 + RawMaxSize
    [] id = "RotateCtx" -> HandleSize + 4
    [] id = "DestroyCtx" -> HandleSize
    [] id = "GetCertificateChain" -> 8
    [] id = "UpdateContextMeasurement" -> UpdateSize(profile)

IsRaw(profile, r) == profile = "Mldsa87" /\ r.id = "Sign" /\ r.is_raw

(***************************************************************************)
(* GetProfile may name any profile, for its sender does not know which one *)
(* there is.                                                               *)
(***************************************************************************)
HeaderAccepted(profile, r) ==
  /\ r.len >= HdrSize
  /\ r.magic
  /\ r.id = "GetProfile" \/ r.profile = profile

(***************************************************************************)
(* Command::deserialize: whether there is a command and, if not, the error *)
(* there is instead.                                                       *)
(***************************************************************************)
Deserialize(profile, r) ==
  LET layout == IF IsRaw(profile, r) THEN "SignRaw" ELSE r.id
  IN  CASE ~HeaderAccepted(profile, r) \/ r.id \notin CommandIds -> "InvalidCommand"
        [] OTHER ->
             IF \/ r.len - HdrSize < CommandSize(profile, layout)
                \/ IsRaw(profile, r) /\ r.size > RawMaxSize
             THEN "InvalidArgument"
             ELSE "Ok"

-----------------------------------------------------------------------------
(***************************************************************************)
(* Error codes.  An error is its discriminant and, when it is internal or  *)
(* comes from the platform, the crypto layer or the validator, the         *)
(* discriminant of its cause.  The causes of the last three go into the    *)
(* low bits of a code; that of an internal error does not.                 *)
(***************************************************************************)
NoError               == [discriminant |-> 0, sub |-> 0]
InvalidHandle         == [discriminant |-> 128, sub |-> 0]
InvalidParentLocality == [discriminant |-> 133, sub |-> 0]

PLATFORM   == 16777216   \* 0x01000000
CRYPTO     == 33554432   \* 0x02000000
VALIDATION == 50331648   \* 0x03000000

PlainErrors ==
  {[discriminant |-> d, sub |-> 0] : d \in {0} \cup 2 .. 7 \cup 128 .. 137 \cup 144 .. 148}

InternalErrors == {[discriminant |-> 1, sub |-> n] : n \in 1 .. 37}

CauseErrors ==
  {[discriminant |-> PLATFORM, sub |-> n] : n \in 1 .. 11}
    \cup {[discriminant |-> CRYPTO, sub |-> n] : n \in 1 .. 9}
    \cup {[discriminant |-> VALIDATION, sub |-> n] : n \in 0 .. 26}

(***************************************************************************)
(* Every DpeErrorCode.                                                     *)
(***************************************************************************)
Errors == PlainErrors \cup InternalErrors \cup CauseErrors

(***************************************************************************)
(* get_error_code.  The two parts share no bit, so the sum is their union. *)
(***************************************************************************)
ErrorCode(e) ==
  IF e.discriminant \in {PLATFORM, CRYPTO, VALIDATION}
    THEN e.discriminant + e.sub
    ELSE e.discriminant

-----------------------------------------------------------------------------
(***************************************************************************)
(* Responses: after the header, the fields of a type and their sizes.      *)
(***************************************************************************)
Handle == << "handle", HandleSize >>

Parent == << "parent_handle", HandleSize >>

Fields(profile, type) ==
  CASE type = "GetProfile" -> << << "profile", 20 >> >>
    [] type = "NewHandle" -> << Handle >>
    [] type \in {"DeriveContext", "UpdateContextMeasurement"} -> << Handle, Parent >>
    [] type = "DeriveContextExportedCdi" ->
         << Handle, Parent, << "exported_cdi", 32 >>, << "certificate_size", 4 >>,
            << "certificate", MaxCertSize(profile) >> >>
    [] type = "CertifyKey" ->
         << Handle, << "pubkey", PerProfile(profile, 64, 96, 2592) >>, << "certificate_size", 4 >>,
            << "certificate", MaxCertSize(profile) >> >>
    [] type = "Sign" -> << Handle, << "sig", PerProfile(profile, 64, 96, 4627 + 1) >> >>
    [] type = "DestroyCtx" -> << >>
    [] type = "GetCertificateChain" ->
         << << "certificate_size", 4 >>, << "certificate_chain", 2048 >> >>

(***************************************************************************)
(* Where the i-th field begins; one past the last, the size of the type.   *)
(***************************************************************************)
Offset(profile, type, i) ==
  LET end[k \in 0 .. Len(Fields(profile, type))] ==
        IF k = 0 THEN HdrSize ELSE end[k - 1] + Fields(profile, type)[k][2]
  IN  end[i - 1]

SizeOf(profile, type) == Offset(profile, type, Len(Fields(profile, type)) + 1)

HasCertificate(type) == type \in {"DeriveContextExportedCdi", "CertifyKey"}

(***************************************************************************)
(* The type of response CommandExecution::execute allocates.               *)
(***************************************************************************)
ResponseType(id, exports) ==
  CASE id \in {"InitCtx", "RotateCtx"} -> "NewHandle"
    [] id = "DeriveContext" /\ exports -> "DeriveContextExportedCdi"
    [] OTHER -> id

(***************************************************************************)
(* Mutant of ReadType: the response to an export is read as that to an     *)
(* ordinary DeriveContext.                                                 *)
(***************************************************************************)
ReadTypeById(id, exports) == IF id \in {"InitCtx", "RotateCtx"} THEN "NewHandle" ELSE id

(***************************************************************************)
(* The type Response::try_read_from_bytes reads for a command.             *)
(***************************************************************************)
ReadType(id, exports) ==
  CASE id = "DeriveContext" -> IF exports THEN "DeriveContextExportedCdi" ELSE "DeriveContext"
    [] id = "InitCtx"   -> "NewHandle"
    [] id = "RotateCtx" -> "NewHandle"
    [] OTHER -> id

(***************************************************************************)
(* as_bytes_partial: the bytes of a response that are sent.  An error is a *)
(* header, whatever the command was.                                       *)
(***************************************************************************)
PartialLen(profile, type, error, cert_size) ==
  IF error # NoError THEN HdrSize
  ELSE IF HasCertificate(type) THEN SizeOf(profile, type) - MaxCertSize(profile) + cert_size
  ELSE SizeOf(profile, type)

(***************************************************************************)
(* The field that n bytes of a response, padded with zeros, give a client. *)
(***************************************************************************)
ReadField(profile, type, n, i) ==
  LET field == Fields(profile, type)[i]
      at    == Offset(profile, type, i)
  IN  << field[1], IF n >= at + field[2] THEN field[2] ELSE IF n <= at THEN 0 ELSE n - at >>
=============================================================================
