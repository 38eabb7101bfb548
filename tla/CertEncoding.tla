---------------------------- MODULE CertEncoding ----------------------------
(***************************************************************************)
(* The DER encoder of dpe/src/x509.rs: what each encode_* function         *)
(* declares as the length of the structures it writes, computed beforehand *)
(* by the get_*_size functions, and what it writes then.                   *)
(*                                                                         *)
(* Only lengths matter here, so a byte string is its length, and what an   *)
(* encoder emits is a number of bytes together with whether every length   *)
(* declared in them is that of the bytes that follow.                      *)
(***************************************************************************)
EXTENDS Integers, SequencesExt

Nothing == [written |-> 0, exact |-> TRUE]

(***************************************************************************)
(* encode_bytes, which returns what it was given whether or not it fitted. *)
(***************************************************************************)
EncodeBytes(n) == [written |-> n, exact |-> TRUE]

(***************************************************************************)
(* First a, then b: the running sum bytes_written of every encoder.        *)
(***************************************************************************)
a ++ b == [written |-> a.written + b.written, exact |-> a.exact /\ b.exact]

Optional(present, e) == IF present THEN e ELSE Nothing

-----------------------------------------------------------------------------
(***************************************************************************)
(* Lengths.                                                                *)
(***************************************************************************)
SizeWidth(size) ==
  IF size < 128 THEN 1
  ELSE IF size < 256 THEN 2
  ELSE IF size < 65536 THEN 3
  ELSE IF size < 16777216 THEN 4
  ELSE 5

(***************************************************************************)
(* get_structure_size with tagged; without it a structure is its content.  *)
(***************************************************************************)
StructureSize(data_size) == 1 + SizeWidth(data_size) + data_size

(***************************************************************************)
(* A tag, a length field that declares data_size, and the content.         *)
(***************************************************************************)
EncodeStructure(data_size, content) ==
  [ written |-> 1 + SizeWidth(data_size) + content.written,
    exact   |-> content.exact /\ data_size = content.written ]

EncodeTlv(len) == EncodeStructure(len, EncodeBytes(len))

(***************************************************************************)
(* A big-endian integer: its bytes, how many of the first ones are zero,   *)
(* and whether the first that is not has its high bit set.                 *)
(***************************************************************************)
Integer(len, zeros, high) == [len |-> len, zeros |-> zeros, high |-> high]

SmallInteger == Integer(8, 7, FALSE)   \* a u64 below 128

LeadingZeros(n) == IF n.zeros < n.len THEN n.zeros ELSE n.len - 1

IntegerBytesSize(n) == n.len - LeadingZeros(n) + (IF n.high THEN 1 ELSE 0)

(***************************************************************************)
(* The code derives where to start reading, and whether to put a zero in   *)
(* front, from the size alone.                                             *)
(***************************************************************************)
EncodeIntegerBytes(n) ==
  LET size   == IntegerBytesSize(n)
      offset == IF size < n.len THEN n.len - size ELSE 0
  IN  EncodeStructure(size,
        Optional(size > n.len, EncodeBytes(1)) ++ EncodeBytes(n.len - offset))

-----------------------------------------------------------------------------
(***************************************************************************)
(* The request a certificate or CSR is made for: the inputs of             *)
(* generate_cert_or_csr, as lengths.  svns are those of the lineage, root  *)
(* first, and slot0 is the svn of contexts[0].                             *)
(***************************************************************************)
MAX_HANDLES == 64   \* the most that src/context.rs compiles with

Profiles == {"P256Sha256", "P384Sha384", "Mldsa87"}

SvnIntegers == {Integer(8, z, h) : z \in 4 .. 8, h \in BOOLEAN} \ {Integer(8, 8, TRUE)}

NoSubjectAltName == [oid |-> 0, name |-> 0]

Request ==
  [ profile            : Profiles,
    format             : {"X509", "Csr"},
    is_ca              : BOOLEAN,
    crit_dice          : BOOLEAN,
    supports_recursive : BOOLEAN,
    svns               : Seq(SvnIntegers),
    slot0              : SvnIntegers,
    label              : 0 .. 48,
    subject_alt_name   : [oid : 0 .. 16, name : 0 .. 128],
    issuer_name        : 0 .. 128,
    sid                : {"IssuerAndSerialNumber", "SubjectKeyIdentifier"},
    sid_serial         : [len : 1 .. 20, zeros : 0 .. 20, high : BOOLEAN],
    sig_r              : [len : {32, 48}, zeros : 0 .. 48, high : BOOLEAN],
    sig_s              : [len : {32, 48}, zeros : 0 .. 48, high : BOOLEAN],
    capacity           : Nat ]

(***************************************************************************)
(* Lengths of the constants of CertWriter and of the types of src/crypto.  *)
(***************************************************************************)
OID_EXTENSION == 3      \* the RFC 5280 extensions, and both RDN attributes
OID_DICE == 6           \* MULTI_TCBINFO_OID, UEID_OID
OID_DICE_USAGE == 7     \* ECA_OID, ATTEST_LOC_OID
OID_PKCS == 9           \* ID_SIGNED_DATA_OID, ID_DATA_OID, EXTENSION_REQUEST_OID
OID_HASH == 9
OID_EC_PUB == 7
KEY_IDENTIFIER == 20
GENERALIZED_TIME == 15
SERIAL == 64
BOOL_SIZE == 1

SigOid(r) == IF r.profile = "Mldsa87" THEN 9 ELSE 8
CurveOid(r) == IF r.profile = "P256Sha256" THEN 8 ELSE 5
Curve(r) == IF r.profile = "P256Sha256" THEN 32 ELSE 48
Digest(r) == IF r.profile = "P256Sha256" THEN 32 ELSE 48
MLDSA_PUB_KEY == 2592
MLDSA_SIGNATURE == 4627

-----------------------------------------------------------------------------
(***************************************************************************)
(* Names, algorithms, keys and signatures.                                 *)
(***************************************************************************)
CommonName(r) == IF r.is_ca THEN 16 ELSE 8   \* "DPE Exported CDI", "DPE Leaf"

EncodeRdn(r) ==
  LET cn     == StructureSize(OID_EXTENSION) + StructureSize(CommonName(r))
      serial == StructureSize(OID_EXTENSION) + StructureSize(SERIAL)
      Attribute(size, len) ==
        EncodeStructure(StructureSize(size),
          EncodeStructure(size, EncodeTlv(OID_EXTENSION) ++ EncodeTlv(len)))
  IN  EncodeStructure(StructureSize(StructureSize(cn)) + StructureSize(StructureSize(serial)),
        Attribute(cn, CommonName(r)) ++ Attribute(serial, SERIAL))

SigAlgIdSize(r) == StructureSize(SigOid(r))
EncodeSigAlgId(r) == EncodeStructure(SigAlgIdSize(r), EncodeTlv(SigOid(r)))

HashAlgIdSize == StructureSize(OID_HASH)
EncodeHashAlgId == EncodeStructure(HashAlgIdSize, EncodeTlv(OID_HASH))

EncodeValidity ==
  EncodeStructure(StructureSize(GENERALIZED_TIME) + StructureSize(GENERALIZED_TIME),
    EncodeTlv(GENERALIZED_TIME) ++ EncodeTlv(GENERALIZED_TIME))

(***************************************************************************)
(* encode_version and encode_cms_version.                                  *)
(***************************************************************************)
EncodeVersion ==
  EncodeStructure(StructureSize(IntegerBytesSize(SmallInteger)), EncodeIntegerBytes(SmallInteger))
EncodeCmsVersion == EncodeIntegerBytes(SmallInteger)

EcPubAlgIdSize(r) == StructureSize(OID_EC_PUB) + StructureSize(CurveOid(r))

EncodeEcdsaPubKeyInfo(r) ==
  LET point == 1 + Curve(r) + Curve(r)
  IN  EncodeStructure(StructureSize(1 + point) + StructureSize(EcPubAlgIdSize(r)),
        EncodeStructure(EcPubAlgIdSize(r), EncodeTlv(OID_EC_PUB) ++ EncodeTlv(CurveOid(r)))
          ++ EncodeTlv(1 + point))

EncodeMldsaPubKeyInfo(r) ==
  EncodeStructure(StructureSize(1 + MLDSA_PUB_KEY) + StructureSize(SigAlgIdSize(r)),
    EncodeSigAlgId(r) ++ EncodeTlv(1 + MLDSA_PUB_KEY))

EncodePubKeyInfo(r) ==
  IF r.profile = "Mldsa87" THEN EncodeMldsaPubKeyInfo(r) ELSE EncodeEcdsaPubKeyInfo(r)

(***************************************************************************)
(* ECDSA-Sig-Value, without its tag and length.                            *)
(***************************************************************************)
EcdsaSigSize(r) == StructureSize(IntegerBytesSize(r.sig_r)) + StructureSize(IntegerBytesSize(r.sig_s))
EncodeEcdsaSig(r) ==
  EncodeStructure(EcdsaSigSize(r), EncodeIntegerBytes(r.sig_r) ++ EncodeIntegerBytes(r.sig_s))

(***************************************************************************)
(* The BIT STRING counts its first byte as if it were in the SEQUENCE.     *)
(***************************************************************************)
EncodeSignatureBitString(r) ==
  EncodeSigAlgId(r) ++
    IF r.profile = "Mldsa87"
    THEN EncodeTlv(1 + MLDSA_SIGNATURE)
    ELSE EncodeStructure(StructureSize(1 + EcdsaSigSize(r)), EncodeBytes(1) ++ EncodeEcdsaSig(r))

(***************************************************************************)
(* get_signature_octet_string_size, and its encoder.                       *)
(***************************************************************************)
SignatureOctetStringSize(r) ==
  StructureSize(SigAlgIdSize(r)) +
    StructureSize(IF r.profile = "Mldsa87" THEN MLDSA_SIGNATURE ELSE StructureSize(EcdsaSigSize(r)))

EncodeSignatureOctetString(r) ==
  EncodeSigAlgId(r) ++
    IF r.profile = "Mldsa87"
    THEN EncodeTlv(MLDSA_SIGNATURE)
    ELSE EncodeStructure(StructureSize(EcdsaSigSize(r)), EncodeEcdsaSig(r))

-----------------------------------------------------------------------------
(***************************************************************************)
(* Extensions.                                                             *)
(***************************************************************************)
ExtensionSize(oid, critical, content_size) ==
  StructureSize(oid) + (IF critical THEN StructureSize(BOOL_SIZE) ELSE 0)
    + StructureSize(content_size)

(***************************************************************************)
(* Mutant of EncodeExtension: the BOOLEAN of a critical extension is left  *)
(* out of the size, as in get_extension_size without critical.             *)
(***************************************************************************)
EncodeExtensionUncritical(oid, critical, content_size, content) ==
  EncodeStructure(ExtensionSize(oid, FALSE, content_size),
    EncodeTlv(oid) ++ Optional(critical, EncodeTlv(BOOL_SIZE))
      ++ EncodeStructure(content_size, content))

(***************************************************************************)
(* encode_extension_header and the content the caller writes after it.     *)
(***************************************************************************)
EncodeExtension(oid, critical, content_size, content) ==
  EncodeStructure(ExtensionSize(oid, critical, content_size),
    EncodeTlv(oid) ++ Optional(critical, EncodeTlv(BOOL_SIZE))
      ++ EncodeStructure(content_size, content))

FwidSize(r) == StructureSize(OID_HASH) + StructureSize(Digest(r))
EncodeFwid(r) == EncodeStructure(FwidSize(r), EncodeTlv(OID_HASH) ++ EncodeTlv(Digest(r)))

(***************************************************************************)
(* The content of an integrity register: registerNum and registerDigests.  *)
(***************************************************************************)
RegisterSize(r) ==
  StructureSize(IntegerBytesSize(SmallInteger)) + StructureSize(StructureSize(FwidSize(r)))

TcbInfoSize(r, svn) ==
  StructureSize(StructureSize(FwidSize(r)))
    + 2 * StructureSize(4)
    + (IF r.supports_recursive THEN StructureSize(StructureSize(RegisterSize(r))) ELSE 0)
    + StructureSize(IntegerBytesSize(svn))

EncodeTcbInfo(r, svn) ==
  EncodeStructure(TcbInfoSize(r, svn),
    EncodeIntegerBytes(svn)
      ++ EncodeStructure(StructureSize(FwidSize(r)), EncodeFwid(r))
      ++ EncodeTlv(4) ++ EncodeTlv(4)
      ++ Optional(r.supports_recursive,
            EncodeStructure(StructureSize(RegisterSize(r)),
              EncodeStructure(RegisterSize(r),
                EncodeIntegerBytes(SmallInteger)
                  ++ EncodeStructure(StructureSize(FwidSize(r)), EncodeFwid(r))))))

(***************************************************************************)
(* num_nodes times the size of first_node, which is contexts[0].           *)
(***************************************************************************)
TcbInfosSize(r) == Len(r.svns) * StructureSize(TcbInfoSize(r, r.slot0))

EncodeTcbInfos(r) ==
  LET infos[n \in 0 .. Len(r.svns)] ==
        IF n = 0 THEN Nothing ELSE infos[n - 1] ++ EncodeTcbInfo(r, r.svns[n])
  IN  infos[Len(r.svns)]

MultiTcbInfoSize(r) ==
  StructureSize(ExtensionSize(OID_DICE, r.crit_dice, StructureSize(TcbInfosSize(r))))
EncodeMultiTcbInfo(r) ==
  EncodeExtension(OID_DICE, r.crit_dice, StructureSize(TcbInfosSize(r)),
    EncodeStructure(TcbInfosSize(r), EncodeTcbInfos(r)))

UeidSize(r) ==
  StructureSize(ExtensionSize(OID_DICE, r.crit_dice, StructureSize(StructureSize(r.label))))
EncodeUeid(r) ==
  EncodeExtension(OID_DICE, r.crit_dice, StructureSize(StructureSize(r.label)),
    EncodeStructure(StructureSize(r.label), EncodeTlv(r.label)))

CaSize(r) == IF r.is_ca THEN StructureSize(BOOL_SIZE) ELSE 0
BasicConstraintsSize(r) ==
  StructureSize(ExtensionSize(OID_EXTENSION, TRUE, StructureSize(CaSize(r))))
EncodeBasicConstraints(r) ==
  EncodeExtension(OID_EXTENSION, TRUE, StructureSize(CaSize(r)),
    EncodeStructure(CaSize(r), Optional(r.is_ca, EncodeTlv(BOOL_SIZE))))

KeyUsageSize == StructureSize(ExtensionSize(OID_EXTENSION, TRUE, StructureSize(2)))
EncodeKeyUsage == EncodeExtension(OID_EXTENSION, TRUE, StructureSize(2), EncodeTlv(2))

ExtendedKeyUsageSize ==
  StructureSize(ExtensionSize(OID_EXTENSION, TRUE, StructureSize(StructureSize(OID_DICE_USAGE))))
EncodeExtendedKeyUsage ==
  EncodeExtension(OID_EXTENSION, TRUE, StructureSize(StructureSize(OID_DICE_USAGE)),
    EncodeStructure(StructureSize(OID_DICE_USAGE), EncodeTlv(OID_DICE_USAGE)))

(***************************************************************************)
(* Only in certificates; the subject key identifier only of a CA.          *)
(***************************************************************************)
SubjectKeyIdentifierSize(r, is_x509) ==
  IF ~r.is_ca \/ ~is_x509 THEN 0
  ELSE StructureSize(ExtensionSize(OID_EXTENSION, FALSE, StructureSize(KEY_IDENTIFIER)))
EncodeSubjectKeyIdentifier(r, is_x509) ==
  Optional(r.is_ca /\ is_x509,
    EncodeExtension(OID_EXTENSION, FALSE, StructureSize(KEY_IDENTIFIER), EncodeTlv(KEY_IDENTIFIER)))

AuthorityKeyIdentifierSize(is_x509) ==
  IF ~is_x509 THEN 0
  ELSE StructureSize(ExtensionSize(OID_EXTENSION, FALSE,
         StructureSize(StructureSize(KEY_IDENTIFIER))))
EncodeAuthorityKeyIdentifier(is_x509) ==
  Optional(is_x509,
    EncodeExtension(OID_EXTENSION, FALSE, StructureSize(StructureSize(KEY_IDENTIFIER)),
      EncodeStructure(StructureSize(KEY_IDENTIFIER), EncodeTlv(KEY_IDENTIFIER))))

OtherNameSize(san) == StructureSize(san.oid) + StructureSize(StructureSize(san.name))

SubjectAltNameSize(r) ==
  IF r.subject_alt_name = NoSubjectAltName THEN 0
  ELSE StructureSize(ExtensionSize(OID_EXTENSION, FALSE,
         StructureSize(StructureSize(OtherNameSize(r.subject_alt_name)))))
EncodeSubjectAltName(r) ==
  LET san  == r.subject_alt_name
      size == StructureSize(OtherNameSize(san))
  IN  Optional(san # NoSubjectAltName,
        EncodeExtension(OID_EXTENSION, FALSE, StructureSize(size),
          EncodeStructure(size,
            EncodeStructure(OtherNameSize(san),
              EncodeTlv(san.oid)
                ++ EncodeStructure(StructureSize(san.name), EncodeTlv(san.name))))))

(***************************************************************************)
(* get_extensions_size, neither tagged nor explicit.                       *)
(***************************************************************************)
ExtensionsSize(r, is_x509) ==
  MultiTcbInfoSize(r) + UeidSize(r) + BasicConstraintsSize(r) + KeyUsageSize
    + ExtendedKeyUsageSize + SubjectKeyIdentifierSize(r, is_x509)
    + AuthorityKeyIdentifierSize(is_x509) + SubjectAltNameSize(r)

EncodeExtensions(r, is_x509) ==
  LET extensions ==
        EncodeStructure(ExtensionsSize(r, is_x509),
          EncodeMultiTcbInfo(r) ++ EncodeUeid(r) ++ EncodeBasicConstraints(r)
            ++ EncodeKeyUsage ++ EncodeExtendedKeyUsage
            ++ EncodeSubjectKeyIdentifier(r, is_x509)
            ++ EncodeAuthorityKeyIdentifier(is_x509) ++ EncodeSubjectAltName(r))
  IN  IF is_x509
      THEN EncodeStructure(StructureSize(ExtensionsSize(r, is_x509)), extensions)
      ELSE extensions

-----------------------------------------------------------------------------
(***************************************************************************)
(* The attributes of a CSR, and the SignerInfo of a CMS message.           *)
(***************************************************************************)
AttributeSize(r) ==
  StructureSize(OID_PKCS) + StructureSize(StructureSize(ExtensionsSize(r, FALSE)))

EncodeAttributes(r) ==
  EncodeStructure(StructureSize(AttributeSize(r)),
    EncodeStructure(AttributeSize(r),
      EncodeTlv(OID_PKCS)
        ++ EncodeStructure(StructureSize(ExtensionsSize(r, FALSE)), EncodeExtensions(r, FALSE))))

IssuerAndSerialSize(r) == StructureSize(IntegerBytesSize(r.sid_serial)) + r.issuer_name

SignerIdentifierSize(r) ==
  IF r.sid = "IssuerAndSerialNumber"
  THEN StructureSize(IssuerAndSerialSize(r))
  ELSE StructureSize(StructureSize(KEY_IDENTIFIER))

EncodeSignerIdentifier(r) ==
  IF r.sid = "IssuerAndSerialNumber"
  THEN EncodeStructure(IssuerAndSerialSize(r),
         EncodeBytes(r.issuer_name) ++ EncodeIntegerBytes(r.sid_serial))
  ELSE EncodeStructure(StructureSize(KEY_IDENTIFIER), EncodeTlv(KEY_IDENTIFIER))

SignerInfoSize(r) ==
  StructureSize(IntegerBytesSize(SmallInteger)) + SignerIdentifierSize(r)
    + StructureSize(HashAlgIdSize) + SignatureOctetStringSize(r)

EncodeSignerInfo(r) ==
  EncodeStructure(SignerInfoSize(r),
    EncodeCmsVersion ++ EncodeSignerIdentifier(r) ++ EncodeHashAlgId
      ++ EncodeSignatureOctetString(r))
=============================================================================
