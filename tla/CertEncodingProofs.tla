------------------------- MODULE CertEncodingProofs -------------------------
(***************************************************************************)
(* Lemmas about the encode functions of dpe/src/x509.rs, for every         *)
(* request: how many bytes each writes at least and at most, and that the  *)
(* length it declares in advance is that of what it writes.                *)
(*                                                                         *)
(* The bounds are what makes the writer's three-byte length fields right   *)
(* (SizeWidthOfLong); they hold because a lineage has at most MAX_HANDLES  *)
(* contexts. Only the size of the MultiTcbInfo is not always exact,        *)
(* because its size is computed from one svn. The loop over the lineage is *)
(* handled by induction on its turns (UpTo), which the library states for  *)
(* predicates only and is proved here for sets from the well-foundedness   *)
(* of the naturals.                                                        *)
(***************************************************************************)
EXTENDS CertEncoding, WellFoundedInduction, TLAPS

(***************************************************************************)
(* A set of naturals that is not empty has a least element.                *)
(***************************************************************************)
LEMMA LeastElement ==
  ASSUME NEW T \in SUBSET Nat, T # {}
  PROVE  \E n \in T : \A k \in T : n <= k
<1> DEFINE Less == {ss \in Nat \X Nat : ss[1] < ss[2]}
<1>1. IsWellFoundedOn(Less, Nat)
  BY NatLessThanWellFounded, Zenon DEF OpToRel
<1>2. PICK n \in T : \A k \in T : ~(<<k, n>> \in Less)
  <2> HIDE DEF Less
  <2> QED  BY <1>1, WFMin
<1>3. ASSUME NEW k \in T PROVE n <= k
  <2>1. k \in Nat /\ n \in Nat /\ <<k, n>> \in Nat \X Nat
    OBVIOUS
  <2>2. ~(k < n)
    BY <1>2, <2>1
  <2>3. QED
    BY <2>1, <2>2
<1>4. QED
  BY <1>3

(***************************************************************************)
(* What an encode function may return: some bytes, with declared lengths   *)
(* that are right or not.                                                  *)
(***************************************************************************)
Emitted == [written : Nat, exact : BOOLEAN]

(***************************************************************************)
(* Induction on the numbers up to L, for a set instead of a predicate:     *)
(* what holds at the start of a loop, and after each turn if before it,    *)
(* holds at its end.                                                       *)
(***************************************************************************)
LEMMA UpTo ==
  ASSUME NEW L \in Nat, NEW T, 0 \in T, \A n \in 1 .. L : n - 1 \in T => n \in T
  PROVE  \A n \in 0 .. L : n \in T
<1> DEFINE U == {n \in 0 .. L : n \notin T}
<1>1. SUFFICES ASSUME U # {} PROVE FALSE
  OBVIOUS
<1>2. U \in SUBSET Nat
  OBVIOUS
<1>3. PICK n \in U : \A k \in U : n <= k
  <2> HIDE DEF U
  <2> QED  BY <1>1, <1>2, LeastElement
<1>4. n \in 1 .. L /\ n \notin T
  OBVIOUS
<1>5. n - 1 \in U
  BY <1>4
<1>6. QED
  <2> HIDE DEF U
  <2> QED  BY <1>3, <1>4, <1>5

(***************************************************************************)
(* The recursive function behind EncodeTcbInfos, the loop of               *)
(* encode_multi_tcb_info over a lineage: it exists, and each turn appends  *)
(* one TcbInfo.                                                            *)
(***************************************************************************)
LEMMA TcbInfosRecursion ==
  ASSUME NEW r, r.svns \in Seq(SvnIntegers),
         \A k \in 1 .. Len(r.svns) : EncodeTcbInfo(r, r.svns[k]) \in Emitted
  PROVE  \E e \in [0 .. Len(r.svns) -> Emitted] :
           /\ e[0] = Nothing
           /\ \A n \in 1 .. Len(r.svns) : e[n] = e[n - 1] ++ EncodeTcbInfo(r, r.svns[n])
           /\ EncodeTcbInfos(r) = e[Len(r.svns)]
<1> DEFINE L == Len(r.svns)
           Sums(n) == {e \in [0 .. n -> Emitted] :
                        /\ e[0] = Nothing
                        /\ \A k \in 1 .. n : e[k] = e[k - 1] ++ EncodeTcbInfo(r, r.svns[k])}
           T == {n \in Nat : Sums(n) # {}}
<1>1. L \in Nat
  OBVIOUS
<1>2. Nothing \in Emitted /\ \A a, b \in Emitted : a ++ b \in Emitted
  BY DEF Emitted, Nothing, ++
<1>3. L \in T
  <2>1. [k \in 0 .. 0 |-> Nothing] \in Sums(0)
    BY <1>2
  <2>2. ASSUME NEW n \in 1 .. L, n - 1 \in T PROVE n \in T
    <3>1. PICK e \in Sums(n - 1) : TRUE
      BY <2>2
    <3> DEFINE f == [k \in 0 .. n |-> IF k = n THEN e[n - 1] ++ EncodeTcbInfo(r, r.svns[n]) ELSE e[k]]
    <3>2. f \in Sums(n)
      BY <1>2, <3>1
    <3>3. QED
      BY <3>2
  <2>3. 0 \in T
    BY <2>1
  <2>4. \A n \in 0 .. L : n \in T
    <3> HIDE DEF T, L
    <3> QED  BY <1>1, <2>2, <2>3, UpTo
  <2> HIDE DEF T, L
  <2>5. QED
    BY <1>1, <2>4
<1>4. PICK e \in Sums(L) : TRUE
  BY <1>3
<1> DEFINE Step(f) == [n \in 0 .. L |-> IF n = 0 THEN Nothing ELSE f[n - 1] ++ EncodeTcbInfo(r, r.svns[n])]
           infos == CHOOSE f : f = Step(f)
<1>5. e = Step(e)
  BY <1>1, <1>4
<1>6. infos = Step(infos)
  <2> HIDE DEF Step
  <2> QED  BY <1>5
<1>7. EncodeTcbInfos(r) = infos[L]
  BY Zenon DEF EncodeTcbInfos
<1> HIDE DEF infos
<1>8. infos[0] = Nothing /\ \A n \in 1 .. L : infos[n] = infos[n - 1] ++ EncodeTcbInfo(r, r.svns[n])
  <2>1. infos[0] = Nothing
    BY <1>1, <1>6
  <2>2. ASSUME NEW n \in 1 .. L
        PROVE  infos[n] = infos[n - 1] ++ EncodeTcbInfo(r, r.svns[n])
    <3>1. n \in 0 .. L /\ n # 0
      BY <1>1
    <3>2. Step(infos)[n] = infos[n - 1] ++ EncodeTcbInfo(r, r.svns[n])
      <4> HIDE DEF L
      <4> QED  BY <3>1
    <3>3. QED
      <4> HIDE DEF Step
      <4> QED  BY <1>6, <3>2
  <2>3. QED
    BY <2>1, <2>2
<1>9. \A n \in 0 .. L : infos[n] \in Emitted
  <2> DEFINE U == {n \in Nat : infos[n] \in Emitted}
  <2>1. 0 \in U
    BY <1>2, <1>8
  <2>2. ASSUME NEW n \in 1 .. L, n - 1 \in U PROVE n \in U
    BY <1>2, <1>8, <2>2
  <2>3. \A n \in 0 .. L : n \in U
    <3> HIDE DEF U, L
    <3> QED  BY <1>1, <2>1, <2>2, UpTo
  <2>4. QED
    BY <2>3
<1>10. infos \in [0 .. L -> Emitted]
  BY <1>6, <1>9
<1>11. QED
  BY <1>7, <1>8, <1>10

-----------------------------------------------------------------------------
(***************************************************************************)
(* n bytes in which every declared length is right.                        *)
(***************************************************************************)
Exactly(n) == [written |-> n, exact |-> TRUE]

(***************************************************************************)
(* What encode_integer_bytes takes: at least one byte.                     *)
(***************************************************************************)
BigEndian == [len : Nat \ {0}, zeros : Nat, high : BOOLEAN]

(***************************************************************************)
(* get_size_width: a length field takes one to five bytes.                 *)
(***************************************************************************)
LEMMA SizeWidthBounds == \A s : SizeWidth(s) \in 1 .. 5
BY DEF SizeWidth

(***************************************************************************)
(* get_size_width: one byte up to 127.                                     *)
(***************************************************************************)
LEMMA SizeWidthOfShort == \A s \in Nat : s < 128 => SizeWidth(s) = 1
BY DEF SizeWidth

(***************************************************************************)
(* get_size_width: the three bytes that push_backtrack leaves, from 256 to *)
(* 65535.                                                                  *)
(***************************************************************************)
LEMMA SizeWidthOfLong == \A s \in Nat : 256 <= s /\ s < 65536 => SizeWidth(s) = 3
BY DEF SizeWidth

(***************************************************************************)
(* get_structure_size adds a tag and a length field.                       *)
(***************************************************************************)
LEMMA StructureSizeBounds ==
  \A s \in Nat : StructureSize(s) \in Nat /\ s + 2 <= StructureSize(s) /\ StructureSize(s) <= s + 6
BY SizeWidthBounds DEF StructureSize

(***************************************************************************)
(* get_structure_size adds two bytes to a short structure.                 *)
(***************************************************************************)
LEMMA StructureSizeOfShort == \A s \in Nat : s < 128 => StructureSize(s) = s + 2
BY SizeWidthOfShort DEF StructureSize

(***************************************************************************)
(* The primitives are exact, and so is a sequence or a structure of exact  *)
(* parts whose declared size is their sum.                                 *)
(***************************************************************************)
LEMMA ExactParts ==
  /\ Nothing = Exactly(0)
  /\ \A n \in Nat : EncodeBytes(n) = Exactly(n) /\ EncodeTlv(n) = Exactly(StructureSize(n))
  /\ \A n \in Nat : EncodeStructure(n, Exactly(n)) = Exactly(StructureSize(n))
  /\ \A m, n \in Nat : Exactly(m) ++ Exactly(n) = Exactly(m + n)
  /\ \A p \in BOOLEAN : \A n \in Nat : Optional(p, Exactly(n)) = Exactly(IF p THEN n ELSE 0)
BY DEF Nothing, Exactly, EncodeBytes, EncodeTlv, EncodeStructure, StructureSize, ++, Optional

(***************************************************************************)
(* encode_integer_bytes writes as many bytes as get_integer_bytes_size     *)
(* says, which is at most one more than the integer has.                   *)
(***************************************************************************)
LEMMA ExactInteger ==
  ASSUME NEW n \in BigEndian
  PROVE  /\ IntegerBytesSize(n) \in 1 .. n.len + 1
         /\ EncodeIntegerBytes(n) = Exactly(StructureSize(IntegerBytesSize(n)))
<1>1. IntegerBytesSize(n) \in 1 .. n.len + 1
  BY DEF IntegerBytesSize, LeadingZeros, BigEndian
<1> DEFINE size == IntegerBytesSize(n)
<1>2. EncodeIntegerBytes(n) = EncodeStructure(size, Exactly(size))
  <2> DEFINE offset == IF size < n.len THEN n.len - size ELSE 0
  <2>1. n.len \in Nat /\ n.len - offset \in Nat
    BY <1>1 DEF BigEndian
  <2>2. (IF size > n.len THEN 1 ELSE 0) + (n.len - offset) = size
    BY <1>1 DEF BigEndian
  <2>3. Optional(size > n.len, EncodeBytes(1)) ++ EncodeBytes(n.len - offset) = Exactly(size)
    BY <2>1, <2>2 DEF Optional, Nothing, EncodeBytes, Exactly, ++
  <2>4. QED
    BY <2>3 DEF EncodeIntegerBytes
<1>3. QED
  BY <1>1, <1>2, ExactParts

(***************************************************************************)
(* The integers 0 and 1 are encoded in three bytes.                        *)
(***************************************************************************)
LEMMA SmallIntegerIsOne ==
  /\ SmallInteger \in BigEndian /\ IntegerBytesSize(SmallInteger) = 1
  /\ EncodeIntegerBytes(SmallInteger) = Exactly(3)
<1>1. SmallInteger \in BigEndian /\ IntegerBytesSize(SmallInteger) = 1
  BY DEF SmallInteger, Integer, BigEndian, IntegerBytesSize, LeadingZeros
<1>2. QED
  BY <1>1, ExactInteger, StructureSizeOfShort

(***************************************************************************)
(* An svn is eight bytes, of which get_integer_bytes_size drops the zeros. *)
(***************************************************************************)
LEMMA SvnIsBigEndian == ASSUME NEW n \in SvnIntegers PROVE n \in BigEndian /\ n.len = 8
BY DEF SvnIntegers, Integer, BigEndian

(***************************************************************************)
(* The types of the arguments of generate_cert_or_csr, one by one.         *)
(***************************************************************************)
LEMMA RequestFields ==
  ASSUME NEW r \in Request
  PROVE  /\ r.profile \in Profiles /\ r.is_ca \in BOOLEAN /\ r.crit_dice \in BOOLEAN
         /\ r.supports_recursive \in BOOLEAN
         /\ r.svns \in Seq(SvnIntegers) /\ r.slot0 \in SvnIntegers
         /\ r.label \in Nat /\ r.label <= 48
         /\ r.subject_alt_name.oid \in Nat /\ r.subject_alt_name.oid <= 16
         /\ r.subject_alt_name.name \in Nat /\ r.subject_alt_name.name <= 128
         /\ r.issuer_name \in Nat /\ r.issuer_name <= 128
         /\ r.sid_serial \in BigEndian /\ r.sid_serial.len <= 20
         /\ r.sig_r \in BigEndian /\ r.sig_r.len <= 48
         /\ r.sig_s \in BigEndian /\ r.sig_s.len <= 48
         /\ r.capacity \in Nat
<1>1. /\ r.profile \in Profiles /\ r.is_ca \in BOOLEAN /\ r.crit_dice \in BOOLEAN
      /\ r.supports_recursive \in BOOLEAN
      /\ r.svns \in Seq(SvnIntegers) /\ r.slot0 \in SvnIntegers /\ r.capacity \in Nat
  BY DEF Request
<1>2. r.label \in 0 .. 48 /\ r.issuer_name \in 0 .. 128
  BY DEF Request
<1>3. r.subject_alt_name \in [oid : 0 .. 16, name : 0 .. 128]
  BY DEF Request
<1>4. r.sid_serial \in [len : 1 .. 20, zeros : 0 .. 20, high : BOOLEAN]
  BY DEF Request
<1>5. /\ r.sig_r \in [len : {32, 48}, zeros : 0 .. 48, high : BOOLEAN]
      /\ r.sig_s \in [len : {32, 48}, zeros : 0 .. 48, high : BOOLEAN]
  BY DEF Request
<1>6. r.sid_serial \in BigEndian /\ r.sid_serial.len <= 20
  BY <1>4 DEF BigEndian
<1>7. r.sig_r \in BigEndian /\ r.sig_r.len <= 48 /\ r.sig_s \in BigEndian /\ r.sig_s.len <= 48
  BY <1>5 DEF BigEndian
<1>8. r.label \in Nat /\ r.label <= 48 /\ r.issuer_name \in Nat /\ r.issuer_name <= 128
  BY <1>2
<1>9. /\ r.subject_alt_name.oid \in Nat /\ r.subject_alt_name.oid <= 16
      /\ r.subject_alt_name.name \in Nat /\ r.subject_alt_name.name <= 128
  BY <1>3
<1>10. QED
  BY <1>1, <1>6, <1>7, <1>8, <1>9

-----------------------------------------------------------------------------
(***************************************************************************)
(* encode_rdn is exact; its size is counted in advance from the common     *)
(* name, the serial number and their identifiers.                          *)
(***************************************************************************)
LEMMA ExactRdn ==
  ASSUME NEW r \in Request
  PROVE  \E n \in Nat : EncodeRdn(r) = Exactly(n) /\ 96 <= n /\ n <= 200
<1> DEFINE cn     == StructureSize(OID_EXTENSION) + StructureSize(CommonName(r))
           serial == StructureSize(OID_EXTENSION) + StructureSize(SERIAL)
           Attribute(size, len) ==
             EncodeStructure(StructureSize(size),
               EncodeStructure(size, EncodeTlv(OID_EXTENSION) ++ EncodeTlv(len)))
           all == StructureSize(StructureSize(cn)) + StructureSize(StructureSize(serial))
<1>1. ASSUME NEW len \in Nat
      PROVE  Attribute(StructureSize(OID_EXTENSION) + StructureSize(len), len)
               = Exactly(StructureSize(StructureSize(StructureSize(OID_EXTENSION) + StructureSize(len))))
  <2>1. OID_EXTENSION \in Nat /\ StructureSize(OID_EXTENSION) \in Nat /\ StructureSize(len) \in Nat
    BY StructureSizeBounds DEF OID_EXTENSION
  <2>2. EncodeTlv(OID_EXTENSION) ++ EncodeTlv(len) = Exactly(StructureSize(OID_EXTENSION) + StructureSize(len))
    BY <2>1, ExactParts
  <2> DEFINE size == StructureSize(OID_EXTENSION) + StructureSize(len)
  <2>3. size \in Nat /\ StructureSize(size) \in Nat
    BY <2>1, StructureSizeBounds
  <2> HIDE DEF size
  <2>4. EncodeStructure(size, Exactly(size)) = Exactly(StructureSize(size))
    BY <2>3, ExactParts
  <2>5. QED
    BY <2>2, <2>3, <2>4, ExactParts DEF size
<1>2. CommonName(r) \in Nat /\ 8 <= CommonName(r) /\ CommonName(r) <= 16 /\ SERIAL = 64
  BY DEF CommonName, SERIAL
<1>3. StructureSize(OID_EXTENSION) = 5
  BY StructureSizeOfShort DEF OID_EXTENSION
<1>4. cn \in Nat /\ 15 <= cn /\ cn <= 23 /\ serial = 71
  BY <1>2, <1>3, StructureSizeOfShort
<1>5. all \in Nat /\ 94 <= all /\ all <= 102
  BY <1>4, StructureSizeOfShort
<1>6. Attribute(cn, CommonName(r)) ++ Attribute(serial, SERIAL) = Exactly(all)
  <2>1. /\ Attribute(cn, CommonName(r)) = Exactly(StructureSize(StructureSize(cn)))
        /\ Attribute(serial, SERIAL) = Exactly(StructureSize(StructureSize(serial)))
    BY <1>1, <1>2
  <2>2. StructureSize(StructureSize(cn)) \in Nat /\ StructureSize(StructureSize(serial)) \in Nat
    BY <1>4, StructureSizeBounds
  <2> HIDE DEF Attribute
  <2>3. QED
    BY <2>1, <2>2, ExactParts
<1>7. EncodeRdn(r) = Exactly(StructureSize(all))
  <2>1. EncodeRdn(r) = EncodeStructure(all, Attribute(cn, CommonName(r)) ++ Attribute(serial, SERIAL))
    BY DEF EncodeRdn
  <2> HIDE DEF Attribute, all
  <2>2. QED
    BY <1>5, <1>6, <2>1, ExactParts
<1>8. QED
  <2> HIDE DEF all
  <2> QED  BY <1>5, <1>7, StructureSizeOfShort

(***************************************************************************)
(* A SEQUENCE of two short elements, the form of an algorithm identifier.  *)
(***************************************************************************)
LEMMA ExactPair ==
  ASSUME NEW m \in Nat, NEW n \in Nat
  PROVE  LET size == StructureSize(m) + StructureSize(n)
         IN  /\ size \in Nat
             /\ EncodeTlv(m) ++ EncodeTlv(n) = Exactly(size)
             /\ EncodeStructure(size, EncodeTlv(m) ++ EncodeTlv(n)) = Exactly(StructureSize(size))
<1> DEFINE size == StructureSize(m) + StructureSize(n)
<1>1. StructureSize(m) \in Nat /\ StructureSize(n) \in Nat /\ size \in Nat
  BY StructureSizeBounds
<1>2. EncodeTlv(m) ++ EncodeTlv(n) = Exactly(size)
  BY <1>1, ExactParts
<1> HIDE DEF size
<1>3. EncodeStructure(size, Exactly(size)) = Exactly(StructureSize(size))
  BY <1>1, ExactParts
<1>4. QED
  BY <1>1, <1>2, <1>3 DEF size

(***************************************************************************)
(* encode_ecdsa_sig_alg_id and encode_mldsa_sig_alg_id are exact.          *)
(***************************************************************************)
LEMMA ExactSigAlgId ==
  ASSUME NEW r \in Request
  PROVE  /\ SigAlgIdSize(r) \in Nat /\ 10 <= SigAlgIdSize(r) /\ SigAlgIdSize(r) <= 11
         /\ EncodeSigAlgId(r) = Exactly(StructureSize(SigAlgIdSize(r)))
<1>1. SigOid(r) \in Nat /\ 8 <= SigOid(r) /\ SigOid(r) <= 9
  BY DEF SigOid
<1>2. SigAlgIdSize(r) \in Nat /\ 10 <= SigAlgIdSize(r) /\ SigAlgIdSize(r) <= 11
  BY <1>1, StructureSizeOfShort DEF SigAlgIdSize
<1>3. EncodeTlv(SigOid(r)) = Exactly(SigAlgIdSize(r))
  BY <1>1, ExactParts DEF SigAlgIdSize
<1>4. QED
  BY <1>2, <1>3, ExactParts DEF EncodeSigAlgId

(***************************************************************************)
(* encode_hash_alg_id is exact.                                            *)
(***************************************************************************)
LEMMA ExactHashAlgId ==
  HashAlgIdSize = 11 /\ EncodeHashAlgId = Exactly(13)
<1>1. HashAlgIdSize = 11 /\ EncodeTlv(OID_HASH) = Exactly(11)
  BY StructureSizeOfShort, ExactParts DEF HashAlgIdSize, OID_HASH
<1>2. QED
  BY <1>1, StructureSizeOfShort, ExactParts DEF EncodeHashAlgId

(***************************************************************************)
(* The subject public key info is exact, for ECDSA and for ML-DSA.         *)
(***************************************************************************)
LEMMA ExactPubKeyInfo ==
  ASSUME NEW r \in Request
  PROVE  \E n \in Nat : EncodePubKeyInfo(r) = Exactly(n) /\ 91 <= n /\ n <= 2700
<1>1. CASE r.profile = "Mldsa87"
  <2> DEFINE key == 1 + MLDSA_PUB_KEY
             size == StructureSize(key) + StructureSize(SigAlgIdSize(r))
  <2>1. key = 2593
    BY DEF MLDSA_PUB_KEY
  <2>2. StructureSize(key) \in Nat /\ StructureSize(SigAlgIdSize(r)) \in Nat
    BY <2>1, ExactSigAlgId, StructureSizeBounds
  <2>3. size \in Nat /\ 2595 <= size /\ size <= 2616
    BY <2>1, <2>2, ExactSigAlgId, StructureSizeBounds
  <2>4. EncodeTlv(key) = Exactly(StructureSize(key))
    BY <2>1, ExactParts
  <2>5. EncodeSigAlgId(r) ++ EncodeTlv(key) = Exactly(size)
    <3> HIDE DEF key
    <3> QED  BY <2>2, <2>4, ExactSigAlgId, ExactParts
  <2>6. EncodePubKeyInfo(r) = EncodeStructure(size, EncodeSigAlgId(r) ++ EncodeTlv(key))
    BY <1>1 DEF EncodePubKeyInfo, EncodeMldsaPubKeyInfo
  <2> HIDE DEF size
  <2>7. QED
    BY <2>3, <2>5, <2>6, ExactParts, StructureSizeBounds
<1>2. CASE r.profile # "Mldsa87"
  <2> DEFINE point == 1 + Curve(r) + Curve(r)
             size == StructureSize(1 + point) + StructureSize(EcPubAlgIdSize(r))
  <2>1. /\ point \in Nat /\ 65 <= point /\ point <= 97
        /\ OID_EC_PUB = 7 /\ CurveOid(r) \in Nat /\ 5 <= CurveOid(r) /\ CurveOid(r) <= 8
        /\ point = 65 => CurveOid(r) = 8
    BY DEF Curve, OID_EC_PUB, CurveOid
  <2> HIDE DEF point
  <2>2. /\ EcPubAlgIdSize(r) \in Nat /\ 16 <= EcPubAlgIdSize(r) /\ EcPubAlgIdSize(r) <= 19
        /\ point = 65 => EcPubAlgIdSize(r) = 19
    BY <2>1, StructureSizeOfShort DEF EcPubAlgIdSize
  <2>3. StructureSize(1 + point) = point + 3 /\ StructureSize(EcPubAlgIdSize(r)) = EcPubAlgIdSize(r) + 2
    BY <2>1, <2>2, StructureSizeOfShort
  <2>4. size \in Nat /\ 86 <= size /\ size <= 121
    BY <2>1, <2>2, <2>3
  <2>5. size >= 89
    <3>1. point = 65 \/ point = 97
      BY DEF point, Curve
    <3>2. QED
      BY <2>2, <2>3, <3>1
  <2>6. EncodeStructure(EcPubAlgIdSize(r), EncodeTlv(OID_EC_PUB) ++ EncodeTlv(CurveOid(r)))
          = Exactly(StructureSize(EcPubAlgIdSize(r)))
    BY <2>1, ExactPair DEF EcPubAlgIdSize
  <2>7. EncodeTlv(1 + point) = Exactly(StructureSize(1 + point))
    BY <2>1, ExactParts
  <2>8. EncodeStructure(EcPubAlgIdSize(r), EncodeTlv(OID_EC_PUB) ++ EncodeTlv(CurveOid(r)))
          ++ EncodeTlv(1 + point) = Exactly(size)
    BY <2>1, <2>2, <2>3, <2>6, <2>7, ExactParts
  <2>9. EncodePubKeyInfo(r) =
          EncodeStructure(size,
            EncodeStructure(EcPubAlgIdSize(r), EncodeTlv(OID_EC_PUB) ++ EncodeTlv(CurveOid(r)))
              ++ EncodeTlv(1 + point))
    BY <1>2 DEF EncodePubKeyInfo, EncodeEcdsaPubKeyInfo, point
  <2> HIDE DEF size
  <2>10. QED
    BY <2>4, <2>5, <2>8, <2>9, ExactParts, StructureSizeOfShort
<1>3. QED
  BY <1>1, <1>2

-----------------------------------------------------------------------------
(***************************************************************************)
(* An ECDSA signature is exact: its halves are integers of their own       *)
(* widths, so its size depends on their values.                            *)
(***************************************************************************)
LEMMA ExactEcdsaSig ==
  ASSUME NEW r \in Request
  PROVE  /\ EcdsaSigSize(r) \in Nat /\ 6 <= EcdsaSigSize(r) /\ EcdsaSigSize(r) <= 102
         /\ EncodeEcdsaSig(r) = Exactly(EcdsaSigSize(r) + 2)
<1> DEFINE a == IntegerBytesSize(r.sig_r)
           b == IntegerBytesSize(r.sig_s)
<1>1. a \in Nat /\ 1 <= a /\ a <= 49 /\ b \in Nat /\ 1 <= b /\ b <= 49
  <2>1. r.sig_r \in BigEndian /\ r.sig_s \in BigEndian /\ r.sig_r.len <= 48 /\ r.sig_s.len <= 48
    BY RequestFields
  <2>2. r.sig_r.len \in Nat /\ r.sig_s.len \in Nat
    BY <2>1 DEF BigEndian
  <2>3. QED
    BY <2>1, <2>2, ExactInteger
<1>2. EncodeIntegerBytes(r.sig_r) = Exactly(StructureSize(a)) /\ EncodeIntegerBytes(r.sig_s) = Exactly(StructureSize(b))
  BY RequestFields, ExactInteger
<1>3. EcdsaSigSize(r) = StructureSize(a) + StructureSize(b)
  BY DEF EcdsaSigSize
<1> HIDE DEF a, b
<1>4. StructureSize(a) = a + 2 /\ StructureSize(b) = b + 2
  BY <1>1, StructureSizeOfShort
<1>5. EncodeIntegerBytes(r.sig_r) ++ EncodeIntegerBytes(r.sig_s) = Exactly(EcdsaSigSize(r))
  BY <1>1, <1>2, <1>3, <1>4, ExactParts
<1>6. EcdsaSigSize(r) \in Nat /\ 6 <= EcdsaSigSize(r) /\ EcdsaSigSize(r) <= 102
  BY <1>1, <1>3, <1>4
<1>7. EncodeEcdsaSig(r) = Exactly(StructureSize(EcdsaSigSize(r)))
  BY <1>5, <1>6, ExactParts DEF EncodeEcdsaSig
<1>8. QED
  BY <1>6, <1>7, StructureSizeOfShort

(* The BIT STRING declares its size as if its first byte were inside the
   SEQUENCE: the widths agree because a signature is short. *)
LEMMA ExactSignatureBitString ==
  ASSUME NEW r \in Request
  PROVE  \E n \in Nat : EncodeSignatureBitString(r) = Exactly(n) /\ 1 <= n /\ n <= 5000
<1> DEFINE id == StructureSize(SigAlgIdSize(r))
<1>1. id \in Nat /\ 1 <= id /\ id <= 17 /\ EncodeSigAlgId(r) = Exactly(id)
  BY ExactSigAlgId, StructureSizeBounds
<1> HIDE DEF id
<1>2. CASE r.profile = "Mldsa87"
  <2> DEFINE sig == 1 + MLDSA_SIGNATURE
  <2>1. sig = 4628
    BY DEF MLDSA_SIGNATURE
  <2>2. EncodeSignatureBitString(r) = EncodeSigAlgId(r) ++ EncodeTlv(sig)
    BY <1>2 DEF EncodeSignatureBitString
  <2> HIDE DEF sig
  <2>3. StructureSize(sig) \in Nat /\ StructureSize(sig) <= 4634 /\ EncodeTlv(sig) = Exactly(StructureSize(sig))
    <3>1. sig \in Nat
      BY <2>1
    <3>2. StructureSize(sig) \in Nat /\ StructureSize(sig) <= sig + 6
      BY <3>1, StructureSizeBounds
    <3>3. EncodeTlv(sig) = Exactly(StructureSize(sig))
      BY <3>1, ExactParts
    <3>4. QED
      BY <2>1, <3>2, <3>3
  <2>4. EncodeSignatureBitString(r) = Exactly(id + StructureSize(sig))
    BY <1>1, <2>2, <2>3, ExactParts
  <2>5. QED
    BY <1>1, <2>3, <2>4
<1>3. CASE r.profile # "Mldsa87"
  <2> DEFINE s == EcdsaSigSize(r)
  <2>1. s \in Nat /\ 6 <= s /\ s <= 102 /\ EncodeEcdsaSig(r) = Exactly(s + 2)
    BY ExactEcdsaSig
  <2>2. EncodeSignatureBitString(r) =
          EncodeSigAlgId(r) ++ EncodeStructure(StructureSize(1 + s), EncodeBytes(1) ++ EncodeEcdsaSig(r))
    BY <1>3 DEF EncodeSignatureBitString
  <2> HIDE DEF s
  <2>3. StructureSize(1 + s) = s + 3 /\ EncodeBytes(1) ++ EncodeEcdsaSig(r) = Exactly(s + 3)
    <3>1. StructureSize(1 + s) = s + 3
      BY <2>1, StructureSizeOfShort
    <3>2. Exactly(1) ++ Exactly(s + 2) = Exactly(1 + (s + 2))
      BY <2>1, ExactParts
    <3>3. QED
      BY <2>1, <3>1, <3>2, ExactParts
  <2>4. EncodeStructure(StructureSize(1 + s), EncodeBytes(1) ++ EncodeEcdsaSig(r)) = Exactly(s + 5)
    BY <2>1, <2>3, StructureSizeOfShort, ExactParts
  <2>5. EncodeSignatureBitString(r) = Exactly(id + (s + 5))
    BY <1>1, <2>1, <2>2, <2>4, ExactParts
  <2>6. QED
    BY <1>1, <2>1, <2>5
<1>4. QED
  BY <1>2, <1>3

(***************************************************************************)
(* The signature in a SignerInfo is exact.                                 *)
(***************************************************************************)
LEMMA ExactSignatureOctetString ==
  ASSUME NEW r \in Request
  PROVE  /\ SignatureOctetStringSize(r) \in Nat /\ SignatureOctetStringSize(r) <= 5000
         /\ EncodeSignatureOctetString(r) = Exactly(SignatureOctetStringSize(r))
<1> DEFINE id == StructureSize(SigAlgIdSize(r))
<1>1. id \in Nat /\ id <= 17 /\ EncodeSigAlgId(r) = Exactly(id)
  BY ExactSigAlgId, StructureSizeBounds
<1> HIDE DEF id
<1>2. CASE r.profile = "Mldsa87"
  <2> DEFINE sig == MLDSA_SIGNATURE
  <2>1. sig = 4627
    BY DEF MLDSA_SIGNATURE
  <2>2. /\ EncodeSignatureOctetString(r) = EncodeSigAlgId(r) ++ EncodeTlv(sig)
        /\ SignatureOctetStringSize(r) = id + StructureSize(sig)
    BY <1>2 DEF EncodeSignatureOctetString, SignatureOctetStringSize, id
  <2> HIDE DEF sig
  <2>3. StructureSize(sig) \in Nat /\ StructureSize(sig) <= 4634 /\ EncodeTlv(sig) = Exactly(StructureSize(sig))
    <3>1. sig \in Nat
      BY <2>1
    <3>2. StructureSize(sig) \in Nat /\ StructureSize(sig) <= sig + 6
      BY <3>1, StructureSizeBounds
    <3>3. EncodeTlv(sig) = Exactly(StructureSize(sig))
      BY <3>1, ExactParts
    <3>4. QED
      BY <2>1, <3>2, <3>3
  <2>4. Exactly(id) ++ Exactly(StructureSize(sig)) = Exactly(id + StructureSize(sig))
    BY <1>1, <2>3, ExactParts
  <2>5. QED
    BY <1>1, <2>2, <2>3, <2>4
<1>3. CASE r.profile # "Mldsa87"
  <2> DEFINE s == EcdsaSigSize(r)
  <2>1. s \in Nat /\ 6 <= s /\ s <= 102 /\ EncodeEcdsaSig(r) = Exactly(s + 2)
    BY ExactEcdsaSig
  <2>2. /\ EncodeSignatureOctetString(r) =
             EncodeSigAlgId(r) ++ EncodeStructure(StructureSize(s), EncodeEcdsaSig(r))
        /\ SignatureOctetStringSize(r) = id + StructureSize(StructureSize(s))
    BY <1>3 DEF EncodeSignatureOctetString, SignatureOctetStringSize, id
  <2> HIDE DEF s
  <2>3. StructureSize(s) = s + 2 /\ StructureSize(s + 2) = s + 4
    BY <2>1, StructureSizeOfShort
  <2>4. EncodeStructure(StructureSize(s), EncodeEcdsaSig(r)) = Exactly(s + 4)
    BY <2>1, <2>3, ExactParts
  <2>5. Exactly(id) ++ Exactly(s + 4) = Exactly(id + (s + 4))
    BY <1>1, <2>1, ExactParts
  <2>6. QED
    BY <1>1, <2>1, <2>2, <2>3, <2>4, <2>5
<1>4. QED
  BY <1>2, <1>3

(***************************************************************************)
(* encode_signer_info is exact and shorter than 6000 bytes, whichever      *)
(* identifier names the signer.                                            *)
(***************************************************************************)
LEMMA ExactSignerInfo ==
  ASSUME NEW r \in Request
  PROVE  \E n \in Nat : /\ EncodeStructure(StructureSize(SignerInfoSize(r)), EncodeSignerInfo(r)) = Exactly(n)
                        /\ 1 <= n /\ n <= 6000
<1> DEFINE sid == SignerIdentifierSize(r)
           oct == SignatureOctetStringSize(r)
<1>1. sid \in Nat /\ sid <= 200 /\ EncodeSignerIdentifier(r) = Exactly(sid)
  <2>1. CASE r.sid = "IssuerAndSerialNumber"
    <3> DEFINE n == IntegerBytesSize(r.sid_serial)
               size == IssuerAndSerialSize(r)
    <3>1. r.sid_serial \in BigEndian /\ r.sid_serial.len <= 20 /\ r.issuer_name \in Nat /\ r.issuer_name <= 128
      BY RequestFields
    <3>2. r.sid_serial.len \in Nat
      BY <3>1 DEF BigEndian
    <3>3. n \in Nat /\ n <= 21 /\ EncodeIntegerBytes(r.sid_serial) = Exactly(StructureSize(n))
      BY <3>1, <3>2, ExactInteger
    <3>4. size = StructureSize(n) + r.issuer_name
      BY DEF IssuerAndSerialSize
    <3> HIDE DEF n
    <3>5. StructureSize(n) = n + 2
      BY <3>3, StructureSizeOfShort
    <3>6. size \in Nat /\ size <= 151
      BY <3>1, <3>3, <3>4, <3>5
    <3>7. EncodeBytes(r.issuer_name) ++ EncodeIntegerBytes(r.sid_serial) = Exactly(size)
      <4>1. Exactly(r.issuer_name) ++ Exactly(n + 2) = Exactly(r.issuer_name + (n + 2))
        BY <3>1, <3>3, ExactParts
      <4>2. r.issuer_name + (n + 2) = size
        BY <3>1, <3>3, <3>4, <3>5
      <4>3. QED
        BY <3>1, <3>3, <3>5, <4>1, <4>2, ExactParts
    <3>8. /\ EncodeSignerIdentifier(r) =
               EncodeStructure(size, EncodeBytes(r.issuer_name) ++ EncodeIntegerBytes(r.sid_serial))
          /\ sid = StructureSize(size)
      BY <2>1 DEF EncodeSignerIdentifier, SignerIdentifierSize
    <3> HIDE DEF size
    <3>9. QED
      BY <3>6, <3>7, <3>8, ExactParts, StructureSizeBounds
  <2>2. CASE r.sid # "IssuerAndSerialNumber"
    <3>1. /\ EncodeSignerIdentifier(r) = EncodeStructure(StructureSize(20), EncodeTlv(20))
          /\ sid = StructureSize(StructureSize(20))
      BY <2>2 DEF EncodeSignerIdentifier, SignerIdentifierSize, KEY_IDENTIFIER
    <3>2. StructureSize(20) = 22 /\ StructureSize(22) = 24
      BY StructureSizeOfShort
    <3>3. QED
      BY <3>1, <3>2, ExactParts
  <2>3. QED
    BY <2>1, <2>2
<1>2. oct \in Nat /\ oct <= 5000 /\ EncodeSignatureOctetString(r) = Exactly(oct)
  BY ExactSignatureOctetString
<1>3. SignerInfoSize(r) = 16 + sid + oct
  BY <1>1, <1>2, SmallIntegerIsOne, ExactHashAlgId, StructureSizeOfShort DEF SignerInfoSize
<1>4. EncodeCmsVersion = Exactly(3) /\ EncodeHashAlgId = Exactly(13)
  BY SmallIntegerIsOne, ExactHashAlgId DEF EncodeCmsVersion
<1> HIDE DEF sid, oct
<1> DEFINE n == SignerInfoSize(r)
<1>5. n \in Nat /\ n <= 5216
  BY <1>1, <1>2, <1>3
<1>6. EncodeSignerInfo(r) = Exactly(StructureSize(n))
  <2>1. EncodeCmsVersion ++ EncodeSignerIdentifier(r) ++ EncodeHashAlgId ++ EncodeSignatureOctetString(r) = Exactly(n)
    <3>1. Exactly(3) ++ Exactly(sid) = Exactly(3 + sid)
      BY <1>1, ExactParts
    <3>2. Exactly(3 + sid) ++ Exactly(13) = Exactly(16 + sid)
      BY <1>1, ExactParts
    <3>3. Exactly(16 + sid) ++ Exactly(oct) = Exactly(n)
      BY <1>1, <1>2, <1>3, ExactParts
    <3>4. QED
      BY <1>1, <1>2, <1>4, <3>1, <3>2, <3>3
  <2>2. QED
    BY <1>5, <2>1, ExactParts DEF EncodeSignerInfo
<1> HIDE DEF n
<1>7. StructureSize(n) \in Nat /\ StructureSize(n) <= 5222
  BY <1>5, StructureSizeBounds
<1>8. EncodeStructure(StructureSize(n), EncodeSignerInfo(r)) = Exactly(StructureSize(StructureSize(n)))
  BY <1>6, <1>7, ExactParts
<1>9. QED
  BY <1>7, <1>8, StructureSizeBounds DEF n

-----------------------------------------------------------------------------
(***************************************************************************)
(* A short element in a structure of its own.                              *)
(***************************************************************************)
LEMMA ExactTlvIn ==
  ASSUME NEW n \in Nat
  PROVE  /\ StructureSize(n) \in Nat
         /\ EncodeStructure(StructureSize(n), EncodeTlv(n)) = Exactly(StructureSize(StructureSize(n)))
BY StructureSizeBounds, ExactParts

(***************************************************************************)
(* The frame of an X.509 extension around exact content is exact.          *)
(***************************************************************************)
LEMMA ExactExtension ==
  ASSUME NEW oid \in Nat, NEW critical \in BOOLEAN, NEW n \in Nat
  PROVE  /\ ExtensionSize(oid, critical, n) \in Nat
         /\ EncodeExtension(oid, critical, n, Exactly(n)) = Exactly(StructureSize(ExtensionSize(oid, critical, n)))
<1> DEFINE a == StructureSize(oid)
           b == IF critical THEN 3 ELSE 0
           c == StructureSize(n)
           size == ExtensionSize(oid, critical, n)
<1>1. a \in Nat /\ b \in Nat /\ c \in Nat
  BY StructureSizeBounds
<1>2. size = a + b + c
  BY StructureSizeOfShort DEF ExtensionSize, BOOL_SIZE
<1>3. /\ EncodeTlv(oid) = Exactly(a) /\ EncodeStructure(n, Exactly(n)) = Exactly(c)
      /\ Optional(critical, EncodeTlv(BOOL_SIZE)) = Exactly(b)
  BY StructureSizeOfShort, ExactParts DEF BOOL_SIZE
<1>4. EncodeExtension(oid, critical, n, Exactly(n)) =
        EncodeStructure(size,
          EncodeTlv(oid) ++ Optional(critical, EncodeTlv(BOOL_SIZE)) ++ EncodeStructure(n, Exactly(n)))
  BY DEF EncodeExtension
<1> HIDE DEF a, b, c, size
<1>5. Exactly(a) ++ Exactly(b) = Exactly(a + b) /\ Exactly(a + b) ++ Exactly(c) = Exactly(size)
  <2>1. a + b \in Nat
    BY <1>1
  <2>2. Exactly(a) ++ Exactly(b) = Exactly(a + b)
    BY <1>1, ExactParts
  <2>3. Exactly(a + b) ++ Exactly(c) = Exactly((a + b) + c)
    BY <1>1, <2>1, ExactParts
  <2>4. QED
    BY <1>2, <2>2, <2>3
<1>6. size \in Nat
  BY <1>1, <1>2
<1>7. QED
  BY <1>3, <1>4, <1>5, <1>6, ExactParts DEF size

(***************************************************************************)
(* encode_ueid is exact.                                                   *)
(***************************************************************************)
LEMMA ExactUeid ==
  ASSUME NEW r \in Request
  PROVE  /\ UeidSize(r) \in Nat /\ 16 <= UeidSize(r) /\ UeidSize(r) <= 67
         /\ EncodeUeid(r) = Exactly(UeidSize(r))
<1> DEFINE n == StructureSize(StructureSize(r.label))
<1>1. r.label \in Nat /\ r.label <= 48 /\ r.crit_dice \in BOOLEAN
  BY RequestFields
<1>2. n = r.label + 4
  BY <1>1, StructureSizeOfShort
<1>3. EncodeStructure(StructureSize(r.label), EncodeTlv(r.label)) = Exactly(n)
  BY <1>1, ExactTlvIn
<1>4. /\ UeidSize(r) = StructureSize(ExtensionSize(OID_DICE, r.crit_dice, n))
      /\ EncodeUeid(r) = EncodeExtension(OID_DICE, r.crit_dice, n,
                           EncodeStructure(StructureSize(r.label), EncodeTlv(r.label)))
  BY DEF UeidSize, EncodeUeid
<1> HIDE DEF n
<1>5. ExtensionSize(OID_DICE, r.crit_dice, n) = n + 10 + (IF r.crit_dice THEN 3 ELSE 0)
  BY <1>1, <1>2, StructureSizeOfShort DEF ExtensionSize, OID_DICE, BOOL_SIZE
<1>6. UeidSize(r) = n + 12 + (IF r.crit_dice THEN 3 ELSE 0)
  BY <1>1, <1>2, <1>4, <1>5, StructureSizeOfShort
<1>7. EncodeUeid(r) = Exactly(UeidSize(r))
  BY <1>1, <1>2, <1>3, <1>4, ExactExtension DEF OID_DICE
<1>8. QED
  BY <1>1, <1>2, <1>6, <1>7

(***************************************************************************)
(* encode_basic_constraints is exact, with and without the path length.    *)
(***************************************************************************)
LEMMA ExactBasicConstraints ==
  ASSUME NEW r \in Request
  PROVE  /\ BasicConstraintsSize(r) \in Nat /\ 14 <= BasicConstraintsSize(r) /\ BasicConstraintsSize(r) <= 17
         /\ EncodeBasicConstraints(r) = Exactly(BasicConstraintsSize(r))
<1> DEFINE ca == CaSize(r)
           n == StructureSize(ca)
<1>1. r.is_ca \in BOOLEAN
  BY RequestFields
<1>2. ca = IF r.is_ca THEN 3 ELSE 0
  BY StructureSizeOfShort DEF CaSize, BOOL_SIZE
<1>3. ca \in Nat /\ ca <= 3 /\ n = ca + 2
  BY <1>1, <1>2, StructureSizeOfShort
<1>4. EncodeStructure(ca, Optional(r.is_ca, EncodeTlv(BOOL_SIZE))) = Exactly(n)
  BY <1>1, <1>2, <1>3, StructureSizeOfShort, ExactParts DEF BOOL_SIZE
<1>5. /\ BasicConstraintsSize(r) = StructureSize(ExtensionSize(OID_EXTENSION, TRUE, n))
      /\ EncodeBasicConstraints(r) = EncodeExtension(OID_EXTENSION, TRUE, n,
                                       EncodeStructure(ca, Optional(r.is_ca, EncodeTlv(BOOL_SIZE))))
  BY DEF BasicConstraintsSize, EncodeBasicConstraints
<1> HIDE DEF ca, n
<1>6. ExtensionSize(OID_EXTENSION, TRUE, n) = n + 10
  BY <1>3, StructureSizeOfShort DEF ExtensionSize, OID_EXTENSION, BOOL_SIZE
<1>7. BasicConstraintsSize(r) = n + 12
  <2>1. StructureSize(n + 10) = n + 12
    BY <1>3, StructureSizeOfShort
  <2>2. QED
    BY <1>5, <1>6, <2>1
<1>8. EncodeBasicConstraints(r) = Exactly(BasicConstraintsSize(r))
  <2>1. OID_EXTENSION \in Nat /\ n \in Nat
    BY <1>3 DEF OID_EXTENSION
  <2>2. EncodeExtension(OID_EXTENSION, TRUE, n, Exactly(n)) = Exactly(StructureSize(ExtensionSize(OID_EXTENSION, TRUE, n)))
    BY <2>1, ExactExtension
  <2>3. QED
    BY <1>4, <1>5, <2>2
<1>9. QED
  BY <1>3, <1>7, <1>8

(***************************************************************************)
(* Both key usage extensions are exact.                                    *)
(***************************************************************************)
LEMMA ExactKeyUsages ==
  /\ KeyUsageSize = 16 /\ EncodeKeyUsage = Exactly(16)
  /\ ExtendedKeyUsageSize = 23 /\ EncodeExtendedKeyUsage = Exactly(23)
<1>1. StructureSize(2) = 4 /\ StructureSize(7) = 9 /\ StructureSize(9) = 11
  BY StructureSizeOfShort
<1>2. ExtensionSize(OID_EXTENSION, TRUE, 4) = 14 /\ ExtensionSize(OID_EXTENSION, TRUE, 11) = 21
  BY StructureSizeOfShort DEF ExtensionSize, OID_EXTENSION, BOOL_SIZE
<1>3. StructureSize(14) = 16 /\ StructureSize(21) = 23
  BY StructureSizeOfShort
<1>4. /\ EncodeExtension(OID_EXTENSION, TRUE, 4, Exactly(4)) = Exactly(16)
      /\ EncodeExtension(OID_EXTENSION, TRUE, 11, Exactly(11)) = Exactly(23)
  <2>1. OID_EXTENSION \in Nat
    BY DEF OID_EXTENSION
  <2>2. EncodeExtension(OID_EXTENSION, TRUE, 4, Exactly(4)) = Exactly(StructureSize(ExtensionSize(OID_EXTENSION, TRUE, 4)))
    BY <2>1, ExactExtension
  <2>3. EncodeExtension(OID_EXTENSION, TRUE, 11, Exactly(11)) = Exactly(StructureSize(ExtensionSize(OID_EXTENSION, TRUE, 11)))
    BY <2>1, ExactExtension
  <2>4. QED
    BY <1>2, <1>3, <2>2, <2>3
<1>5. EncodeTlv(2) = Exactly(4) /\ EncodeStructure(StructureSize(7), EncodeTlv(7)) = Exactly(11)
  BY <1>1, ExactParts, ExactTlvIn
<1>6. KeyUsageSize = 16 /\ EncodeKeyUsage = Exactly(16)
  BY <1>1, <1>2, <1>3, <1>4, <1>5 DEF KeyUsageSize, EncodeKeyUsage
<1>7. ExtendedKeyUsageSize = 23 /\ EncodeExtendedKeyUsage = Exactly(23)
  BY <1>1, <1>2, <1>3, <1>4, <1>5 DEF ExtendedKeyUsageSize, EncodeExtendedKeyUsage, OID_DICE_USAGE
<1>8. QED
  BY <1>6, <1>7

(***************************************************************************)
(* Both key identifier extensions are exact, also where they are left out. *)
(***************************************************************************)
LEMMA ExactKeyIdentifiers ==
  ASSUME NEW r \in Request, NEW x \in BOOLEAN
  PROVE  /\ SubjectKeyIdentifierSize(r, x) \in Nat /\ SubjectKeyIdentifierSize(r, x) <= 40
         /\ EncodeSubjectKeyIdentifier(r, x) = Exactly(SubjectKeyIdentifierSize(r, x))
         /\ AuthorityKeyIdentifierSize(x) \in Nat /\ AuthorityKeyIdentifierSize(x) <= 40
         /\ EncodeAuthorityKeyIdentifier(x) = Exactly(AuthorityKeyIdentifierSize(x))
<1>1. r.is_ca \in BOOLEAN
  BY RequestFields
<1>2. StructureSize(20) = 22 /\ StructureSize(22) = 24
  BY StructureSizeOfShort
<1>3. ExtensionSize(OID_EXTENSION, FALSE, 22) = 29 /\ ExtensionSize(OID_EXTENSION, FALSE, 24) = 31
  BY StructureSizeOfShort DEF ExtensionSize, OID_EXTENSION
<1>4. StructureSize(29) = 31 /\ StructureSize(31) = 33
  BY StructureSizeOfShort
<1>5. /\ EncodeExtension(OID_EXTENSION, FALSE, 22, Exactly(22)) = Exactly(31)
      /\ EncodeExtension(OID_EXTENSION, FALSE, 24, Exactly(24)) = Exactly(33)
  <2>1. OID_EXTENSION \in Nat
    BY DEF OID_EXTENSION
  <2>2. EncodeExtension(OID_EXTENSION, FALSE, 22, Exactly(22)) = Exactly(StructureSize(ExtensionSize(OID_EXTENSION, FALSE, 22)))
    BY <2>1, ExactExtension
  <2>3. EncodeExtension(OID_EXTENSION, FALSE, 24, Exactly(24)) = Exactly(StructureSize(ExtensionSize(OID_EXTENSION, FALSE, 24)))
    BY <2>1, ExactExtension
  <2>4. QED
    BY <1>3, <1>4, <2>2, <2>3
<1>6. EncodeTlv(20) = Exactly(22) /\ EncodeStructure(StructureSize(20), EncodeTlv(20)) = Exactly(24)
  BY <1>2, ExactParts, ExactTlvIn
<1>7. /\ SubjectKeyIdentifierSize(r, x) = IF r.is_ca /\ x THEN 31 ELSE 0
      /\ AuthorityKeyIdentifierSize(x) = IF x THEN 33 ELSE 0
  <2>1. StructureSize(KEY_IDENTIFIER) = 22 /\ StructureSize(StructureSize(KEY_IDENTIFIER)) = 24
    BY <1>2 DEF KEY_IDENTIFIER
  <2>2. SubjectKeyIdentifierSize(r, x) = IF r.is_ca /\ x THEN 31 ELSE 0
    BY <1>3, <1>4, <2>1 DEF SubjectKeyIdentifierSize
  <2>3. AuthorityKeyIdentifierSize(x) = IF x THEN 33 ELSE 0
    BY <1>3, <1>4, <2>1 DEF AuthorityKeyIdentifierSize
  <2>4. QED
    BY <2>2, <2>3
<1>8. /\ EncodeSubjectKeyIdentifier(r, x) = Exactly(IF r.is_ca /\ x THEN 31 ELSE 0)
      /\ EncodeAuthorityKeyIdentifier(x) = Exactly(IF x THEN 33 ELSE 0)
  <2>1. /\ EncodeSubjectKeyIdentifier(r, x) = Optional(r.is_ca /\ x, Exactly(31))
        /\ EncodeAuthorityKeyIdentifier(x) = Optional(x, Exactly(33))
    BY <1>2, <1>5, <1>6 DEF EncodeSubjectKeyIdentifier, EncodeAuthorityKeyIdentifier, KEY_IDENTIFIER
  <2>2. QED
    BY <2>1, ExactParts DEF Optional
<1>9. QED
  BY <1>7, <1>8

(***************************************************************************)
(* encode_subject_alt_name_extension is exact, also where there is none.   *)
(***************************************************************************)
LEMMA ExactSubjectAltName ==
  ASSUME NEW r \in Request
  PROVE  /\ SubjectAltNameSize(r) \in Nat /\ SubjectAltNameSize(r) <= 250
         /\ EncodeSubjectAltName(r) = Exactly(SubjectAltNameSize(r))
<1> DEFINE san   == r.subject_alt_name
           inner == StructureSize(san.name)
           other == OtherNameSize(san)
           size  == StructureSize(other)
           n     == StructureSize(size)
           ext   == StructureSize(ExtensionSize(OID_EXTENSION, FALSE, n))
           content == EncodeStructure(size,
                        EncodeStructure(other,
                          EncodeTlv(san.oid) ++ EncodeStructure(inner, EncodeTlv(san.name))))
<1>1. san.oid \in Nat /\ san.oid <= 16 /\ san.name \in Nat /\ san.name <= 128
  BY RequestFields
<1>2. inner \in Nat /\ inner <= 134 /\ EncodeTlv(san.name) = Exactly(inner)
  <2>1. EncodeTlv(san.name) = Exactly(inner)
    BY <1>1, ExactParts
  <2>2. QED
    BY <1>1, <2>1, StructureSizeBounds
<1>3. other = StructureSize(san.oid) + StructureSize(inner)
  BY DEF OtherNameSize
<1>4. /\ SubjectAltNameSize(r) = IF san = NoSubjectAltName THEN 0 ELSE ext
      /\ EncodeSubjectAltName(r) = Optional(san # NoSubjectAltName, EncodeExtension(OID_EXTENSION, FALSE, n, content))
  BY DEF SubjectAltNameSize, EncodeSubjectAltName
<1>5. content = Exactly(n) /\ n \in Nat /\ n <= 174
  <2> HIDE DEF san, inner, other, size, n
  <2>1. StructureSize(san.oid) \in Nat /\ StructureSize(san.oid) <= 22 /\ EncodeTlv(san.oid) = Exactly(StructureSize(san.oid))
    <3>1. EncodeTlv(san.oid) = Exactly(StructureSize(san.oid))
      BY <1>1, ExactParts
    <3>2. QED
      BY <1>1, <3>1, StructureSizeBounds
  <2>2. /\ StructureSize(inner) \in Nat /\ StructureSize(inner) <= 140
        /\ EncodeStructure(inner, EncodeTlv(san.name)) = Exactly(StructureSize(inner))
    BY <1>2, StructureSizeBounds, ExactParts
  <2>3. other \in Nat /\ other <= 162
    BY <1>3, <2>1, <2>2
  <2>4. EncodeTlv(san.oid) ++ EncodeStructure(inner, EncodeTlv(san.name)) = Exactly(other)
    BY <1>3, <2>1, <2>2, ExactParts
  <2>5. size \in Nat /\ size <= 168 /\ EncodeStructure(other, Exactly(other)) = Exactly(size)
    <3>1. EncodeStructure(other, Exactly(other)) = Exactly(size)
      BY <2>3, ExactParts DEF size
    <3>2. QED
      BY <2>3, <3>1, StructureSizeBounds DEF size
  <2>6. n \in Nat /\ n <= 174 /\ EncodeStructure(size, Exactly(size)) = Exactly(n)
    BY <2>5, StructureSizeBounds, ExactParts DEF n
  <2>7. QED
    BY <2>4, <2>5, <2>6
<1> HIDE DEF n, content
<1>6. EncodeExtension(OID_EXTENSION, FALSE, n, content) = Exactly(ext) /\ ext \in Nat /\ ext <= 250
  <2>1. OID_EXTENSION \in Nat
    BY DEF OID_EXTENSION
  <2>2. /\ ExtensionSize(OID_EXTENSION, FALSE, n) \in Nat
        /\ EncodeExtension(OID_EXTENSION, FALSE, n, Exactly(n)) = Exactly(ext)
    BY <1>5, <2>1, ExactExtension
  <2>3. StructureSize(OID_EXTENSION) = 5
    BY StructureSizeOfShort DEF OID_EXTENSION
  <2>4. StructureSize(n) \in Nat /\ StructureSize(n) <= 180
    BY <1>5, StructureSizeBounds
  <2>5. ExtensionSize(OID_EXTENSION, FALSE, n) <= 185
    BY <2>3, <2>4 DEF ExtensionSize
  <2>6. QED
    <3> DEFINE e == ExtensionSize(OID_EXTENSION, FALSE, n)
    <3>1. e \in Nat /\ e <= 185
      BY <2>2, <2>5
    <3> HIDE DEF e
    <3>2. StructureSize(e) \in Nat /\ StructureSize(e) <= e + 6
      BY <3>1, StructureSizeBounds
    <3>3. ext = StructureSize(e)
      BY DEF e
    <3>4. EncodeExtension(OID_EXTENSION, FALSE, n, content) = Exactly(ext)
      BY <1>5, <2>2
    <3> HIDE DEF ext
    <3>5. ext \in Nat /\ ext <= 250
      BY <3>1, <3>2, <3>3
    <3>6. QED
      BY <3>4, <3>5
<1> HIDE DEF ext
<1>7. QED
  <2>1. Nothing = Exactly(0)
    BY ExactParts
  <2> DEFINE encoded == EncodeExtension(OID_EXTENSION, FALSE, n, content)
  <2>2. /\ EncodeSubjectAltName(r) = IF san # NoSubjectAltName THEN encoded ELSE Nothing
        /\ SubjectAltNameSize(r) = IF san = NoSubjectAltName THEN 0 ELSE ext
    BY <1>4 DEF Optional
  <2>3. encoded = Exactly(ext) /\ ext \in Nat /\ ext <= 250
    BY <1>6
  <2> HIDE DEF encoded, san
  <2>4. CASE san = NoSubjectAltName
    BY <2>1, <2>2, <2>4
  <2>5. CASE san # NoSubjectAltName
    BY <2>2, <2>3, <2>5
  <2>6. QED
    BY <2>4, <2>5

-----------------------------------------------------------------------------
(***************************************************************************)
(* One TcbInfo is exact: get_tcb_info_size is given the svn that           *)
(* encode_tcb_info writes. The size of a lineage is not: see SameWidths.   *)
(***************************************************************************)
LEMMA ExactTcbInfo ==
  ASSUME NEW r \in Request, NEW svn \in SvnIntegers
  PROVE  /\ TcbInfoSize(r, svn) \in Nat /\ TcbInfoSize(r, svn) <= 250
         /\ EncodeTcbInfo(r, svn) = Exactly(StructureSize(TcbInfoSize(r, svn)))
<1> DEFINE int  == StructureSize(IntegerBytesSize(svn))
           fwid == FwidSize(r)
           fwids == StructureSize(fwid)
           reg  == RegisterSize(r)
           regs == StructureSize(StructureSize(reg))
           registers == EncodeStructure(StructureSize(reg),
                          EncodeStructure(reg,
                            EncodeIntegerBytes(SmallInteger) ++ EncodeStructure(fwids, EncodeFwid(r))))
           opt  == IF r.supports_recursive THEN regs ELSE 0
           size == TcbInfoSize(r, svn)
<1>1. int \in Nat /\ int <= 11 /\ EncodeIntegerBytes(svn) = Exactly(int)
  <2>1. svn \in BigEndian /\ svn.len = 8
    BY SvnIsBigEndian
  <2>2. IntegerBytesSize(svn) \in Nat /\ IntegerBytesSize(svn) <= 9
    BY <2>1, ExactInteger
  <2>3. QED
    BY <2>1, <2>2, ExactInteger, StructureSizeOfShort
<1>2. fwid \in Nat /\ fwid <= 61 /\ EncodeFwid(r) = Exactly(fwids)
  <2>1. Digest(r) \in Nat /\ Digest(r) <= 48 /\ OID_HASH = 9
    BY DEF Digest, OID_HASH
  <2>2. fwid = StructureSize(OID_HASH) + StructureSize(Digest(r))
    BY DEF FwidSize
  <2>3. StructureSize(OID_HASH) = 11 /\ StructureSize(Digest(r)) = Digest(r) + 2
    BY <2>1, StructureSizeOfShort
  <2>4. EncodeFwid(r) = Exactly(fwids)
    BY <2>1, ExactPair DEF EncodeFwid, FwidSize
  <2>5. QED
    BY <2>1, <2>2, <2>3, <2>4
<1>3. fwids = fwid + 2
  BY <1>2, StructureSizeOfShort
<1>4. reg = fwids + 5
  <2>1. StructureSize(fwids) = fwids + 2 /\ StructureSize(1) = 3
    BY <1>2, <1>3, StructureSizeOfShort
  <2>2. reg = StructureSize(1) + StructureSize(fwids)
    BY SmallIntegerIsOne DEF RegisterSize
  <2>3. QED
    BY <1>2, <1>3, <2>1, <2>2
<1>5. size = StructureSize(fwids) + 2 * StructureSize(4) + opt + int
  BY DEF TcbInfoSize
<1>6. EncodeTcbInfo(r, svn) =
        EncodeStructure(size,
          EncodeIntegerBytes(svn) ++ EncodeStructure(fwids, EncodeFwid(r)) ++ EncodeTlv(4) ++ EncodeTlv(4)
            ++ Optional(r.supports_recursive, registers))
  BY DEF EncodeTcbInfo
<1> HIDE DEF int, fwid, fwids, size
<1>7. EncodeStructure(fwids, EncodeFwid(r)) = Exactly(fwids + 2) /\ StructureSize(fwids) = fwids + 2
  BY <1>2, <1>3, StructureSizeOfShort, ExactParts
<1>8. StructureSize(4) = 6 /\ EncodeTlv(4) = Exactly(6)
  BY StructureSizeOfShort, ExactParts
<1>9. registers = Exactly(regs) /\ regs \in Nat /\ regs <= 80
  <2>1. reg \in Nat /\ reg <= 68
    BY <1>2, <1>3, <1>4
  <2>2. Exactly(3) ++ Exactly(fwids + 2) = Exactly(reg)
    BY <1>2, <1>3, <1>4, ExactParts
  <2> HIDE DEF reg
  <2>3. StructureSize(reg) \in Nat /\ StructureSize(reg) <= 74 /\ EncodeStructure(reg, Exactly(reg)) = Exactly(StructureSize(reg))
    <3>1. EncodeStructure(reg, Exactly(reg)) = Exactly(StructureSize(reg))
      BY <2>1, ExactParts
    <3>2. QED
      BY <2>1, <3>1, StructureSizeBounds
  <2>4. regs \in Nat /\ regs <= 80 /\ EncodeStructure(StructureSize(reg), Exactly(StructureSize(reg))) = Exactly(regs)
    <3> DEFINE s == StructureSize(reg)
    <3>1. s \in Nat /\ s <= 74
      BY <2>3
    <3> HIDE DEF s
    <3>2. StructureSize(s) \in Nat /\ StructureSize(s) <= s + 6
      BY <3>1, StructureSizeBounds
    <3>3. EncodeStructure(s, Exactly(s)) = Exactly(StructureSize(s))
      BY <3>1, ExactParts
    <3>4. QED
      BY <3>1, <3>2, <3>3 DEF s
  <2>5. QED
    BY <1>7, <2>2, <2>3, <2>4, SmallIntegerIsOne
<1> HIDE DEF registers, regs
<1>10. Optional(r.supports_recursive, registers) = Exactly(opt) /\ opt \in Nat /\ opt <= 80
  BY <1>9, ExactParts DEF Optional
<1> HIDE DEF opt
<1>11. size = int + (fwids + 2) + 6 + 6 + opt /\ size \in Nat /\ size <= 250
  BY <1>1, <1>2, <1>3, <1>5, <1>7, <1>8, <1>10
<1>12. EncodeIntegerBytes(svn) ++ EncodeStructure(fwids, EncodeFwid(r)) ++ EncodeTlv(4) ++ EncodeTlv(4)
         ++ Optional(r.supports_recursive, registers) = Exactly(size)
  <2>1. fwids + 2 \in Nat
    BY <1>2, <1>3
  <2> DEFINE f == fwids + 2
  <2> HIDE DEF f
  <2>2. Exactly(int) ++ Exactly(f) = Exactly(int + f)
    BY <1>1, <2>1, ExactParts DEF f
  <2>3. Exactly(int + f) ++ Exactly(6) = Exactly(int + f + 6)
    BY <1>1, <2>1, ExactParts DEF f
  <2>4. Exactly(int + f + 6) ++ Exactly(6) = Exactly(int + f + 6 + 6)
    BY <1>1, <2>1, ExactParts DEF f
  <2>5. Exactly(int + f + 6 + 6) ++ Exactly(opt) = Exactly(int + f + 6 + 6 + opt)
    BY <1>1, <1>10, <2>1, ExactParts DEF f
  <2>6. QED
    BY <1>1, <1>7, <1>8, <1>10, <1>11, <2>2, <2>3, <2>4, <2>5 DEF f
<1>13. QED
  BY <1>6, <1>11, <1>12, ExactParts DEF size

(***************************************************************************)
(* Every svn of the lineage takes as many bytes as the one that            *)
(* get_multi_tcb_info_size takes for all of them.                          *)
(***************************************************************************)
SameWidths(r) == \A i \in DOMAIN r.svns : IntegerBytesSize(r.svns[i]) = IntegerBytesSize(r.slot0)

(***************************************************************************)
(* The infos themselves are exact. That their sum is what                  *)
(* get_multi_tcb_info_size says needs them to have the width of slot 0.    *)
(***************************************************************************)
LEMMA TcbInfosEncoded ==
  ASSUME NEW r \in Request
  PROVE  /\ \E n \in Nat : EncodeTcbInfos(r) = Exactly(n) /\ n <= 256 * Len(r.svns)
         /\ TcbInfosSize(r) \in Nat
         /\ SameWidths(r) => EncodeTcbInfos(r) = Exactly(TcbInfosSize(r))
<1> DEFINE L == Len(r.svns)
           S(k) == StructureSize(TcbInfoSize(r, r.svns[k]))
           S0   == StructureSize(TcbInfoSize(r, r.slot0))
<1>1. r.svns \in Seq(SvnIntegers) /\ r.slot0 \in SvnIntegers /\ L \in Nat /\ DOMAIN r.svns = 1 .. L
  BY RequestFields
<1>2. ASSUME NEW k \in 1 .. L
      PROVE  S(k) \in Nat /\ S(k) <= 256 /\ EncodeTcbInfo(r, r.svns[k]) = Exactly(S(k))
  <2>1. r.svns[k] \in SvnIntegers
    BY <1>1
  <2> DEFINE size == TcbInfoSize(r, r.svns[k])
  <2>2. size \in Nat /\ size <= 250 /\ EncodeTcbInfo(r, r.svns[k]) = Exactly(S(k))
    BY <2>1, ExactTcbInfo
  <2>3. S(k) = StructureSize(size)
    OBVIOUS
  <2> HIDE DEF size, S
  <2>4. StructureSize(size) \in Nat /\ StructureSize(size) <= size + 6
    BY <2>2, StructureSizeBounds
  <2>5. S(k) \in Nat /\ S(k) <= 256
    BY <2>2, <2>3, <2>4
  <2>6. QED
    BY <2>2, <2>5
<1>3. S0 \in Nat /\ TcbInfosSize(r) = L * S0
  BY <1>1, ExactTcbInfo, StructureSizeBounds DEF TcbInfosSize
<1>4. SameWidths(r) => \A k \in 1 .. L : S(k) = S0
  BY <1>1 DEF SameWidths, TcbInfoSize
<1> HIDE DEF S, S0
<1>5. \A k \in 1 .. L : EncodeTcbInfo(r, r.svns[k]) \in Emitted
  <2> SUFFICES ASSUME NEW k \in 1 .. L PROVE EncodeTcbInfo(r, r.svns[k]) \in Emitted
    OBVIOUS
  <2>1. \A m \in Nat : Exactly(m) \in Emitted
    BY DEF Exactly, Emitted
  <2>2. QED
    BY <1>2, <2>1
<1>6. PICK e \in [0 .. L -> Emitted] :
        /\ e[0] = Nothing
        /\ \A n \in 1 .. L : e[n] = e[n - 1] ++ EncodeTcbInfo(r, r.svns[n])
        /\ EncodeTcbInfos(r) = e[L]
  BY <1>1, <1>5, TcbInfosRecursion
<1>7. ASSUME NEW n \in 1 .. L, NEW m \in Nat, e[n - 1] = Exactly(m)
      PROVE  e[n] = Exactly(m + S(n))
  <2>1. S(n) \in Nat /\ EncodeTcbInfo(r, r.svns[n]) = Exactly(S(n))
    BY <1>2
  <2>2. e[n] = Exactly(m) ++ Exactly(S(n))
    BY <1>6, <1>7, <2>1
  <2>3. QED
    BY <2>1, <2>2, ExactParts
<1>8. \A n \in 0 .. L : \E m \in Nat : e[n] = Exactly(m) /\ m <= 256 * n
  <2> DEFINE T == {n \in Nat : \E m \in Nat : e[n] = Exactly(m) /\ m <= 256 * n}
  <2>1. 0 \in T
    <3>1. e[0] = Exactly(0) /\ 0 \in Nat /\ 0 <= 256 * 0
      BY <1>6, ExactParts
    <3>2. QED
      BY <3>1
  <2>2. ASSUME NEW n \in 1 .. L, n - 1 \in T PROVE n \in T
    <3>1. PICK m \in Nat : e[n - 1] = Exactly(m) /\ m <= 256 * (n - 1)
      BY <2>2
    <3>2. m + S(n) \in Nat /\ m + S(n) <= 256 * n
      BY <1>2, <3>1
    <3>3. QED
      BY <1>7, <3>1, <3>2
  <2>3. \A n \in 0 .. L : n \in T
    <3> HIDE DEF T, L
    <3> QED  BY <1>1, <2>1, <2>2, UpTo
  <2>4. QED
    BY <2>3
<1>9. ASSUME SameWidths(r) PROVE \A n \in 0 .. L : e[n] = Exactly(n * S0)
  <2> DEFINE T == {n \in Nat : e[n] = Exactly(n * S0)}
  <2>1. 0 \in T
    <3>1. 0 * S0 = 0
      BY <1>3
    <3>2. e[0] = Exactly(0)
      BY <1>6, ExactParts
    <3>3. QED
      BY <3>1, <3>2
  <2>2. ASSUME NEW n \in 1 .. L, n - 1 \in T PROVE n \in T
    <3>1. (n - 1) * S0 \in Nat /\ (n - 1) * S0 + S0 = n * S0
      BY <1>3
    <3>2. e[n - 1] = Exactly((n - 1) * S0) /\ S(n) = S0
      BY <1>4, <1>9, <2>2
    <3>3. QED
      BY <1>7, <3>1, <3>2
  <2>3. \A n \in 0 .. L : n \in T
    <3> HIDE DEF T, L
    <3> QED  BY <1>1, <2>1, <2>2, UpTo
  <2>4. QED
    BY <2>3
<1>10. TcbInfosSize(r) \in Nat
  BY <1>1, <1>3
<1>11. \E n \in Nat : EncodeTcbInfos(r) = Exactly(n) /\ n <= 256 * L
  BY <1>1, <1>6, <1>8
<1>12. SameWidths(r) => EncodeTcbInfos(r) = Exactly(TcbInfosSize(r))
  BY <1>1, <1>3, <1>6, <1>9
<1>13. QED
  BY <1>10, <1>11, <1>12

(***************************************************************************)
(* What encode functions return can be concatenated, and the bytes add up. *)
(***************************************************************************)
LEMMA EmittedParts ==
  /\ \A n \in Nat : Exactly(n) \in Emitted /\ Exactly(n).written = n /\ Exactly(n).exact = TRUE
  /\ \A a, b \in Emitted : /\ a ++ b \in Emitted
                           /\ (a ++ b).written = a.written + b.written
  /\ \A e \in Emitted : e.written \in Nat
BY DEF Exactly, Emitted, ++

(***************************************************************************)
(* A structure takes its content and two to six bytes, whatever the size   *)
(* that is declared for it.                                                *)
(***************************************************************************)
LEMMA EmittedStructure ==
  ASSUME NEW s \in Nat, NEW e \in Emitted
  PROVE  /\ EncodeStructure(s, e) \in Emitted
         /\ e.written + 2 <= EncodeStructure(s, e).written
         /\ EncodeStructure(s, e).written <= e.written + 6
<1>1. SizeWidth(s) \in Nat /\ 1 <= SizeWidth(s) /\ SizeWidth(s) <= 5
  BY SizeWidthBounds
<1>2. QED
  BY <1>1 DEF EncodeStructure, Emitted

(***************************************************************************)
(* A lineage has at most MAX_HANDLES contexts.                             *)
(***************************************************************************)
WithinHandles(r) == Len(r.svns) <= MAX_HANDLES

(***************************************************************************)
(* Between least and most bytes are written.                               *)
(***************************************************************************)
Fits(e, least, most) == e \in Emitted /\ least <= e.written /\ e.written <= most

(***************************************************************************)
(* The MultiTcbInfo extension stays below 16500 bytes for a lineage of     *)
(* MAX_HANDLES contexts, and is exact when the svns have one width.        *)
(***************************************************************************)
LEMMA MultiTcbInfoEncoded ==
  ASSUME NEW r \in Request, WithinHandles(r)
  PROVE  /\ MultiTcbInfoSize(r) \in Nat
         /\ Fits(EncodeMultiTcbInfo(r), 14, 16500)
         /\ SameWidths(r) => EncodeMultiTcbInfo(r) = Exactly(MultiTcbInfoSize(r))
<1> DEFINE tcbs  == TcbInfosSize(r)
           n     == StructureSize(tcbs)
           infos == EncodeTcbInfos(r)
           inner == EncodeStructure(tcbs, infos)
           size  == ExtensionSize(OID_DICE, r.crit_dice, n)
           b     == IF r.crit_dice THEN 3 ELSE 0
<1>1. r.crit_dice \in BOOLEAN /\ Len(r.svns) \in Nat /\ Len(r.svns) <= 64 /\ OID_DICE \in Nat
  BY RequestFields DEF WithinHandles, MAX_HANDLES, OID_DICE
<1>2. PICK m \in Nat : infos = Exactly(m) /\ m <= 256 * Len(r.svns)
  BY TcbInfosEncoded
<1>3. tcbs \in Nat /\ (SameWidths(r) => infos = Exactly(tcbs))
  BY TcbInfosEncoded
<1>4. /\ EncodeMultiTcbInfo(r) =
           EncodeStructure(size,
             EncodeTlv(OID_DICE) ++ Optional(r.crit_dice, EncodeTlv(BOOL_SIZE)) ++ EncodeStructure(n, inner))
      /\ EncodeMultiTcbInfo(r) = EncodeExtension(OID_DICE, r.crit_dice, n, inner)
      /\ MultiTcbInfoSize(r) = StructureSize(size)
  BY DEF EncodeMultiTcbInfo, EncodeExtension, MultiTcbInfoSize
<1> HIDE DEF tcbs, infos
<1>5. n \in Nat
  BY <1>3, StructureSizeBounds
<1>6. size \in Nat /\ EncodeExtension(OID_DICE, r.crit_dice, n, Exactly(n)) = Exactly(StructureSize(size))
  <2> HIDE DEF n
  <2> QED  BY <1>1, <1>5, ExactExtension
<1>7. MultiTcbInfoSize(r) \in Nat
  BY <1>4, <1>6, StructureSizeBounds
<1>8. SameWidths(r) => EncodeMultiTcbInfo(r) = Exactly(MultiTcbInfoSize(r))
  <2> SUFFICES ASSUME SameWidths(r) PROVE EncodeMultiTcbInfo(r) = Exactly(MultiTcbInfoSize(r))
    OBVIOUS
  <2>1. inner = Exactly(n)
    BY <1>3, ExactParts
  <2>2. QED
    BY <1>4, <1>6, <2>1
<1>9. infos \in Emitted /\ infos.written = m
  BY <1>2, EmittedParts
<1>10. inner \in Emitted /\ m + 2 <= inner.written /\ inner.written <= m + 6
  BY <1>3, <1>9, EmittedStructure
<1> HIDE DEF inner, n, size
<1> DEFINE content == EncodeStructure(n, inner)
<1>11. content \in Emitted /\ m + 4 <= content.written /\ content.written <= m + 12
  <2>1. /\ content \in Emitted
        /\ inner.written + 2 <= content.written /\ content.written <= inner.written + 6
    BY <1>5, <1>10, EmittedStructure
  <2>2. inner.written \in Nat /\ content.written \in Nat
    BY <1>10, <2>1, EmittedParts
  <2> HIDE DEF content
  <2>3. QED
    BY <1>2, <1>10, <2>1, <2>2
<1> HIDE DEF content
<1>12. EncodeTlv(OID_DICE) = Exactly(8) /\ Optional(r.crit_dice, EncodeTlv(BOOL_SIZE)) = Exactly(b)
  <2>1. StructureSize(6) = 8 /\ StructureSize(1) = 3
    BY StructureSizeOfShort
  <2>2. EncodeTlv(6) = Exactly(8) /\ EncodeTlv(1) = Exactly(3) /\ Nothing = Exactly(0)
    BY <2>1, ExactParts
  <2>3. QED
    BY <1>1, <2>2 DEF OID_DICE, BOOL_SIZE, Optional
<1>13. Exactly(8) ++ Exactly(b) = Exactly(8 + b)
  BY <1>1, ExactParts
<1> DEFINE all == Exactly(8 + b) ++ content
<1>14. all \in Emitted /\ all.written = 8 + b + content.written
  <2>1. Exactly(8 + b) \in Emitted /\ Exactly(8 + b).written = 8 + b
    BY <1>1, EmittedParts
  <2>2. QED
    BY <1>11, <2>1, EmittedParts
<1>15. EncodeMultiTcbInfo(r) = EncodeStructure(size, all)
  BY <1>4, <1>12, <1>13 DEF content
<1> HIDE DEF all
<1>16. /\ EncodeMultiTcbInfo(r) \in Emitted
       /\ all.written + 2 <= EncodeMultiTcbInfo(r).written
       /\ EncodeMultiTcbInfo(r).written <= all.written + 6
  BY <1>6, <1>14, <1>15, EmittedStructure
<1>17. content.written \in Nat /\ EncodeMultiTcbInfo(r).written \in Nat /\ b \in Nat /\ b <= 3
  BY <1>1, <1>11, <1>16, EmittedParts
<1>18. 14 <= EncodeMultiTcbInfo(r).written /\ EncodeMultiTcbInfo(r).written <= 16500
  <2> DEFINE w == EncodeMultiTcbInfo(r).written
             a == all.written
             c == content.written
             l == Len(r.svns)
  <2>1. /\ l \in Nat /\ l <= 64 /\ m \in Nat /\ m <= 256 * l
        /\ m + 4 <= c /\ c <= m + 12 /\ a = 8 + b + c /\ a + 2 <= w /\ w <= a + 6
    BY <1>1, <1>2, <1>11, <1>14, <1>16
  <2>2. w \in Nat /\ c \in Nat /\ b \in Nat /\ b <= 3
    BY <1>17
  <2> HIDE DEF w, a, b, c, l
  <2>3. 14 <= w /\ w <= 16500
    BY <2>1, <2>2
  <2>4. QED
    BY <2>3 DEF w
<1>19. QED
  BY <1>7, <1>8, <1>16, <1>18 DEF Fits

(***************************************************************************)
(* How many bytes the extensions of a certificate take.                    *)
(***************************************************************************)
ExtensionsFit(e) == Fits(e, 85, 17000)

(***************************************************************************)
(* encode_extensions: bounded whatever the svns, exact when they have one  *)
(* width.                                                                  *)
(***************************************************************************)
LEMMA ExtensionsEncoded ==
  ASSUME NEW r \in Request, NEW x \in BOOLEAN, WithinHandles(r)
  PROVE  /\ ExtensionsSize(r, x) \in Nat
         /\ ExtensionsFit(EncodeExtensions(r, x))
         /\ SameWidths(r) => EncodeExtensions(r, x).exact = TRUE
         /\ SameWidths(r) /\ ~x => EncodeExtensions(r, x) = Exactly(StructureSize(ExtensionsSize(r, x)))
<1> DEFINE m  == MultiTcbInfoSize(r)
           e  == EncodeMultiTcbInfo(r)
           u  == UeidSize(r)
           c  == BasicConstraintsSize(r)
           sk == SubjectKeyIdentifierSize(r, x)
           ak == AuthorityKeyIdentifierSize(x)
           an == SubjectAltNameSize(r)
           size == ExtensionsSize(r, x)
           rest == u + c + 39 + sk + ak + an
           content == EncodeMultiTcbInfo(r) ++ EncodeUeid(r) ++ EncodeBasicConstraints(r)
            ++ EncodeKeyUsage ++ EncodeExtendedKeyUsage
            ++ EncodeSubjectKeyIdentifier(r, x)
            ++ EncodeAuthorityKeyIdentifier(x) ++ EncodeSubjectAltName(r)
           inner == EncodeStructure(size, content)
<1>1. /\ m \in Nat /\ e \in Emitted /\ 14 <= e.written /\ e.written <= 16500
      /\ SameWidths(r) => e = Exactly(m)
  BY MultiTcbInfoEncoded DEF Fits
<1>2. /\ u \in Nat /\ 16 <= u /\ u <= 67 /\ EncodeUeid(r) = Exactly(u)
      /\ c \in Nat /\ 14 <= c /\ c <= 17 /\ EncodeBasicConstraints(r) = Exactly(c)
      /\ EncodeKeyUsage = Exactly(16) /\ EncodeExtendedKeyUsage = Exactly(23)
      /\ sk \in Nat /\ sk <= 40 /\ EncodeSubjectKeyIdentifier(r, x) = Exactly(sk)
      /\ ak \in Nat /\ ak <= 40 /\ EncodeAuthorityKeyIdentifier(x) = Exactly(ak)
      /\ an \in Nat /\ an <= 250 /\ EncodeSubjectAltName(r) = Exactly(an)
  BY ExactUeid, ExactBasicConstraints, ExactKeyUsages, ExactKeyIdentifiers, ExactSubjectAltName
<1>3. size = m + u + c + 16 + 23 + sk + ak + an
  BY ExactKeyUsages DEF ExtensionsSize
<1>4. content = e ++ Exactly(u) ++ Exactly(c) ++ Exactly(16) ++ Exactly(23) ++ Exactly(sk) ++ Exactly(ak) ++ Exactly(an)
  BY <1>2
<1>5. EncodeExtensions(r, x) = IF x THEN EncodeStructure(StructureSize(size), inner) ELSE inner
  BY DEF EncodeExtensions
<1> HIDE DEF m, e, u, c, sk, ak, an, size, content, inner
<1>6. size \in Nat /\ StructureSize(size) \in Nat
  <2>1. size \in Nat
    BY <1>1, <1>2, <1>3
  <2>2. QED
    BY <2>1, StructureSizeBounds
<1>7. content = [written |-> e.written + rest, exact |-> e.exact]
  BY <1>1, <1>2, <1>4 DEF Exactly, ++, Emitted
<1>8. rest \in Nat /\ 69 <= rest /\ rest <= 453
  BY <1>2
<1> HIDE DEF rest
<1>9. content \in Emitted /\ content.written = e.written + rest
  BY <1>1, <1>7, <1>8 DEF Emitted
<1>10. e.written \in Nat
  BY <1>1, EmittedParts
<1>11. /\ inner \in Emitted
       /\ content.written + 2 <= inner.written /\ inner.written <= content.written + 6
  BY <1>6, <1>9, EmittedStructure DEF inner
<1>12. inner.written \in Nat /\ 85 <= inner.written /\ inner.written <= 16959
  BY <1>1, <1>8, <1>9, <1>10, <1>11, EmittedParts
<1>13. /\ EncodeStructure(StructureSize(size), inner) \in Emitted
       /\ inner.written + 2 <= EncodeStructure(StructureSize(size), inner).written
       /\ EncodeStructure(StructureSize(size), inner).written <= inner.written + 6
  BY <1>6, <1>11, EmittedStructure
<1>14. /\ EncodeExtensions(r, x) \in Emitted
       /\ 85 <= EncodeExtensions(r, x).written /\ EncodeExtensions(r, x).written <= 17000
  <2>1. CASE x
    <3> DEFINE outer == EncodeStructure(StructureSize(size), inner)
    <3>1. outer.written \in Nat
      BY <1>13, EmittedParts
    <3>2. EncodeExtensions(r, x) = outer
      BY <1>5, <2>1
    <3> HIDE DEF outer
    <3>3. 85 <= outer.written /\ outer.written <= 17000
      BY <1>12, <1>13, <3>1 DEF outer
    <3>4. QED
      BY <1>13, <3>2, <3>3 DEF outer
  <2>2. CASE ~x
    BY <1>5, <1>11, <1>12, <2>2
  <2>3. QED
    BY <2>1, <2>2
<1>15. ASSUME SameWidths(r)
       PROVE  inner = Exactly(StructureSize(size))
  <2>1. e = Exactly(m)
    BY <1>1, <1>15
  <2>2. e.written = m /\ e.exact = TRUE
    BY <1>1, <2>1, EmittedParts
  <2>3. m + rest = size
    BY <1>1, <1>2, <1>3 DEF rest
  <2>4. content = Exactly(size)
    BY <1>7, <2>2, <2>3 DEF Exactly
  <2>5. QED
    BY <1>6, <2>4, ExactParts DEF inner
<1>16. ASSUME SameWidths(r)
       PROVE  EncodeStructure(StructureSize(size), inner) = Exactly(StructureSize(StructureSize(size)))
  BY <1>6, <1>15, <1>16, ExactParts
<1>17. StructureSize(StructureSize(size)) \in Nat
  BY <1>6, StructureSizeBounds
<1>18. SameWidths(r) => EncodeExtensions(r, x).exact = TRUE
  BY <1>5, <1>6, <1>15, <1>16, <1>17, EmittedParts
<1>19. SameWidths(r) /\ ~x => EncodeExtensions(r, x) = Exactly(StructureSize(ExtensionsSize(r, x)))
  BY <1>5, <1>15 DEF size
<1>20. ExtensionsSize(r, x) \in Nat
  BY <1>6 DEF size
<1>21. QED
  BY <1>14, <1>18, <1>19, <1>20 DEF Fits, ExtensionsFit

(***************************************************************************)
(* How many bytes the attributes of a CSR take.                            *)
(***************************************************************************)
AttributesFit(e) == Fits(e, 100, 17100)

(***************************************************************************)
(* encode_attributes wraps the extensions of a CSR: what is declared for   *)
(* them is what is written.                                                *)
(***************************************************************************)
LEMMA AttributesEncoded ==
  ASSUME NEW r \in Request, WithinHandles(r)
  PROVE  /\ AttributesFit(EncodeAttributes(r))
         /\ SameWidths(r) => EncodeAttributes(r).exact = TRUE
<1> DEFINE e == EncodeExtensions(r, FALSE)
           k == ExtensionsSize(r, FALSE)
           n == StructureSize(k)
           size == AttributeSize(r)
           value == EncodeStructure(n, e)
           content == Exactly(11) ++ value
           inner == EncodeStructure(size, content)
<1>1. k \in Nat /\ ExtensionsFit(e) /\ (SameWidths(r) => e = Exactly(n))
  <2>1. FALSE \in BOOLEAN
    OBVIOUS
  <2>2. ExtensionsFit(e) /\ k \in Nat
    BY <2>1, ExtensionsEncoded, Zenon
  <2>3. SameWidths(r) => e = Exactly(n)
    BY <2>1, ExtensionsEncoded, Zenon
  <2>4. QED
    BY <2>2, <2>3
<1>2. AttributeSize(r) = StructureSize(OID_PKCS) + StructureSize(n)
  BY DEF AttributeSize
<1>3. EncodeAttributes(r) =
        EncodeStructure(StructureSize(size), EncodeStructure(size, EncodeTlv(OID_PKCS) ++ value))
  BY DEF EncodeAttributes
<1> HIDE DEF e, k
<1>4. e \in Emitted /\ 85 <= e.written /\ e.written <= 17000
  BY <1>1 DEF Fits, ExtensionsFit
<1>5. n \in Nat
  BY <1>1, StructureSizeBounds
<1>6. StructureSize(OID_PKCS) = 11 /\ EncodeTlv(OID_PKCS) = Exactly(11)
  <2>1. StructureSize(9) = 11
    BY StructureSizeOfShort
  <2>2. QED
    BY <2>1, ExactParts DEF OID_PKCS
<1>7. size = 11 + StructureSize(n)
  BY <1>6, <1>2
<1>8. EncodeAttributes(r) = EncodeStructure(StructureSize(size), inner)
  BY <1>6, <1>3
<1> HIDE DEF n, size, value, content, inner
<1>9. size \in Nat /\ StructureSize(size) \in Nat
  <2>1. size \in Nat
    <3>1. StructureSize(n) \in Nat
      BY <1>5, StructureSizeBounds
    <3>2. QED
      BY <1>7, <3>1
  <2>2. QED
    BY <2>1, StructureSizeBounds
<1>10. value \in Emitted /\ value.written \in Nat /\ e.written + 2 <= value.written /\ value.written <= e.written + 6
  BY <1>5, <1>4, EmittedStructure, EmittedParts DEF value
<1>11. content \in Emitted /\ content.written = 11 + value.written
  <2>1. Exactly(11) \in Emitted /\ Exactly(11).written = 11
    BY EmittedParts
  <2>2. QED
    BY <1>10, <2>1, EmittedParts DEF content
<1>12. inner \in Emitted /\ inner.written \in Nat /\ content.written + 2 <= inner.written /\ inner.written <= content.written + 6
  BY <1>9, <1>11, EmittedStructure, EmittedParts DEF inner
<1>13. /\ EncodeAttributes(r) \in Emitted /\ EncodeAttributes(r).written \in Nat
       /\ inner.written + 2 <= EncodeAttributes(r).written
       /\ EncodeAttributes(r).written <= inner.written + 6
  BY <1>8, <1>9, <1>12, EmittedStructure, EmittedParts
<1>14. e.written \in Nat
  BY <1>4, EmittedParts
<1>15. 100 <= EncodeAttributes(r).written /\ EncodeAttributes(r).written <= 17100
  BY <1>10, <1>11, <1>12, <1>13, <1>14, <1>4
<1>16. ASSUME SameWidths(r) PROVE EncodeAttributes(r).exact = TRUE
  <2>1. value = Exactly(StructureSize(n)) /\ StructureSize(n) \in Nat
    BY <1>1, <1>5, <1>16, ExactParts, StructureSizeBounds DEF value
  <2>2. content = Exactly(size)
    BY <1>7, <2>1, ExactParts DEF content
  <2>3. inner = Exactly(StructureSize(size))
    BY <1>9, <2>2, ExactParts DEF inner
  <2>4. EncodeAttributes(r) = Exactly(StructureSize(StructureSize(size)))
    BY <1>8, <1>9, <2>3, ExactParts
  <2>5. StructureSize(StructureSize(size)) \in Nat
    BY <1>9, StructureSizeBounds
  <2>6. QED
    BY <2>4, <2>5, EmittedParts
<1>17. AttributesFit(EncodeAttributes(r))
  BY <1>13, <1>15 DEF Fits, AttributesFit
<1>18. QED
  BY <1>16, <1>17, Zenon

(***************************************************************************)
(* encode_version and encode_validity are exact.                           *)
(***************************************************************************)
LEMMA ExactVersionAndValidity ==
  EncodeVersion = Exactly(5) /\ EncodeValidity = Exactly(36)
<1>1. StructureSize(1) = 3 /\ StructureSize(3) = 5 /\ StructureSize(15) = 17 /\ StructureSize(34) = 36
  BY StructureSizeOfShort
<1>2. EncodeStructure(3, Exactly(3)) = Exactly(5)
  BY <1>1, ExactParts
<1>3. EncodeVersion = EncodeStructure(StructureSize(1), EncodeIntegerBytes(SmallInteger))
  BY SmallIntegerIsOne DEF EncodeVersion
<1>4. EncodeVersion = Exactly(5)
  BY <1>1, <1>2, <1>3, SmallIntegerIsOne
<1>5. EncodeStructure(34, EncodeTlv(15) ++ EncodeTlv(15)) = Exactly(36)
  BY <1>1, ExactPair
<1>6. EncodeValidity = Exactly(36)
  BY <1>1, <1>5 DEF EncodeValidity, GENERALIZED_TIME
<1>7. QED
  BY <1>4, <1>6
=============================================================================
