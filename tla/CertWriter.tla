----------------------------- MODULE CertWriter -----------------------------
(***************************************************************************)
(* CertWriter of dpe/src/x509.rs at work on one certificate or CSR.  The   *)
(* writer does not know the size of an outer structure when it begins it:  *)
(* it skips the length field, pushes where it is, and comes back when the  *)
(* content is written.  Between the two it hands ranges of the buffer it   *)
(* has written to sign_cb.                                                 *)
(*                                                                         *)
(* Actions are the stretches of encode_certificate and encode_cms between  *)
(* two calls of one another or of sign_cb.  A writer never waits; it is    *)
(* dropped when it is done.                                                *)
(***************************************************************************)
EXTENDS CertEncoding

CONSTANT Requests   \* the certificates and CSRs asked for

ASSUME RequestsAssumption ==
  /\ Requests \subseteq Request
  /\ \A r \in Requests : Len(r.svns) <= MAX_HANDLES

MAX_BACKTRACKS == 10
SIZE_TAG_OFFSET == 3
None == -1

VARIABLES
  request,   \* the arguments of generate_cert_or_csr
  pc,        \* the next stretch
  writer,    \* the CertWriter, and what it has done to the buffer
  count      \* the local variables that count bytes

vars == <<request, pc, writer, count>>

Errors == {"Ok", "X509SkipsExhausted", "X509InvalidState", "X509InvalidWidth", "X509CsrUnset",
           "CertSizeOverflow", "Crypto"}

(***************************************************************************)
(* The log has one entry for each run of bytes written, for each length    *)
(* field backfilled (with the position its structure then ends at, and     *)
(* the one the writer had got to) and for each range signed.               *)
(***************************************************************************)
NewWriter ==
  [ offset |-> 0, backtracks |-> << >>, saved_offset |-> None, csr_range |-> << >>,
    error |-> "Ok", exact |-> TRUE, log |-> << >> ]

Entry(op, from, to, reach, end) ==
  [op |-> op, from |-> from, to |-> to, reach |-> reach, end |-> end]

Fail(w, error) == [w EXCEPT !.error = error]

(***************************************************************************)
(* Every step of the writer is skipped once one has failed (`?`).          *)
(***************************************************************************)
IfOk(w, next) == IF w.error = "Ok" THEN next ELSE w

-----------------------------------------------------------------------------
(***************************************************************************)
(* The buffer.  write_at may refuse bytes, which goes unnoticed until      *)
(* check_not_truncated.                                                    *)
(***************************************************************************)
Emit(w, e) ==
  LET to == w.offset + e.written
  IN  IfOk(w, [w EXCEPT !.offset = to, !.exact = @ /\ e.exact,
                        !.log = Append(@, Entry("write", w.offset, to, to, to))])

(***************************************************************************)
(* Mutant of CheckNotTruncated: a byte too many goes unnoticed.            *)
(***************************************************************************)
CheckNotTruncatedByOne(w) ==
  IfOk(w, IF w.offset > request.capacity + 1 THEN Fail(w, "CertSizeOverflow") ELSE w)

CheckNotTruncated(w) ==
  IfOk(w, IF w.offset > request.capacity THEN Fail(w, "CertSizeOverflow") ELSE w)

-----------------------------------------------------------------------------
(***************************************************************************)
(* Backtracking.                                                           *)
(***************************************************************************)
PushBacktrack(w) ==
  IfOk(w, IF Len(w.backtracks) = MAX_BACKTRACKS
          THEN Fail(w, "X509SkipsExhausted")
          ELSE [w EXCEPT !.backtracks = Append(@, <<w.offset, w.offset + SIZE_TAG_OFFSET>>),
                         !.offset = @ + SIZE_TAG_OFFSET])

(***************************************************************************)
(* One turn of the loop of backtrack_and_encode_size.                      *)
(***************************************************************************)
PopAndEncodeSize(w, size) ==
  LET range == Last(w.backtracks)
      to    == range[1] + SizeWidth(size)
  IN  IfOk(w,
        IF w.saved_offset = None \/ w.backtracks = << >> THEN Fail(w, "X509InvalidState")
        ELSE IF range[2] - range[1] # SizeWidth(size) THEN Fail(w, "X509InvalidWidth")
        ELSE [w EXCEPT !.backtracks = Front(@), !.offset = to,
                       !.log = Append(@, Entry("size", range[1], to, to + size, w.saved_offset))])

StartBacktrack(w) ==
  IfOk(w, IF w.saved_offset # None THEN Fail(w, "X509InvalidState")
          ELSE [w EXCEPT !.saved_offset = w.offset])

(***************************************************************************)
(* Mutants of EndBacktrack: the saved offset is cleared before it is used, *)
(* or not at all.                                                          *)
(***************************************************************************)
EndBacktrackCleared(w) == IfOk(w, [w EXCEPT !.saved_offset = None, !.offset = None])

EndBacktrackUncleared(w) == IfOk(w, [w EXCEPT !.offset = w.saved_offset])

EndBacktrack(w) ==
  IfOk(w, [w EXCEPT !.offset = w.saved_offset, !.saved_offset = None])

BacktrackAndEncodeSize(w, sizes) ==
  LET turn[n \in 0 .. Len(sizes)] ==
        IF n = 0 THEN StartBacktrack(w) ELSE PopAndEncodeSize(turn[n - 1], sizes[n])
  IN  EndBacktrack(turn[Len(sizes)])

(***************************************************************************)
(* A tag and the length field skipped behind it.                           *)
(***************************************************************************)
Open(w) == PushBacktrack(Emit(w, EncodeBytes(1)))

(***************************************************************************)
(* sign_cb for the bytes from..to.  ok is whether the crypto layer signs.  *)
(***************************************************************************)
SignRange(w, from, to, ok) ==
  IfOk(w, IF ok THEN [w EXCEPT !.log = Append(@, Entry("sign", from, to, to, to))]
          ELSE Fail(w, "Crypto"))

-----------------------------------------------------------------------------
IsCsr == request.format = "Csr"

Init ==
  /\ request \in Requests
  /\ pc = IF IsCsr THEN "BeginCms" ELSE "PayloadHead"
  /\ writer = NewWriter
  /\ count = [ content_info |-> 0, signed_data |-> 0, encap |-> 0, csr_start |-> 0,
               payload_start |-> 0, payload |-> 0, signed_payload |-> 0, total |-> 0 ]

(***************************************************************************)
(* To the next stretch, unless the writer has failed.                      *)
(***************************************************************************)
GoOn(w, c, next) ==
  /\ writer' = w
  /\ count' = c
  /\ pc' = IF w.error = "Ok" THEN next ELSE "Done"
  /\ UNCHANGED request

(***************************************************************************)
(* encode_cms down to encode_encapsulated_content_info: ContentInfo, its   *)
(* [0], and SignedData.  The prefixes count the length fields they skip.   *)
(***************************************************************************)
BeginCms ==
  LET id      == EncodeTlv(OID_PKCS)
      version == EncodeCmsVersion
      digests == EncodeStructure(StructureSize(HashAlgIdSize), EncodeHashAlgId)
      w       == Emit(Open(Open(Emit(Open(writer), id))), version ++ digests)
  IN  /\ pc = "BeginCms"
      /\ GoOn(w, [count EXCEPT !.content_info = id.written + 1 + SIZE_TAG_OFFSET,
                               !.signed_data = version.written + digests.written],
              "BeginEncap")

(***************************************************************************)
(* encode_encapsulated_content_info down to encode_csr.  Only the tags of  *)
(* [0] and of the OCTET STRING are counted for now.                        *)
(***************************************************************************)
BeginEncap ==
  LET id == EncodeTlv(OID_PKCS)
      w  == Open(Open(Emit(Open(writer), id)))
  IN  /\ pc = "BeginEncap"
      /\ GoOn(w, [count EXCEPT !.encap = id.written + 1 + 1, !.csr_start = w.offset],
              "PayloadHead")

-----------------------------------------------------------------------------
(***************************************************************************)
(* encode_tbs and encode_certification_request_info up to encode_rdn,      *)
(* which checks for truncation.                                            *)
(***************************************************************************)
PayloadHeadBytes ==
  IF IsCsr
  THEN EncodeIntegerBytes(SmallInteger) ++ EncodeRdn(request)
  ELSE EncodeVersion ++ EncodeIntegerBytes(Integer(20, 0, FALSE)) ++ EncodeSigAlgId(request)
         ++ EncodeBytes(request.issuer_name) ++ EncodeValidity ++ EncodeRdn(request)

PayloadTailBytes ==
  EncodePubKeyInfo(request) ++
    IF IsCsr THEN EncodeAttributes(request) ELSE EncodeExtensions(request, TRUE)

EncodePayloadHead ==
  LET envelope == Open(writer)
  IN  /\ pc = "PayloadHead"
      /\ GoOn(CheckNotTruncated(Emit(Open(envelope), PayloadHeadBytes)),
              [count EXCEPT !.payload_start = envelope.offset,
                            !.payload = PayloadHeadBytes.written],
              "PayloadTail")

(***************************************************************************)
(* Mutant of EncodePayloadTail: the bytes returned leave out the prefix.   *)
(***************************************************************************)
EncodePayloadTailBare ==
  LET body == count.payload + PayloadTailBytes.written
      w    == BacktrackAndEncodeSize(Emit(writer, PayloadTailBytes), <<body>>)
  IN  /\ pc = "PayloadTail"
      /\ GoOn(CheckNotTruncated(w), [count EXCEPT !.payload = body], "SignPayload")

EncodePayloadTail ==
  LET body == count.payload + PayloadTailBytes.written
      w    == BacktrackAndEncodeSize(Emit(writer, PayloadTailBytes), <<body>>)
  IN  /\ pc = "PayloadTail"
      /\ GoOn(CheckNotTruncated(w), [count EXCEPT !.payload = 1 + SizeWidth(body) + body],
              "SignPayload")

(***************************************************************************)
(* encode_signed_payload signs the payload, appends the signature and      *)
(* closes the envelope around both.                                        *)
(***************************************************************************)
SignPayload(ok) ==
  /\ pc = "SignPayload"
  /\ GoOn(SignRange(writer, count.payload_start, count.payload_start + count.payload, ok),
          count, "AppendSignature")

AppendSignature ==
  LET sig  == EncodeSignatureBitString(request)
      body == count.payload + sig.written
      all  == body + 1 + SizeWidth(body)
      w    == BacktrackAndEncodeSize(Emit(writer, sig), <<body>>)
  IN  /\ pc = "AppendSignature"
      /\ GoOn(CheckNotTruncated(w),
              [count EXCEPT !.signed_payload = all, !.total = IF IsCsr THEN 0 ELSE all],
              IF IsCsr THEN "EndEncap" ELSE "Done")

-----------------------------------------------------------------------------
(***************************************************************************)
(* Mutant of EndEncap: the sizes of [0] and of the OCTET STRING are not    *)
(* counted in those of what holds them.                                    *)
(***************************************************************************)
EndEncapUncounted ==
  LET csr    == count.signed_payload
      inner  == BacktrackAndEncodeSize(writer, <<csr, StructureSize(csr)>>)
      all    == count.encap + csr
      w      == BacktrackAndEncodeSize(inner, <<all>>)
  IN  /\ pc = "EndEncap"
      /\ GoOn([w EXCEPT !.csr_range = <<count.csr_start, count.csr_start + csr>>],
              [count EXCEPT !.signed_data = @ + 1 + SizeWidth(all) + all], "SignCsr")

(***************************************************************************)
(* The rest of encode_encapsulated_content_info: the OCTET STRING and [0]  *)
(* are closed, then the SEQUENCE, which has their length fields in it.     *)
(***************************************************************************)
EndEncap ==
  LET csr    == count.signed_payload
      inner  == BacktrackAndEncodeSize(writer, <<csr, StructureSize(csr)>>)
      all    == count.encap + SizeWidth(csr) + SizeWidth(StructureSize(csr)) + csr
      w      == BacktrackAndEncodeSize(inner, <<all>>)
  IN  /\ pc = "EndEncap"
      /\ GoOn([w EXCEPT !.csr_range = <<count.csr_start, count.csr_start + csr>>],
              [count EXCEPT !.signed_data = @ + 1 + SizeWidth(all) + all], "SignCsr")

(***************************************************************************)
(* The rest of encode_cms: the CSR is signed, and the signature is part of *)
(* the SignerInfo.                                                         *)
(***************************************************************************)
SignCsr(ok) ==
  /\ pc = "SignCsr"
  /\ GoOn(IF writer.csr_range = << >> THEN Fail(writer, "X509CsrUnset")
          ELSE SignRange(writer, writer.csr_range[1], writer.csr_range[2], ok),
          count, "EndCms")

EndCms ==
  LET infos   == EncodeStructure(StructureSize(SignerInfoSize(request)), EncodeSignerInfo(request))
      field_1 == count.signed_data + infos.written
      field_0 == 1 + SIZE_TAG_OFFSET + field_1
      content == count.content_info + field_0
      w       == BacktrackAndEncodeSize(CheckNotTruncated(Emit(writer, infos)),
                                        <<field_1, field_0, content>>)
      emptied == IfOk(w, IF w.backtracks # << >> THEN Fail(w, "X509InvalidState") ELSE w)
  IN  /\ pc = "EndCms"
      /\ GoOn(CheckNotTruncated(emptied),
              [count EXCEPT !.total = 1 + SIZE_TAG_OFFSET + content], "Done")

Next ==
  \/ BeginCms
  \/ BeginEncap
  \/ EncodePayloadHead
  \/ EncodePayloadTail
  \/ \E ok \in BOOLEAN : SignPayload(ok)
  \/ AppendSignature
  \/ EndEncap
  \/ \E ok \in BOOLEAN : SignCsr(ok)
  \/ EndCms

Spec == Init /\ [][Next]_vars

-----------------------------------------------------------------------------
(***************************************************************************)
(* Types.  The offset moves by whole fields, and the skipped length fields *)
(* are three bytes that lie behind it.                                     *)
(***************************************************************************)
TypeOK ==
  /\ request \in Requests
  /\ pc \in {"BeginCms", "BeginEncap", "PayloadHead", "PayloadTail", "SignPayload",
             "AppendSignature", "EndEncap", "SignCsr", "EndCms", "Done"}
  /\ writer.error \in Errors /\ writer.exact \in BOOLEAN
  /\ writer.offset \in Nat
  /\ writer.saved_offset \in Nat \cup {None}
  /\ Len(writer.backtracks) <= MAX_BACKTRACKS
  /\ \A b \in Range(writer.backtracks) : b[2] = b[1] + SIZE_TAG_OFFSET
  /\ \A local \in DOMAIN count : count[local] \in Nat

Succeeded == pc = "Done" /\ writer.error = "Ok"

Writes == {i \in DOMAIN writer.log : writer.log[i].op # "sign"}

(***************************************************************************)
(* The writes in W fill from..to: they lie in it, do not overlap, and      *)
(* leave no gap, which is to say that one begins wherever one ends.        *)
(***************************************************************************)
Fill(W, from, to) ==
  LET log == writer.log
  IN  /\ \A i \in W : from <= log[i].from /\ log[i].from < log[i].to /\ log[i].to <= to
      /\ \A i, j \in W : i # j => log[i].to <= log[j].from \/ log[j].to <= log[i].from
      /\ {from} \cup {log[i].to : i \in W} = {log[i].from : i \in W} \cup {to}

(***************************************************************************)
(* A length field that was skipped says, once the writer has come back to  *)
(* it, where the writer had got to: the counts of bytes that every layer   *)
(* sums and passes on are those of the buffer.                             *)
(***************************************************************************)
SizesReachTheEnd ==
  \A i \in Writes : writer.log[i].reach = writer.log[i].end

(***************************************************************************)
(* sign_cb is given a range that is complete: every byte of it is in the   *)
(* buffer, once, the skipped length fields among them, and no byte of it   *)
(* is written again after it has been signed.                              *)
(***************************************************************************)
SignedRangesAreFinal ==
  \A s \in DOMAIN writer.log \ Writes :
    LET signed  == writer.log[s]
        inRange == {i \in Writes : writer.log[i].from < signed.to /\ signed.from < writer.log[i].to}
    IN  /\ signed.to <= request.capacity
        /\ \A i \in inRange : i < s
        /\ Fill(inRange, signed.from, signed.to)

(***************************************************************************)
(* A writer that succeeds has filled the buffer from its start for as many *)
(* bytes as it says, without a gap and within the buffer, although a write *)
(* that does not fit is noticed only later.                                *)
(***************************************************************************)
OutputIsComplete ==
  Succeeded =>
    /\ count.total <= request.capacity
    /\ Fill(Writes, 0, count.total)
    /\ writer.backtracks = << >>

(***************************************************************************)
(* "Currently all size skips are always 255 < size < 65535": neither the   *)
(* three bytes nor the stack of skips is ever wrong for what is encoded.   *)
(***************************************************************************)
SkipsAreWide ==
  writer.error \notin {"X509SkipsExhausted", "X509InvalidState", "X509InvalidWidth", "X509CsrUnset"}

(***************************************************************************)
(* Every length declared in advance is that of what is written, provided   *)
(* the svns of the lineage take as many bytes as that of slot 0.           *)
(***************************************************************************)
EqualSvnWidths ==
  \A i \in DOMAIN request.svns :
    IntegerBytesSize(request.svns[i]) = IntegerBytesSize(request.slot0)

SizesAreExactForEqualSvns == EqualSvnWidths => writer.exact

(***************************************************************************)
(* get_multi_tcb_info_size: "Get the size of a tcg-dice-MultiTcbInfo       *)
(* extension", computed from the "Size of concatenated tcb infos": lengths *)
(* declared in advance are those of what is written, whatever the svns.    *)
(***************************************************************************)
SizesAreExact == writer.exact
=============================================================================
