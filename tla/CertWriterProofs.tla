-------------------------- MODULE CertWriterProofs --------------------------
(***************************************************************************)
(* Theorems about the certificate writer, for every set of requests whose  *)
(* lineages have at most MAX_HANDLES contexts.                             *)
(*                                                                         *)
(* The argument: the writes in the log and the skips that are pending are  *)
(* a chain of ranges without overlap or gap from the start of the buffer   *)
(* to where the writer is (Sound). Each stretch of code begins at a place  *)
(* that is known up to the bytes counted so far, with a known stack of     *)
(* skips (At). A call of backtrack_and_encode_size fills in the last skips *)
(* of the stack with sizes that reach to the writer's position (Measured), *)
(* and as every size is between 256 and 65535, each takes the three bytes  *)
(* it was left.                                                            *)
(***************************************************************************)
EXTENDS CertWriter, CertEncodingProofs, TLAPS

(***************************************************************************)
(* The serial number of a certificate, twenty bytes whose first bit        *)
(* encode_tbs clears.                                                      *)
(***************************************************************************)
LEMMA SerialOfCertificate ==
  EncodeIntegerBytes(Integer(20, 0, FALSE)) = Exactly(22)
<1> DEFINE n == Integer(20, 0, FALSE)
<1>1. n \in BigEndian /\ IntegerBytesSize(n) = 20
  BY DEF Integer, BigEndian, IntegerBytesSize, LeadingZeros
<1> HIDE DEF n
<1>2. EncodeIntegerBytes(n) = Exactly(StructureSize(20))
  BY <1>1, ExactInteger
<1>3. StructureSize(20) = 22
  BY StructureSizeOfShort
<1>4. QED
  BY <1>2, <1>3 DEF n

(***************************************************************************)
(* The first stretch of encode_tbs and encode_certification_request_info   *)
(* is exact, and neither empty nor long.                                   *)
(***************************************************************************)
LEMMA PayloadHeadEncoded ==
  ASSUME request \in Request
  PROVE  \E n \in Nat : PayloadHeadBytes = Exactly(n) /\ 99 <= n /\ n <= 500
<1>1. PICK rdn \in Nat : EncodeRdn(request) = Exactly(rdn) /\ 96 <= rdn /\ rdn <= 200
  BY ExactRdn
<1>2. CASE IsCsr
  <2>1. PayloadHeadBytes = Exactly(3) ++ Exactly(rdn)
    BY <1>1, <1>2, SmallIntegerIsOne DEF PayloadHeadBytes
  <2>2. Exactly(3) ++ Exactly(rdn) = Exactly(3 + rdn)
    BY ExactParts
  <2>3. 3 + rdn \in Nat /\ 99 <= 3 + rdn /\ 3 + rdn <= 500
    BY <1>1
  <2>4. QED
    BY <2>1, <2>2, <2>3
<1>3. CASE ~IsCsr
  <2> DEFINE alg == StructureSize(SigAlgIdSize(request))
             name == request.issuer_name
  <2>1. alg \in Nat /\ alg <= 17 /\ EncodeSigAlgId(request) = Exactly(alg)
    BY ExactSigAlgId, StructureSizeBounds
  <2>2. name \in Nat /\ name <= 128 /\ EncodeBytes(name) = Exactly(name)
    BY RequestFields, ExactParts
  <2>3. PayloadHeadBytes =
          Exactly(5) ++ Exactly(22) ++ Exactly(alg) ++ Exactly(name) ++ Exactly(36) ++ Exactly(rdn)
    BY <1>1, <1>3, <2>1, <2>2, SerialOfCertificate, ExactVersionAndValidity DEF PayloadHeadBytes
  <2> HIDE DEF alg, name
  <2>4. Exactly(5) ++ Exactly(22) ++ Exactly(alg) ++ Exactly(name) ++ Exactly(36) ++ Exactly(rdn)
          = Exactly(63 + alg + name + rdn)
    <3>1. Exactly(5) ++ Exactly(22) = Exactly(27)
      BY ExactParts
    <3>2. PICK a \in Nat : a = 27 + alg /\ Exactly(27) ++ Exactly(alg) = Exactly(a)
      BY <2>1, ExactParts
    <3>3. PICK b \in Nat : b = a + name /\ Exactly(a) ++ Exactly(name) = Exactly(b)
      BY <2>2, ExactParts
    <3>4. PICK c \in Nat : c = b + 36 /\ Exactly(b) ++ Exactly(36) = Exactly(c)
      BY ExactParts
    <3>5. PICK d \in Nat : d = c + rdn /\ Exactly(c) ++ Exactly(rdn) = Exactly(d)
      BY ExactParts
    <3>6. d = 63 + alg + name + rdn
      BY <2>1, <2>2, <3>2, <3>3, <3>4, <3>5
    <3>7. QED
      BY <3>1, <3>2, <3>3, <3>4, <3>5, <3>6
  <2>5. 63 + alg + name + rdn \in Nat /\ 99 <= 63 + alg + name + rdn /\ 63 + alg + name + rdn <= 500
    BY <1>1, <2>1, <2>2
  <2>6. QED
    BY <2>3, <2>4, <2>5
<1>4. QED
  BY <1>2, <1>3

(***************************************************************************)
(* How many bytes the second stretch of a payload takes.                   *)
(***************************************************************************)
TailFits(e) == Fits(e, 176, 20000)

(***************************************************************************)
(* The second stretch, with the extensions or attributes: long enough for  *)
(* a three-byte length field and short enough for one.                     *)
(***************************************************************************)
LEMMA PayloadTailEncoded ==
  ASSUME request \in Request, WithinHandles(request)
  PROVE  TailFits(PayloadTailBytes) /\ (SameWidths(request) => PayloadTailBytes.exact)
<1> DEFINE yes == TRUE
           e == IF IsCsr THEN EncodeAttributes(request) ELSE EncodeExtensions(request, yes)
<1>1. PICK key \in Nat : EncodePubKeyInfo(request) = Exactly(key) /\ 91 <= key /\ key <= 2700
  BY ExactPubKeyInfo
<1>2. PayloadTailBytes = EncodePubKeyInfo(request) ++ e
  BY DEF PayloadTailBytes
<1>3. ExtensionsFit(EncodeExtensions(request, yes)) /\ (SameWidths(request) => EncodeExtensions(request, yes).exact)
  <2>1. yes \in BOOLEAN /\ yes
    OBVIOUS
  <2> HIDE DEF yes
  <2>2. ExtensionsFit(EncodeExtensions(request, yes))
    BY <2>1, ExtensionsEncoded, Zenon
  <2>3. SameWidths(request) => EncodeExtensions(request, yes).exact
    BY <2>1, ExtensionsEncoded, Zenon
  <2>4. QED
    BY <2>2, <2>3
<1>4. AttributesFit(EncodeAttributes(request)) /\ (SameWidths(request) => EncodeAttributes(request).exact)
  BY AttributesEncoded, Zenon
<1> HIDE DEF yes
<1>5. /\ e \in Emitted /\ 85 <= e.written /\ e.written <= 17100
      /\ SameWidths(request) => e.exact
  <2>1. CASE IsCsr
    <3>1. e = EncodeAttributes(request)
      BY <2>1
    <3>2. AttributesFit(e) /\ (SameWidths(request) => e.exact)
      BY <1>4, <3>1, Zenon
    <3> HIDE DEF e
    <3>3. e.written \in Nat
      BY <3>2, EmittedParts DEF Fits, AttributesFit
    <3>4. QED
      BY <3>2, <3>3 DEF Fits, AttributesFit
  <2>2. CASE ~IsCsr
    <3>1. e = EncodeExtensions(request, yes)
      BY <2>2
    <3>2. ExtensionsFit(e) /\ (SameWidths(request) => e.exact)
      BY <1>3, <3>1, Zenon
    <3> HIDE DEF e
    <3>3. e.written \in Nat
      BY <3>2, EmittedParts DEF Fits, ExtensionsFit
    <3>4. QED
      BY <3>2, <3>3 DEF Fits, ExtensionsFit
  <2>3. QED
    BY <2>1, <2>2
<1> HIDE DEF e
<1>6. /\ PayloadTailBytes \in Emitted /\ PayloadTailBytes.written = key + e.written
      /\ e.written \in Nat
  BY <1>1, <1>2, <1>5, EmittedParts
<1>7. TailFits(PayloadTailBytes)
  BY <1>1, <1>5, <1>6 DEF Fits, TailFits
<1>8. PayloadTailBytes.exact = e.exact
  BY <1>1, <1>2, <1>5 DEF ++, Exactly, Emitted
<1>9. QED
  BY <1>5, <1>7, <1>8

-----------------------------------------------------------------------------
(***************************************************************************)
(* Entries of the writer's log.                                            *)
(***************************************************************************)
LogEntry == [op : {"write", "size", "sign"}, from : Nat, to : Nat, reach : Nat, end : Nat]

(***************************************************************************)
(* The fields of a CertWriter.                                             *)
(***************************************************************************)
WriterRecord ==
  [ offset : Nat, backtracks : Seq(Nat \X Nat), saved_offset : Nat \cup {None},
    csr_range : Seq(Nat), error : Errors, exact : BOOLEAN, log : Seq(LogEntry) ]

(***************************************************************************)
(* The entries that wrote to the buffer.                                   *)
(***************************************************************************)
WritesOf(log) == {i \in DOMAIN log : log[i].op # "sign"}

(***************************************************************************)
(* Each pending skip is three bytes behind the writer, and a later one     *)
(* lies behind an earlier one.                                             *)
(***************************************************************************)
SkipsLieApart(w) ==
  LET skips == w.backtracks
  IN  /\ \A j \in DOMAIN skips : skips[j][2] = skips[j][1] + 3 /\ skips[j][2] <= w.offset
      /\ \A i, j \in DOMAIN skips : i < j => skips[i][2] <= skips[j][1]

(***************************************************************************)
(* Writes do not overlap each other or a pending skip.                     *)
(***************************************************************************)
WritesLieApart(w) ==
  LET log == w.log
  IN  /\ \A i \in WritesOf(log) : log[i].from < log[i].to /\ log[i].to <= w.offset
      /\ \A i, j \in WritesOf(log) : i # j => log[i].to <= log[j].from \/ log[j].to <= log[i].from
      /\ \A i \in WritesOf(log), j \in DOMAIN w.backtracks :
           log[i].to <= w.backtracks[j][1] \/ w.backtracks[j][2] <= log[i].from

(***************************************************************************)
(* Every length filled in is that of what it stands before.                *)
(***************************************************************************)
WritesReachTheEnd(w) == \A i \in WritesOf(w.log) : w.log[i].reach = w.log[i].end

(***************************************************************************)
(* Where a write or a pending skip begins.                                 *)
(***************************************************************************)
Starts(w) ==
  {w.log[i].from : i \in WritesOf(w.log)} \cup {w.backtracks[j][1] : j \in DOMAIN w.backtracks}
(***************************************************************************)
(* Where a write or a pending skip ends.                                   *)
(***************************************************************************)
Ends(w) ==
  {w.log[i].to : i \in WritesOf(w.log)} \cup {w.backtracks[j][2] : j \in DOMAIN w.backtracks}
(***************************************************************************)
(* Where a write or a skip may end and the next begin.                     *)
(***************************************************************************)
Boundaries(w) == {0} \cup Ends(w)

(***************************************************************************)
(* The writes and the pending skips leave no gap: wherever one ends, or at *)
(* the start of the buffer, another begins, or the writer is there.        *)
(***************************************************************************)
Chained(w) == Boundaries(w) = Starts(w) \cup {w.offset}

(***************************************************************************)
(* A range that was signed: it lies in the buffer between two boundaries,  *)
(* has no pending skip in it, and was written before.                      *)
(***************************************************************************)
Signed(r, w, s) ==
  LET log == w.log
  IN  /\ log[s].from < log[s].to /\ log[s].to <= w.offset /\ log[s].to <= r.capacity
      /\ log[s].from \in Boundaries(w) /\ log[s].to \in Boundaries(w)
      /\ \A j \in DOMAIN w.backtracks :
           w.backtracks[j][2] <= log[s].from \/ log[s].to <= w.backtracks[j][1]
      /\ \A i \in WritesOf(log) : log[i].from < log[s].to /\ log[s].from < log[i].to => i < s

(***************************************************************************)
(* What holds of the buffer at every moment, away from the inside of       *)
(* backtrack_and_encode_size.                                              *)
(***************************************************************************)
Sound(r, w) ==
  /\ SkipsLieApart(w)
  /\ WritesLieApart(w)
  /\ WritesReachTheEnd(w)
  /\ Chained(w)
  /\ \A s \in DOMAIN w.log \ WritesOf(w.log) : Signed(r, w, s)

(***************************************************************************)
(* Appending to a sequence, in the form the lemmas below need.             *)
(***************************************************************************)
LEMMA AppendFacts ==
  ASSUME NEW S, NEW seq \in Seq(S), NEW x \in S
  PROVE  /\ Append(seq, x) \in Seq(S) /\ Len(seq) \in Nat
         /\ DOMAIN seq = 1 .. Len(seq) /\ DOMAIN Append(seq, x) = 1 .. Len(seq) + 1
         /\ Len(Append(seq, x)) = Len(seq) + 1
         /\ \A i \in 1 .. Len(seq) : Append(seq, x)[i] = seq[i] /\ i \in 1 .. Len(seq) + 1
         /\ Append(seq, x)[Len(seq) + 1] = x
         /\ Len(seq) + 1 \notin DOMAIN seq /\ DOMAIN Append(seq, x) = DOMAIN seq \cup {Len(seq) + 1}
OBVIOUS

(***************************************************************************)
(* Appending an entry to the log adds it to the writes unless it is a      *)
(* signature.                                                              *)
(***************************************************************************)
LEMMA WriteAppended ==
  ASSUME NEW log \in Seq(LogEntry), NEW x \in LogEntry
  PROVE  /\ WritesOf(Append(log, x)) =
              IF x.op = "sign" THEN WritesOf(log) ELSE WritesOf(log) \cup {Len(log) + 1}
         /\ \A i \in WritesOf(log) : Append(log, x)[i] = log[i] /\ i \in DOMAIN log
         /\ Append(log, x)[Len(log) + 1] = x /\ Len(log) + 1 \notin WritesOf(log)
<1>1. \A i \in DOMAIN log : Append(log, x)[i] = log[i]
  BY AppendFacts
<1>2. Append(log, x)[Len(log) + 1] = x
  BY AppendFacts
<1>3. DOMAIN Append(log, x) = DOMAIN log \cup {Len(log) + 1} /\ Len(log) + 1 \notin DOMAIN log
  BY AppendFacts
<1> DEFINE n == Len(log) + 1
           long == Append(log, x)
<1> HIDE DEF n, long
<1>4. WritesOf(long) = IF x.op = "sign" THEN WritesOf(log) ELSE WritesOf(log) \cup {n}
  BY <1>1, <1>2, <1>3 DEF WritesOf, n, long
<1>5. QED
  BY <1>1, <1>2, <1>3, <1>4 DEF WritesOf, n, long

(***************************************************************************)
(* The types of a writer's fields.                                         *)
(***************************************************************************)
LEMMA WriterParts ==
  ASSUME NEW w \in WriterRecord
  PROVE  /\ w.offset \in Nat /\ w.log \in Seq(LogEntry) /\ w.backtracks \in Seq(Nat \X Nat)
         /\ Len(w.log) \in Nat /\ DOMAIN w.log = 1 .. Len(w.log)
         /\ Len(w.backtracks) \in Nat /\ DOMAIN w.backtracks = 1 .. Len(w.backtracks)
         /\ \A i \in DOMAIN w.log : w.log[i] \in LogEntry /\ w.log[i].from \in Nat /\ w.log[i].to \in Nat
         /\ \A i \in WritesOf(w.log) : i \in DOMAIN w.log
         /\ \A j \in DOMAIN w.backtracks : w.backtracks[j][1] \in Nat /\ w.backtracks[j][2] \in Nat
<1>1. w.offset \in Nat /\ w.log \in Seq(LogEntry) /\ w.backtracks \in Seq(Nat \X Nat)
  BY DEF WriterRecord
<1>2. \A i \in DOMAIN w.log : w.log[i] \in LogEntry
  BY <1>1
<1>3. \A i \in DOMAIN w.log : w.log[i].from \in Nat /\ w.log[i].to \in Nat
  BY <1>2 DEF LogEntry
<1>4. \A j \in DOMAIN w.backtracks : w.backtracks[j] \in Nat \X Nat
  BY <1>1
<1>5. QED
  BY <1>1, <1>2, <1>3, <1>4 DEF WritesOf

(* What an entry more means for the log. *)
Logged(w, v, x) ==
  LET n == Len(w.log) + 1
  IN  /\ n \notin DOMAIN w.log /\ (\A i \in DOMAIN w.log : i < n)
      /\ DOMAIN v.log = DOMAIN w.log \cup {n}
      /\ WritesOf(v.log) = IF x.op = "sign" THEN WritesOf(w.log) ELSE WritesOf(w.log) \cup {n}
      /\ \A i \in DOMAIN w.log : v.log[i] = w.log[i]
      /\ v.log[n] = x

(***************************************************************************)
(* An entry appended to the log, said by index.                            *)
(***************************************************************************)
LEMMA AppendLogs ==
  ASSUME NEW w \in WriterRecord, NEW v, NEW x \in LogEntry, v.log = Append(w.log, x)
  PROVE  Logged(w, v, x)
<1>1. w.log \in Seq(LogEntry)
  BY WriterParts
<1>2. Len(w.log) \in Nat /\ DOMAIN w.log = 1 .. Len(w.log)
  BY WriterParts
<1>3. \A i \in DOMAIN w.log : i < Len(w.log) + 1
  BY <1>2
<1> DEFINE n == Len(w.log) + 1
           l == w.log
<1>4. /\ DOMAIN v.log = DOMAIN l \cup {n} /\ n \notin DOMAIN l
      /\ \A i \in DOMAIN l : v.log[i] = l[i]
  <2> HIDE DEF l
  <2>1. l \in Seq(LogEntry) /\ v.log = Append(l, x)
    BY <1>1 DEF l
  <2>2. QED
    BY <2>1, AppendFacts DEF l
<1>5. WritesOf(v.log) = (IF x.op = "sign" THEN WritesOf(l) ELSE WritesOf(l) \cup {n}) /\ v.log[n] = x
  <2> HIDE DEF l
  <2>1. l \in Seq(LogEntry) /\ v.log = Append(l, x)
    BY <1>1 DEF l
  <2>2. /\ WritesOf(Append(l, x)) = (IF x.op = "sign" THEN WritesOf(l) ELSE WritesOf(l) \cup {Len(l) + 1})
        /\ Append(l, x)[Len(l) + 1] = x
    BY <2>1, WriteAppended
  <2>3. n = Len(l) + 1
    BY DEF l
  <2> HIDE DEF n
  <2>4. QED
    BY <2>1, <2>2, <2>3, Zenon
<1>6. QED
  BY <1>3, <1>4, <1>5 DEF Logged

(***************************************************************************)
(* Bytes written where the writer is keep the buffer sound.                *)
(***************************************************************************)
LEMMA WriteSound ==
  ASSUME NEW r, NEW w \in WriterRecord, NEW v \in WriterRecord, Sound(r, w),
         NEW x \in LogEntry, Logged(w, v, x),
         x.op = "write", x.from = w.offset, x.reach = x.end, w.offset < x.to,
         v.offset = x.to, v.backtracks = w.backtracks
  PROVE  Sound(r, v) /\ Boundaries(w) \subseteq Boundaries(v)
<1> DEFINE n == Len(w.log) + 1
<1>1. /\ w.offset \in Nat /\ WritesOf(w.log) \subseteq DOMAIN w.log
      /\ \A i \in DOMAIN w.log : w.log[i].from \in Nat /\ w.log[i].to \in Nat
      /\ \A j \in DOMAIN w.backtracks : w.backtracks[j][1] \in Nat /\ w.backtracks[j][2] \in Nat
      /\ x.to \in Nat
  BY WriterParts DEF LogEntry
<1>2. /\ WritesOf(v.log) = WritesOf(w.log) \cup {n} /\ n \notin WritesOf(w.log)
      /\ \A i \in WritesOf(w.log) : v.log[i] = w.log[i]
      /\ v.log[n] = x
      /\ DOMAIN v.log = DOMAIN w.log \cup {n}
      /\ \A i \in DOMAIN w.log : v.log[i] = w.log[i] /\ i < n
  BY <1>1 DEF Logged
<1> HIDE DEF n
<1>3. SkipsLieApart(v)
  BY <1>1 DEF Sound, SkipsLieApart
<1>4. WritesLieApart(v)
  <2>1. ASSUME NEW i \in WritesOf(v.log) PROVE v.log[i].from < v.log[i].to /\ v.log[i].to <= v.offset
    BY <1>1, <1>2 DEF Sound, WritesLieApart
  <2>2. ASSUME NEW i \in WritesOf(v.log), NEW j \in WritesOf(v.log), i # j
        PROVE  v.log[i].to <= v.log[j].from \/ v.log[j].to <= v.log[i].from
    BY <1>1, <1>2, <2>2 DEF Sound, WritesLieApart
  <2>3. ASSUME NEW i \in WritesOf(v.log), NEW j \in DOMAIN v.backtracks
        PROVE  v.log[i].to <= v.backtracks[j][1] \/ v.backtracks[j][2] <= v.log[i].from
    BY <1>1, <1>2 DEF Sound, WritesLieApart, SkipsLieApart
  <2>4. QED
    BY <2>1, <2>2, <2>3 DEF WritesLieApart
<1>5. WritesReachTheEnd(v)
  BY <1>2 DEF Sound, WritesReachTheEnd
<1>6. Starts(v) = Starts(w) \cup {w.offset} /\ Ends(v) = Ends(w) \cup {x.to}
  <2>1. {v.log[i].from : i \in WritesOf(v.log)} = {w.log[i].from : i \in WritesOf(w.log)} \cup {w.offset}
    BY <1>2
  <2>2. {v.log[i].to : i \in WritesOf(v.log)} = {w.log[i].to : i \in WritesOf(w.log)} \cup {x.to}
    BY <1>2
  <2> DEFINE b == {w.backtracks[j][1] : j \in DOMAIN w.backtracks}
             e == {w.backtracks[j][2] : j \in DOMAIN w.backtracks}
  <2>3. /\ Starts(v) = {v.log[i].from : i \in WritesOf(v.log)} \cup b
        /\ Ends(v) = {v.log[i].to : i \in WritesOf(v.log)} \cup e
        /\ Starts(w) = {w.log[i].from : i \in WritesOf(w.log)} \cup b
        /\ Ends(w) = {w.log[i].to : i \in WritesOf(w.log)} \cup e
    BY DEF Starts, Ends
  <2> HIDE DEF b, e
  <2>4. QED
    BY <2>1, <2>2, <2>3
<1>7. Chained(v) /\ Boundaries(w) \subseteq Boundaries(v)
  BY <1>6 DEF Sound, Chained, Boundaries
<1>8. ASSUME NEW s \in DOMAIN v.log \ WritesOf(v.log) PROVE Signed(r, v, s)
  <2>1. s \in DOMAIN w.log \ WritesOf(w.log) /\ v.log[s] = w.log[s]
    BY <1>2
  <2>2. Signed(r, w, s)
    BY <2>1 DEF Sound
  <2>3. \A i \in WritesOf(v.log) : v.log[i].from < v.log[s].to /\ v.log[s].from < v.log[i].to => i < s
    BY <1>1, <1>2, <2>1, <2>2 DEF Signed
  <2>4. v.log[s].to <= v.offset
    BY <1>1, <2>1, <2>2 DEF Signed
  <2>5. QED
    BY <1>7, <2>1, <2>2, <2>3, <2>4 DEF Signed
<1>9. QED
  BY <1>3, <1>4, <1>5, <1>7, <1>8 DEF Sound

(***************************************************************************)
(* A length field skipped where the writer is keeps it sound.              *)
(***************************************************************************)
LEMMA SkipSound ==
  ASSUME NEW r, NEW w \in WriterRecord, NEW v \in WriterRecord, Sound(r, w),
         NEW n, n \notin DOMAIN w.backtracks, \A j \in DOMAIN w.backtracks : j < n /\ ~(n < j),
         ~(n < n), DOMAIN v.backtracks = DOMAIN w.backtracks \cup {n},
         \A j \in DOMAIN w.backtracks : v.backtracks[j] = w.backtracks[j],
         v.backtracks[n] = <<w.offset, v.offset>>,
         v.offset = w.offset + 3, v.log = w.log
  PROVE  Sound(r, v) /\ Boundaries(w) \subseteq Boundaries(v)
<1>1. /\ w.offset \in Nat /\ WritesOf(w.log) \subseteq DOMAIN w.log
      /\ \A i \in DOMAIN w.log : w.log[i].from \in Nat /\ w.log[i].to \in Nat
      /\ \A j \in DOMAIN w.backtracks : w.backtracks[j][1] \in Nat /\ w.backtracks[j][2] \in Nat
  BY WriterParts
<1>2. v.backtracks[n][1] = w.offset /\ v.backtracks[n][2] = w.offset + 3
  OBVIOUS
<1>3. SkipsLieApart(v)
  <2>1. \A j \in DOMAIN v.backtracks : v.backtracks[j][2] = v.backtracks[j][1] + 3 /\ v.backtracks[j][2] <= v.offset
    BY <1>1, <1>2 DEF Sound, SkipsLieApart
  <2>2. ASSUME NEW i \in DOMAIN v.backtracks, NEW j \in DOMAIN v.backtracks, i < j
        PROVE  v.backtracks[i][2] <= v.backtracks[j][1]
    BY <1>1, <1>2, <2>2 DEF Sound, SkipsLieApart
  <2>3. QED
    BY <2>1, <2>2 DEF SkipsLieApart
<1>4. WritesLieApart(v)
  <2>1. ASSUME NEW i \in WritesOf(v.log), NEW j \in DOMAIN v.backtracks
        PROVE  v.log[i].to <= v.backtracks[j][1] \/ v.backtracks[j][2] <= v.log[i].from
    BY <1>1, <1>2 DEF Sound, WritesLieApart
  <2>2. \A i \in WritesOf(v.log) : v.log[i].from < v.log[i].to /\ v.log[i].to <= v.offset
    BY <1>1 DEF Sound, WritesLieApart
  <2>3. QED
    BY <2>1, <2>2 DEF Sound, WritesLieApart
<1>5. WritesReachTheEnd(v)
  BY DEF Sound, WritesReachTheEnd
<1>6. Starts(v) = Starts(w) \cup {w.offset} /\ Ends(v) = Ends(w) \cup {v.offset}
  <2>1. {v.backtracks[j][1] : j \in DOMAIN v.backtracks} = {w.backtracks[j][1] : j \in DOMAIN w.backtracks} \cup {w.offset}
    BY <1>2
  <2>2. {v.backtracks[j][2] : j \in DOMAIN v.backtracks} = {w.backtracks[j][2] : j \in DOMAIN w.backtracks} \cup {v.offset}
    BY <1>2
  <2> DEFINE b == {w.log[i].from : i \in WritesOf(w.log)}
             e == {w.log[i].to : i \in WritesOf(w.log)}
  <2>3. /\ Starts(v) = b \cup {v.backtracks[j][1] : j \in DOMAIN v.backtracks}
        /\ Ends(v) = e \cup {v.backtracks[j][2] : j \in DOMAIN v.backtracks}
        /\ Starts(w) = b \cup {w.backtracks[j][1] : j \in DOMAIN w.backtracks}
        /\ Ends(w) = e \cup {w.backtracks[j][2] : j \in DOMAIN w.backtracks}
    BY DEF Starts, Ends
  <2> HIDE DEF b, e
  <2>4. QED
    BY <2>1, <2>2, <2>3
<1>7. Chained(v) /\ Boundaries(w) \subseteq Boundaries(v)
  BY <1>6 DEF Sound, Chained, Boundaries
<1>8. ASSUME NEW s \in DOMAIN v.log \ WritesOf(v.log) PROVE Signed(r, v, s)
  <2>1. Signed(r, w, s) /\ s \in DOMAIN w.log
    BY DEF Sound
  <2>2. \A j \in DOMAIN v.backtracks :
           v.backtracks[j][2] <= v.log[s].from \/ v.log[s].to <= v.backtracks[j][1]
    BY <1>2, <2>1 DEF Signed
  <2>3. v.log[s].to <= v.offset
    BY <1>1, <2>1 DEF Signed
  <2>4. QED
    BY <1>7, <2>1, <2>2, <2>3 DEF Signed
<1>9. QED
  BY <1>3, <1>4, <1>5, <1>7, <1>8 DEF Sound

(***************************************************************************)
(* The last skip is filled in: the same ranges lie there as before.        *)
(***************************************************************************)
LEMMA CloseSound ==
  ASSUME NEW r, NEW w \in WriterRecord, NEW v \in WriterRecord, Sound(r, w),
         NEW x \in LogEntry, Logged(w, v, x), NEW n \in DOMAIN w.backtracks,
         DOMAIN v.backtracks = DOMAIN w.backtracks \ {n},
         \A j \in DOMAIN v.backtracks : v.backtracks[j] = w.backtracks[j] /\ j < n,
         x.op = "size", x.from = w.backtracks[n][1], x.to = w.backtracks[n][2],
         x.reach = x.end, v.offset = w.offset
  PROVE  Sound(r, v) /\ Boundaries(v) = Boundaries(w)
<1> DEFINE l == Len(w.log) + 1
<1>1. /\ w.offset \in Nat /\ WritesOf(w.log) \subseteq DOMAIN w.log
      /\ \A i \in DOMAIN w.log : w.log[i].from \in Nat /\ w.log[i].to \in Nat
      /\ \A j \in DOMAIN w.backtracks : w.backtracks[j][1] \in Nat /\ w.backtracks[j][2] \in Nat
  BY WriterParts
<1>2. /\ WritesOf(v.log) = WritesOf(w.log) \cup {l} /\ l \notin WritesOf(w.log)
      /\ \A i \in WritesOf(w.log) : v.log[i] = w.log[i]
      /\ v.log[l] = x
      /\ DOMAIN v.log = DOMAIN w.log \cup {l}
      /\ \A i \in DOMAIN w.log : v.log[i] = w.log[i] /\ i < l
  BY <1>1 DEF Logged
<1> HIDE DEF l
<1>3. SkipsLieApart(v)
  BY <1>1 DEF Sound, SkipsLieApart
<1>4. x.from < x.to /\ x.to <= w.offset
  BY <1>1 DEF Sound, SkipsLieApart
<1>5. WritesLieApart(v)
  <2>1. ASSUME NEW i \in WritesOf(v.log) PROVE v.log[i].from < v.log[i].to /\ v.log[i].to <= v.offset
    BY <1>1, <1>2, <1>4 DEF Sound, WritesLieApart
  <2>2. ASSUME NEW i \in WritesOf(v.log), NEW j \in WritesOf(v.log), i # j
        PROVE  v.log[i].to <= v.log[j].from \/ v.log[j].to <= v.log[i].from
    BY <1>1, <1>2, <2>2 DEF Sound, WritesLieApart
  <2>3. ASSUME NEW i \in WritesOf(v.log), NEW j \in DOMAIN v.backtracks
        PROVE  v.log[i].to <= v.backtracks[j][1] \/ v.backtracks[j][2] <= v.log[i].from
    BY <1>1, <1>2 DEF Sound, WritesLieApart, SkipsLieApart
  <2>4. QED
    BY <2>1, <2>2, <2>3 DEF WritesLieApart
<1>6. WritesReachTheEnd(v)
  BY <1>2 DEF Sound, WritesReachTheEnd
<1>7. Starts(v) = Starts(w) /\ Ends(v) = Ends(w)
  <2>1. /\ {v.log[i].from : i \in WritesOf(v.log)} = {w.log[i].from : i \in WritesOf(w.log)} \cup {x.from}
        /\ {v.log[i].to : i \in WritesOf(v.log)} = {w.log[i].to : i \in WritesOf(w.log)} \cup {x.to}
    BY <1>2
  <2>2. /\ {w.backtracks[j][1] : j \in DOMAIN w.backtracks} = {v.backtracks[j][1] : j \in DOMAIN v.backtracks} \cup {x.from}
        /\ {w.backtracks[j][2] : j \in DOMAIN w.backtracks} = {v.backtracks[j][2] : j \in DOMAIN v.backtracks} \cup {x.to}
    OBVIOUS
  <2>3. QED
    BY <2>1, <2>2 DEF Starts, Ends
<1>8. Chained(v) /\ Boundaries(w) = Boundaries(v)
  BY <1>7 DEF Sound, Chained, Boundaries
<1>9. ASSUME NEW s \in DOMAIN v.log \ WritesOf(v.log) PROVE Signed(r, v, s)
  <2>1. s \in DOMAIN w.log \ WritesOf(w.log) /\ v.log[s] = w.log[s]
    BY <1>2
  <2>2. Signed(r, w, s)
    BY <2>1 DEF Sound
  <2>3. \A i \in WritesOf(v.log) : v.log[i].from < v.log[s].to /\ v.log[s].from < v.log[i].to => i < s
    BY <1>1, <1>2, <1>4, <2>1, <2>2 DEF Signed
  <2>4. QED
    BY <1>8, <2>1, <2>2, <2>3 DEF Signed
<1>10. QED
  BY <1>3, <1>5, <1>6, <1>8, <1>9 DEF Sound

(***************************************************************************)
(* A range up to where the writer is, behind every pending skip, may be    *)
(* signed: what is written later lies behind it.                           *)
(***************************************************************************)
LEMMA SignSound ==
  ASSUME NEW r, NEW w \in WriterRecord, NEW v \in WriterRecord, Sound(r, w),
         NEW x \in LogEntry, Logged(w, v, x), x.op = "sign", x.to = w.offset,
         x.from \in Boundaries(w), x.from < x.to, x.to <= r.capacity,
         \A j \in DOMAIN w.backtracks : w.backtracks[j][2] <= x.from,
         v.offset = w.offset, v.backtracks = w.backtracks
  PROVE  Sound(r, v) /\ Boundaries(v) = Boundaries(w)
<1> DEFINE n == Len(w.log) + 1
<1>1. w.offset \in Nat /\ WritesOf(w.log) \subseteq DOMAIN w.log
  BY WriterParts
<1>2. /\ WritesOf(v.log) = WritesOf(w.log)
      /\ v.log[n] = x
      /\ DOMAIN v.log = DOMAIN w.log \cup {n}
      /\ \A i \in DOMAIN w.log : v.log[i] = w.log[i] /\ i < n
  BY <1>1 DEF Logged
<1> HIDE DEF n
<1>3. \A i \in WritesOf(w.log) : v.log[i] = w.log[i]
  BY <1>1, <1>2
<1>4. SkipsLieApart(v) /\ WritesLieApart(v) /\ WritesReachTheEnd(v)
  BY <1>2, <1>3 DEF Sound, SkipsLieApart, WritesLieApart, WritesReachTheEnd
<1>5. Starts(v) = Starts(w) /\ Ends(v) = Ends(w)
  <2>1. /\ {v.log[i].from : i \in WritesOf(v.log)} = {w.log[i].from : i \in WritesOf(w.log)}
        /\ {v.log[i].to : i \in WritesOf(v.log)} = {w.log[i].to : i \in WritesOf(w.log)}
    BY <1>2, <1>3
  <2>2. QED
    BY <2>1 DEF Starts, Ends
<1>6. Chained(v) /\ Boundaries(w) = Boundaries(v)
  BY <1>5 DEF Sound, Chained, Boundaries
<1>7. ASSUME NEW s \in DOMAIN v.log \ WritesOf(v.log) PROVE Signed(r, v, s)
  <2>1. CASE s = n
    <3>1. w.offset \in Boundaries(w)
      BY DEF Sound, Chained
    <3>2. \A i \in WritesOf(v.log) : i < s
      BY <1>1, <1>2, <2>1
    <3>3. v.log[s] = x
      BY <1>2, <2>1
    <3>4. QED
      BY <1>1, <1>6, <3>1, <3>2, <3>3 DEF Signed
  <2>2. CASE s # n
    <3>1. s \in DOMAIN w.log \ WritesOf(w.log) /\ v.log[s] = w.log[s]
      BY <1>2, <2>2
    <3>2. Signed(r, w, s)
      BY <3>1 DEF Sound
    <3>3. QED
      BY <1>2, <1>3, <1>6, <3>1, <3>2 DEF Signed
  <2>3. QED
    BY <2>1, <2>2
<1>8. QED
  BY <1>4, <1>6, <1>7 DEF Sound

-----------------------------------------------------------------------------
(***************************************************************************)
(* Where the skips are. A CSR is wrapped in a CMS message, a certificate   *)
(* is not.                                                                 *)
(***************************************************************************)
Place(r) == IF r.format = "Csr" THEN <<1, 16, 20, 42, 57, 61, 65, 69>> ELSE <<1, 5>>

(***************************************************************************)
(* The d skips pending are the first d of those places.                    *)
(***************************************************************************)
Stack(r, w, d) ==
  /\ Len(w.backtracks) = d
  /\ \A j \in 1 .. d : w.backtracks[j] = <<Place(r)[j], Place(r)[j] + 3>>

(***************************************************************************)
(* A writer between two stretches of code, failed or not: its only errors  *)
(* are a full buffer and a crypto layer that refuses.                      *)
(***************************************************************************)
Good(r, w) ==
  /\ w \in WriterRecord
  /\ Sound(r, w)
  /\ Len(w.backtracks) <= MAX_BACKTRACKS
  /\ SameWidths(r) => w.exact
  /\ w.error \in {"Ok", "CertSizeOverflow", "Crypto"}

(***************************************************************************)
(* A writer that has not failed is at a position with d skips pending.     *)
(***************************************************************************)
Stands(r, w, d, position) ==
  /\ Good(r, w)
  /\ w.error = "Ok" /\ w.saved_offset = None
  /\ Stack(r, w, d)
  /\ w.offset = position

(***************************************************************************)
(* Emit takes a writer from one position to a later one.                   *)
(***************************************************************************)
LEMMA EmitStands ==
  ASSUME NEW r, NEW w, NEW d \in Nat, NEW p \in Nat, Stands(r, w, d, p),
         NEW e \in Emitted, e.written > 0, SameWidths(r) => e.exact
  PROVE  /\ Stands(r, Emit(w, e), d, p + e.written)
         /\ Boundaries(w) \subseteq Boundaries(Emit(w, e))
         /\ Emit(w, e).csr_range = w.csr_range
<1> DEFINE v == Emit(w, e)
           to == p + e.written
           x == Entry("write", p, to, to, to)
<1>1. w \in WriterRecord /\ w.error = "Ok" /\ w.offset = p /\ Sound(r, w) /\ e.written \in Nat /\ to \in Nat /\ p < to
  BY DEF Stands, Good, Emitted
<1>2. x \in LogEntry /\ x.op = "write" /\ x.from = p /\ x.to = to /\ x.reach = x.end
  BY <1>1 DEF LogEntry, Entry
<1>3. v = [w EXCEPT !.offset = to, !.exact = @ /\ e.exact, !.log = Append(@, x)]
  BY <1>1 DEF Emit, IfOk
<1> HIDE DEF v, x, to
<1>4. v \in WriterRecord
  <2>1. Append(w.log, x) \in Seq(LogEntry)
    BY <1>1, <1>2, AppendFacts, WriterParts
  <2>2. (w.exact /\ e.exact) \in BOOLEAN
    OBVIOUS
  <2>3. QED
    BY <1>1, <1>3, <2>1, <2>2 DEF WriterRecord
<1>5. /\ v.offset = to /\ v.log = Append(w.log, x) /\ v.backtracks = w.backtracks
      /\ v.saved_offset = w.saved_offset /\ v.error = w.error /\ v.csr_range = w.csr_range
      /\ v.exact = (w.exact /\ e.exact)
  BY <1>1, <1>3 DEF WriterRecord
<1>6. Sound(r, v) /\ Boundaries(w) \subseteq Boundaries(v)
  <2>1. Logged(w, v, x)
    BY <1>1, <1>2, <1>5, AppendLogs
  <2>2. QED
    BY <1>1, <1>2, <1>4, <1>5, <2>1, WriteSound
<1>7. SameWidths(r) => v.exact
  BY <1>5 DEF Stands, Good
<1>8. Stands(r, v, d, to)
  BY <1>4, <1>5, <1>6, <1>7 DEF Stands, Good, Stack
<1>9. QED
  BY <1>5, <1>6, <1>8 DEF v, to

(***************************************************************************)
(* push_backtrack behind a tag takes a writer to the next place.           *)
(***************************************************************************)
LEMMA OpenStands ==
  ASSUME NEW r, NEW w, NEW d \in Nat, NEW p \in Nat, Stands(r, w, d, p),
         d + 1 \in DOMAIN Place(r), Place(r)[d + 1] = p + 1
  PROVE  /\ Stands(r, Open(w), d + 1, p + 4)
         /\ Boundaries(w) \subseteq Boundaries(Open(w))
         /\ Open(w).csr_range = w.csr_range
<1> DEFINE u == Emit(w, EncodeBytes(1))
           b == <<p + 1, p + 4>>
           v == PushBacktrack(u)
<1>1. /\ EncodeBytes(1) \in Emitted /\ EncodeBytes(1).written = 1 /\ EncodeBytes(1).exact
  BY DEF EncodeBytes, Emitted
<1>2. Stands(r, u, d, p + 1) /\ Boundaries(w) \subseteq Boundaries(u) /\ u.csr_range = w.csr_range
  <2> DEFINE e == EncodeBytes(1)
  <2>1. e \in Emitted /\ e.written > 0 /\ (SameWidths(r) => e.exact) /\ p + e.written = p + 1
    BY <1>1
  <2> HIDE DEF e
  <2>2. QED
    <3>1. Stands(r, Emit(w, e), d, p + e.written) /\ Boundaries(w) \subseteq Boundaries(Emit(w, e))
          /\ Emit(w, e).csr_range = w.csr_range
      BY <2>1, EmitStands
    <3>2. QED
      BY <2>1, <3>1, Zenon DEF e
<1> HIDE DEF u
<1>3. /\ u \in WriterRecord /\ Sound(r, u) /\ u.error = "Ok" /\ u.offset = p + 1
      /\ Len(u.backtracks) = d
  BY <1>2 DEF Stands, Good, Stack
<1>4. d + 1 <= 8
  BY DEF Place
<1>5. v = [u EXCEPT !.backtracks = Append(@, b), !.offset = p + 4]
  <2>1. Len(u.backtracks) # 10
    BY <1>3, <1>4
  <2>2. v = [u EXCEPT !.backtracks = Append(@, <<u.offset, u.offset + 3>>), !.offset = @ + 3]
    BY <1>3, <2>1, Zenon DEF PushBacktrack, IfOk, MAX_BACKTRACKS, SIZE_TAG_OFFSET
  <2>3. u.offset + 3 = p + 4
    BY <1>3
  <2>4. QED
    BY <1>3, <2>2, <2>3, Zenon
<1>6. b \in Nat \X Nat /\ u.backtracks \in Seq(Nat \X Nat)
  BY <1>3, WriterParts
<1> HIDE DEF v, b
<1>7. /\ Append(u.backtracks, b) \in Seq(Nat \X Nat)
      /\ DOMAIN u.backtracks = 1 .. d
      /\ DOMAIN Append(u.backtracks, b) = DOMAIN u.backtracks \cup {d + 1}
      /\ Len(Append(u.backtracks, b)) = d + 1
      /\ \A j \in DOMAIN u.backtracks : Append(u.backtracks, b)[j] = u.backtracks[j]
      /\ Append(u.backtracks, b)[d + 1] = b
  <2> DEFINE s == u.backtracks
  <2>1. s \in Seq(Nat \X Nat) /\ b \in Nat \X Nat /\ Len(s) = d
    BY <1>3, <1>6
  <2> HIDE DEF s
  <2>2. /\ Append(s, b) \in Seq(Nat \X Nat)
        /\ DOMAIN s = 1 .. d
        /\ DOMAIN Append(s, b) = DOMAIN s \cup {d + 1}
        /\ Len(Append(s, b)) = d + 1
        /\ \A j \in DOMAIN s : Append(s, b)[j] = s[j]
        /\ Append(s, b)[d + 1] = b
    BY <2>1, AppendFacts
  <2>3. QED
    BY <2>2 DEF s
<1>8. v \in WriterRecord
  <2>1. p + 4 \in Nat /\ Append(u.backtracks, b) \in Seq(Nat \X Nat)
    BY <1>7
  <2>2. QED
    BY <1>3, <1>5, <2>1 DEF WriterRecord
<1>9. /\ v.offset = p + 4 /\ v.log = u.log /\ v.backtracks = Append(u.backtracks, b)
      /\ v.saved_offset = u.saved_offset /\ v.error = u.error /\ v.csr_range = u.csr_range
      /\ v.exact = u.exact
  BY <1>3, <1>5 DEF WriterRecord
<1>10. Sound(r, v) /\ Boundaries(u) \subseteq Boundaries(v)
  <2> DEFINE n == d + 1
  <2>1. n \notin DOMAIN u.backtracks /\ ~(n < n) /\ \A j \in DOMAIN u.backtracks : j < n /\ ~(n < j)
    BY <1>7, SMTT(30)
  <2>2. DOMAIN v.backtracks = DOMAIN u.backtracks \cup {n} /\ v.backtracks[n] = b
    BY <1>7, <1>9
  <2>3. \A j \in DOMAIN u.backtracks : v.backtracks[j] = u.backtracks[j]
    BY <1>7, <1>9
  <2>4. b = <<u.offset, v.offset>> /\ v.offset = u.offset + 3
    BY <1>3, <1>9 DEF b
  <2> HIDE DEF n
  <2>5. QED
    BY <1>3, <1>8, <1>9, <2>1, <2>2, <2>3, <2>4, SkipSound
<1>11. Stack(r, v, d + 1)
  <2>1. \A j \in 1 .. d : u.backtracks[j] = <<Place(r)[j], Place(r)[j] + 3>>
    BY <1>2 DEF Stands, Stack
  <2>2. b = <<Place(r)[d + 1], Place(r)[d + 1] + 3>>
    BY DEF b
  <2>3. v.backtracks[d + 1] = <<Place(r)[d + 1], Place(r)[d + 1] + 3>>
    BY <1>7, <1>9, <2>2
  <2>4. \A j \in 1 .. d : v.backtracks[j] = <<Place(r)[j], Place(r)[j] + 3>>
    BY <1>7, <1>9, <2>1
  <2>5. d + 1 \in Nat /\ Len(v.backtracks) = d + 1 /\ 1 .. d + 1 = (1 .. d) \cup {d + 1}
    BY <1>7, <1>9
  <2>6. QED
    BY <2>3, <2>4, <2>5 DEF Stack
<1>12. Good(r, v)
  BY <1>2, <1>4, <1>7, <1>8, <1>9, <1>10 DEF Stands, Good, MAX_BACKTRACKS
<1>13. Stands(r, v, d + 1, p + 4)
  BY <1>2, <1>9, <1>11, <1>12 DEF Stands
<1>14. QED
  BY <1>2, <1>9, <1>10, <1>13 DEF Open, u, v

(***************************************************************************)
(* Places are numbered without gaps.                                       *)
(***************************************************************************)
LEMMA PlaceFacts ==
  ASSUME NEW r, NEW d \in DOMAIN Place(r)
  PROVE  Place(r)[d] \in Nat /\ d \in 1 .. 8 /\ 1 .. d \subseteq DOMAIN Place(r)
BY DEF Place

(***************************************************************************)
(* Neither the error nor where to go back to says anything of the bytes.   *)
(***************************************************************************)
LEMMA SameBytes ==
  ASSUME NEW r, NEW w, NEW v, Sound(r, w),
         v.offset = w.offset, v.log = w.log, v.backtracks = w.backtracks
  PROVE  Sound(r, v) /\ Boundaries(v) = Boundaries(w)
<1>1. Starts(v) = Starts(w) /\ Ends(v) = Ends(w)
  BY DEF Starts, Ends
<1>2. Boundaries(v) = Boundaries(w) /\ Chained(v)
  BY <1>1 DEF Boundaries, Sound, Chained
<1>3. SkipsLieApart(v) /\ WritesLieApart(v) /\ WritesReachTheEnd(v)
  BY DEF Sound, SkipsLieApart, WritesLieApart, WritesReachTheEnd
<1>4. ASSUME NEW s \in DOMAIN v.log \ WritesOf(v.log) PROVE Signed(r, v, s)
  <2>1. Signed(r, w, s)
    BY DEF Sound
  <2>2. QED
    BY <1>2, <2>1 DEF Signed
<1>5. QED
  BY <1>2, <1>3, <1>4 DEF Sound

(***************************************************************************)
(* What backtrack_and_encode_size does for one size, all in all.           *)
(***************************************************************************)
Close(w, size) ==
  LET range == Last(w.backtracks)
  IN  [w EXCEPT !.backtracks = Front(@),
                !.log = Append(@, Entry("size", range[1], range[1] + 3, range[1] + 3 + size, w.offset))]

(***************************************************************************)
(* The stack without its last skip.                                        *)
(***************************************************************************)
LEMMA FrontFacts ==
  ASSUME NEW S, NEW seq \in Seq(S), NEW d \in Nat, Len(seq) = d + 1
  PROVE  /\ Front(seq) \in Seq(S) /\ Len(Front(seq)) = d
         /\ DOMAIN seq = 1 .. d + 1 /\ DOMAIN Front(seq) = 1 .. d
         /\ \A j \in 1 .. d : Front(seq)[j] = seq[j]
         /\ Last(seq) = seq[d + 1]
<1>1. Front(seq) = SubSeq(seq, 1, d)
  BY DEF Front
<1>2. SubSeq(seq, 1, d) \in Seq(S) /\ Len(SubSeq(seq, 1, d)) = d /\ \A j \in 1 .. d : SubSeq(seq, 1, d)[j] = seq[j]
  OBVIOUS
<1>3. QED
  BY <1>1, <1>2 DEF Last

(***************************************************************************)
(* Filling in the size of what was written since the last skip leaves the  *)
(* writer where it is, with one skip less.                                 *)
(***************************************************************************)
LEMMA CloseStands ==
  ASSUME NEW r, NEW w, NEW d \in Nat, NEW p \in Nat, Stands(r, w, d + 1, p),
         NEW size \in Nat, d + 1 \in DOMAIN Place(r), Place(r)[d + 1] + 3 + size = p
  PROVE  /\ Stands(r, Close(w, size), d, p)
         /\ Boundaries(Close(w, size)) = Boundaries(w)
         /\ Close(w, size).csr_range = w.csr_range
<1> DEFINE k == Place(r)[d + 1]
           x == Entry("size", k, k + 3, k + 3 + size, p)
           v == Close(w, size)
           n == d + 1
<1>1. /\ w \in WriterRecord /\ Sound(r, w) /\ w.error = "Ok" /\ w.offset = p /\ w.saved_offset = None
      /\ Len(w.backtracks) = d + 1 /\ w.backtracks \in Seq(Nat \X Nat)
      /\ \A j \in 1 .. d + 1 : w.backtracks[j] = <<Place(r)[j], Place(r)[j] + 3>>
  BY WriterParts DEF Stands, Good, Stack
<1>2. /\ Front(w.backtracks) \in Seq(Nat \X Nat) /\ Len(Front(w.backtracks)) = d
      /\ DOMAIN w.backtracks = 1 .. d + 1 /\ DOMAIN Front(w.backtracks) = 1 .. d
      /\ \A j \in 1 .. d : Front(w.backtracks)[j] = w.backtracks[j]
      /\ Last(w.backtracks) = w.backtracks[d + 1]
  <2> DEFINE b == w.backtracks
  <2>1. b \in Seq(Nat \X Nat) /\ Len(b) = d + 1
    BY <1>1
  <2> HIDE DEF b
  <2>2. /\ Front(b) \in Seq(Nat \X Nat) /\ Len(Front(b)) = d
        /\ DOMAIN b = 1 .. d + 1 /\ DOMAIN Front(b) = 1 .. d
        /\ \A j \in 1 .. d : Front(b)[j] = b[j]
        /\ Last(b) = b[d + 1]
    <3>1. Front(b) \in Seq(Nat \X Nat) /\ Len(Front(b)) = d
      BY <2>1, FrontFacts
    <3>2. DOMAIN b = 1 .. d + 1 /\ DOMAIN Front(b) = 1 .. d
      BY <2>1, FrontFacts
    <3>3. \A j \in 1 .. d : Front(b)[j] = b[j]
      BY <2>1, FrontFacts
    <3>4. Last(b) = b[d + 1]
      BY <2>1, FrontFacts
    <3>5. QED
      BY <3>1, <3>2, <3>3, <3>4
  <2>3. QED
    BY <2>2 DEF b
<1>3. k \in Nat
  BY DEF Place
<1>4. Last(w.backtracks) = <<k, k + 3>> /\ w.backtracks[n] = <<k, k + 3>>
  BY <1>1, <1>2
<1>5. v = [w EXCEPT !.backtracks = Front(@), !.log = Append(@, x)]
  <2>1. Last(w.backtracks)[1] = k
    BY <1>4
  <2>2. QED
    BY <1>1, <2>1, Zenon DEF Close
<1>6. x \in LogEntry /\ x.op = "size" /\ x.from = k /\ x.to = k + 3 /\ x.reach = k + 3 + size /\ x.end = p
  BY <1>3 DEF LogEntry, Entry
<1>7. DOMAIN w.backtracks = 1 .. n /\ n \in 1 .. n /\ 1 .. d = 1 .. n \ {n} /\ \A j \in 1 .. d : j < n
  <2>1. DOMAIN w.backtracks = 1 .. n
    BY <1>2
  <2>2. n \in 1 .. n /\ 1 .. d = 1 .. n \ {n} /\ \A j \in 1 .. d : j < n
    OBVIOUS
  <2>3. QED
    BY <2>1, <2>2
<1> HIDE DEF v, x, k, n
<1>8. v \in WriterRecord
  <2>1. Append(w.log, x) \in Seq(LogEntry)
    BY <1>1, <1>6, AppendFacts, WriterParts
  <2>2. QED
    BY <1>1, <1>2, <1>5, <2>1 DEF WriterRecord
<1>9. /\ v.offset = p /\ v.log = Append(w.log, x) /\ v.backtracks = Front(w.backtracks)
      /\ v.saved_offset = w.saved_offset /\ v.error = w.error /\ v.csr_range = w.csr_range
      /\ v.exact = w.exact
  BY <1>1, <1>5 DEF WriterRecord
<1>10. Logged(w, v, x)
  BY <1>1, <1>6, <1>9, AppendLogs
<1>11. Sound(r, v) /\ Boundaries(v) = Boundaries(w)
  <2>1. x.reach = x.end
    BY <1>6 DEF k
  <2>2. x.from = w.backtracks[n][1] /\ x.to = w.backtracks[n][2]
    BY <1>4, <1>6
  <2>3. DOMAIN v.backtracks = DOMAIN w.backtracks \ {n} /\ n \in DOMAIN w.backtracks
    BY <1>2, <1>7, <1>9
  <2>4. \A j \in DOMAIN v.backtracks : v.backtracks[j] = w.backtracks[j] /\ j < n
    BY <1>2, <1>7, <1>9
  <2>5. QED
    <3>1. v.offset = w.offset /\ x.op = "size"
      BY <1>1, <1>6, <1>9
    <3>2. w \in WriterRecord /\ Sound(r, w)
      BY <1>1
    <3>3. x \in LogEntry
      BY <1>6
    <3>4. QED
      BY <1>8, <1>10, <2>1, <2>2, <2>3, <2>4, <3>1, <3>2, <3>3, CloseSound
<1>12. Stack(r, v, d)
  <2>1. \A j \in 1 .. d : j \in 1 .. d + 1
    OBVIOUS
  <2>2. \A j \in 1 .. d : w.backtracks[j] = <<Place(r)[j], Place(r)[j] + 3>>
    BY <1>1, <2>1
  <2>3. \A j \in 1 .. d : v.backtracks[j] = w.backtracks[j]
    BY <1>2, <1>9
  <2>4. QED
    BY <1>2, <1>9, <2>2, <2>3, Zenon DEF Stack
<1>13. Good(r, v)
  <2>1. d <= MAX_BACKTRACKS
    BY DEF Place, MAX_BACKTRACKS
  <2>2. QED
    BY <1>2, <1>8, <1>9, <1>11, <2>1 DEF Stands, Good
<1>14. QED
  BY <1>1, <1>9, <1>11, <1>12, <1>13 DEF Stands, v

(***************************************************************************)
(* Signing what was written since a boundary keeps the writer where it is; *)
(* a refusal fails it.                                                     *)
(***************************************************************************)
LEMMA SignStands ==
  ASSUME NEW r, NEW w, NEW d \in Nat, NEW p \in Nat, Stands(r, w, d, p), p <= r.capacity,
         NEW from \in Boundaries(w), from \in Nat, from < p,
         d \in DOMAIN Place(r), Place(r)[d] + 3 <= from, NEW ok \in BOOLEAN
  PROVE  LET v == SignRange(w, from, p, ok)
         IN  /\ ok => Stands(r, v, d, p) /\ Boundaries(v) = Boundaries(w) /\ v.csr_range = w.csr_range
             /\ ~ok => Good(r, v) /\ v.error = "Crypto" /\ v.saved_offset = None /\ v.backtracks = w.backtracks
<1> DEFINE v == SignRange(w, from, p, ok)
           x == Entry("sign", from, p, p, p)
<1>1. /\ w \in WriterRecord /\ Sound(r, w) /\ w.error = "Ok" /\ w.offset = p /\ w.saved_offset = None
      /\ \A j \in 1 .. d : w.backtracks[j] = <<Place(r)[j], Place(r)[j] + 3>>
      /\ DOMAIN w.backtracks = 1 .. d /\ \A j \in DOMAIN w.backtracks : w.backtracks[j][2] \in Nat
  BY WriterParts DEF Stands, Good, Stack
<1>2. ASSUME ok
      PROVE  Stands(r, v, d, p) /\ Boundaries(v) = Boundaries(w) /\ v.csr_range = w.csr_range
  <2>1. v = [w EXCEPT !.log = Append(@, x)]
    BY <1>1, <1>2 DEF SignRange, IfOk
  <2>2. x \in LogEntry /\ x.op = "sign" /\ x.from = from /\ x.to = p
    BY DEF LogEntry, Entry
  <2> HIDE DEF v, x
  <2>3. v \in WriterRecord
    <3>1. Append(w.log, x) \in Seq(LogEntry)
      BY <1>1, <2>2, AppendFacts, WriterParts
    <3>2. QED
      BY <1>1, <2>1, <3>1 DEF WriterRecord
  <2>4. /\ v.offset = p /\ v.log = Append(w.log, x) /\ v.backtracks = w.backtracks
        /\ v.saved_offset = w.saved_offset /\ v.error = w.error /\ v.csr_range = w.csr_range
        /\ v.exact = w.exact
    BY <1>1, <2>1 DEF WriterRecord
  <2>5. Logged(w, v, x)
    BY <1>1, <2>2, <2>4, AppendLogs
  <2>6. ASSUME NEW j \in DOMAIN w.backtracks PROVE w.backtracks[j][2] <= from
    <3>0. Place(r)[d] \in Nat /\ d \in 1 .. d
      BY PlaceFacts
    <3>1. w.backtracks[d] = <<Place(r)[d], Place(r)[d] + 3>> /\ d \in 1 .. d
      BY <1>1, <3>0
    <3>2. j = d \/ (j < d /\ w.backtracks[j][2] <= w.backtracks[d][1])
      BY <1>1, <3>1 DEF Sound, SkipsLieApart
    <3>3. w.backtracks[d][1] = Place(r)[d] /\ w.backtracks[d][2] = Place(r)[d] + 3
      BY <3>1
    <3>4. w.backtracks[j][2] \in Nat
      BY <1>1
    <3>5. QED
      BY <3>0, <3>2, <3>3, <3>4
  <2>7. Sound(r, v) /\ Boundaries(v) = Boundaries(w)
    BY <1>1, <2>2, <2>3, <2>4, <2>5, <2>6, SignSound
  <2>8. QED
    BY <2>3, <2>4, <2>7 DEF Stands, Good, Stack
<1>3. ASSUME ~ok
      PROVE  Good(r, v) /\ v.error = "Crypto" /\ v.saved_offset = None /\ v.backtracks = w.backtracks
  <2>1. v = [w EXCEPT !.error = "Crypto"]
    BY <1>1, <1>3 DEF SignRange, IfOk, Fail
  <2> HIDE DEF v
  <2>2. v \in WriterRecord /\ v.error = "Crypto" /\ v.saved_offset = None /\ v.backtracks = w.backtracks
        /\ v.log = w.log /\ v.offset = w.offset /\ v.exact = w.exact
    BY <1>1, <2>1 DEF WriterRecord, Errors
  <2>3. QED
    BY <1>1, <2>2, SameBytes DEF Stands, Good
<1>4. QED
  BY <1>2, <1>3

(***************************************************************************)
(* The recursive function behind BacktrackAndEncodeSize, the loop of       *)
(* backtrack_and_encode_size over its sizes: it exists, and each turn      *)
(* fills in one skip.                                                      *)
(***************************************************************************)
LEMMA Turns ==
  ASSUME NEW w, NEW sizes, Len(sizes) \in Nat
  PROVE  \E turn : /\ turn[0] = StartBacktrack(w)
                   /\ \A n \in 1 .. Len(sizes) : turn[n] = PopAndEncodeSize(turn[n - 1], sizes[n])
                   /\ BacktrackAndEncodeSize(w, sizes) = EndBacktrack(turn[Len(sizes)])
<1> DEFINE L == Len(sizes)
           Taken(f, n) == /\ f[0] = StartBacktrack(w)
                          /\ \A k \in 1 .. n : f[k] = PopAndEncodeSize(f[k - 1], sizes[k])
           T == {n \in Nat : \E f : Taken(f, n)}
           Step(f) == [n \in 0 .. L |-> IF n = 0 THEN StartBacktrack(w) ELSE PopAndEncodeSize(f[n - 1], sizes[n])]
           turn == CHOOSE f : f = Step(f)
<1>1. L \in Nat
  OBVIOUS
<1>2. \A n \in 0 .. L : n \in T
  <2>1. 0 \in T
    <3>1. Taken([k \in {0} |-> StartBacktrack(w)], 0)
      OBVIOUS
    <3> HIDE DEF Taken
    <3>2. QED
      BY <3>1
  <2>2. ASSUME NEW n \in 1 .. L, n - 1 \in T PROVE n \in T
    <3>1. PICK f : Taken(f, n - 1)
      BY <2>2
    <3> DEFINE g == [k \in 0 .. n |-> IF k = n THEN PopAndEncodeSize(f[n - 1], sizes[n]) ELSE f[k]]
    <3>2. g[0] = f[0]
      OBVIOUS
    <3>3. ASSUME NEW k \in 1 .. n PROVE g[k] = PopAndEncodeSize(g[k - 1], sizes[k])
      <4>1. g[k - 1] = f[k - 1]
        OBVIOUS
      <4>2. CASE k = n
        BY <4>1, <4>2
      <4>3. CASE k # n
        <5>1. k \in 1 .. n - 1 /\ g[k] = f[k]
          BY <4>3
        <5>2. QED
          BY <3>1, <4>1, <5>1
      <4>4. QED
        BY <4>2, <4>3
    <3> HIDE DEF g
    <3>4. Taken(g, n)
      BY <3>1, <3>2, <3>3
    <3>5. n \in Nat
      OBVIOUS
    <3> HIDE DEF Taken
    <3>6. QED
      BY <3>4, <3>5
  <2> HIDE DEF T, L
  <2>3. QED
    BY <1>1, <2>1, <2>2, UpTo
<1>3. \E f : Taken(f, L)
  <2> HIDE DEF Taken, L
  <2>1. L \in 0 .. L
    BY <1>1
  <2>2. QED
    BY <1>2, <2>1
<1>4. PICK f : Taken(f, L)
  BY <1>3
<1> DEFINE g == [n \in 0 .. L |-> f[n]]
<1>5. g = Step(g)
  <2>1. ASSUME NEW n \in 0 .. L
        PROVE  f[n] = IF n = 0 THEN StartBacktrack(w) ELSE PopAndEncodeSize(g[n - 1], sizes[n])
    <3>1. CASE n = 0
      BY <1>4, <3>1
    <3>2. CASE n # 0
      <4>1. n \in 1 .. L /\ n - 1 \in 0 .. L
        BY <1>1, <3>2
      <4>2. g[n - 1] = f[n - 1]
        BY <4>1
      <4>3. QED
        BY <1>4, <3>2, <4>1, <4>2
    <3>3. QED
      BY <3>1, <3>2
  <2>2. Step(g) = [n \in 0 .. L |-> f[n]]
    BY <2>1
  <2>3. QED
    BY <2>2
<1>6. turn = Step(turn)
  <2> HIDE DEF Step, g
  <2> QED  BY <1>5
<1>7. BacktrackAndEncodeSize(w, sizes) = EndBacktrack(turn[L])
  BY Zenon DEF BacktrackAndEncodeSize
<1> HIDE DEF turn
<1>8. turn[0] = StartBacktrack(w)
  BY <1>1, <1>6
<1>9. ASSUME NEW n \in 1 .. L PROVE turn[n] = PopAndEncodeSize(turn[n - 1], sizes[n])
  BY <1>1, <1>6
<1>10. QED
  BY <1>7, <1>8, <1>9

(***************************************************************************)
(* Gone back to o, where the writer was is saved.                          *)
(***************************************************************************)
Away(v, o) == [v EXCEPT !.saved_offset = v.offset, !.offset = o]

(***************************************************************************)
(* start_backtrack and end_backtrack undo each other.                      *)
(***************************************************************************)
LEMMA AwayAndBack ==
  ASSUME NEW r, NEW v, NEW d, NEW p \in Nat, Stands(r, v, d, p), NEW o
  PROVE  StartBacktrack(v) = Away(v, p) /\ EndBacktrack(Away(v, o)) = v
<1>1. v \in WriterRecord /\ v.error = "Ok" /\ v.offset = p /\ v.saved_offset = None
  BY DEF Stands, Good
<1>2. StartBacktrack(v) = Away(v, p)
  BY <1>1 DEF StartBacktrack, IfOk, Away, WriterRecord
<1>3. /\ Away(v, o).error = "Ok" /\ Away(v, o).saved_offset = p
      /\ EndBacktrack(Away(v, o)) = [Away(v, o) EXCEPT !.offset = p, !.saved_offset = None]
  BY <1>1 DEF EndBacktrack, IfOk, Away, WriterRecord
<1>4. [Away(v, o) EXCEPT !.offset = p, !.saved_offset = None] = v
  BY <1>1 DEF Away, WriterRecord
<1>5. QED
  BY <1>2, <1>3, <1>4

(***************************************************************************)
(* Behind the length field that is next.                                   *)
(***************************************************************************)
Behind(w) == Last(w.backtracks)[1] + 3

(***************************************************************************)
(* One turn of the loop, while the writer is away, is Close.               *)
(***************************************************************************)
LEMMA PopCloses ==
  ASSUME NEW r, NEW w, NEW d \in Nat, NEW p \in Nat, Stands(r, w, d + 1, p), NEW o,
         NEW size \in Nat, SizeWidth(size) = 3
  PROVE  PopAndEncodeSize(Away(w, o), size) = Away(Close(w, size), Behind(w))
<1> DEFINE v == Away(w, o)
           b == w.backtracks
           range == Last(b)
<1>1. /\ w \in WriterRecord /\ w.error = "Ok" /\ w.offset = p
      /\ b \in Seq(Nat \X Nat) /\ Len(b) = d + 1 /\ SkipsLieApart(w)
  BY WriterParts DEF Stands, Good, Stack, Sound
<1>2. v.error = "Ok" /\ v.saved_offset = p /\ v.backtracks = b /\ v.log = w.log
  BY <1>1 DEF Away, WriterRecord
<1>3. p # None
  BY DEF None
<1>4. b # << >>
  BY <1>1
<1>5. range[2] - range[1] = 3
  <2>1. \A j \in DOMAIN b : b[j][2] = b[j][1] + 3 /\ b[j][1] \in Nat
    BY <1>1, WriterParts DEF SkipsLieApart
  <2> HIDE DEF b
  <2>2. Last(b) = b[d + 1] /\ DOMAIN b = 1 .. d + 1
    <3>1. b \in Seq(Nat \X Nat) /\ Len(b) = d + 1
      BY <1>1
    <3>2. QED
      BY <3>1, FrontFacts
  <2>3. b[d + 1][2] = b[d + 1][1] + 3 /\ b[d + 1][1] \in Nat
    BY <2>1, <2>2
  <2>4. QED
    BY <2>2, <2>3
<1> DEFINE at == range[1] + 3
           x == Entry("size", range[1], at, at + size, p)
<1>6. PopAndEncodeSize(v, size) = [v EXCEPT !.backtracks = Front(b), !.offset = at, !.log = Append(w.log, x)]
  BY <1>2, <1>3, <1>4, <1>5 DEF PopAndEncodeSize, IfOk
<1>7. Close(w, size) = [w EXCEPT !.backtracks = Front(b), !.log = Append(w.log, x)]
  BY <1>1 DEF Close
<1> HIDE DEF range, at, x
<1>8. [v EXCEPT !.backtracks = Front(b), !.offset = at, !.log = Append(w.log, x)]
        = Away([w EXCEPT !.backtracks = Front(b), !.log = Append(w.log, x)], at)
  BY <1>1 DEF Away, WriterRecord
<1>9. at = Behind(w)
  BY DEF at, range, Behind
<1>10. QED
  BY <1>6, <1>7, <1>8, <1>9

(***************************************************************************)
(* The size is that of the bytes from the dth skip on.                     *)
(***************************************************************************)
Measured(r, d, p, size) ==
  /\ d \in DOMAIN Place(r)
  /\ size \in Nat /\ SizeWidth(size) = 3 /\ Place(r)[d] + 3 + size = p

(***************************************************************************)
(* v is w with its skips closed down to d.                                 *)
(***************************************************************************)
Closed(r, w, v, d, p) ==
  /\ Stands(r, v, d, p)
  /\ Boundaries(v) = Boundaries(w)
  /\ v.csr_range = w.csr_range

(***************************************************************************)
(* One turn of the loop, for a size that is measured.                      *)
(***************************************************************************)
LEMMA TurnPops ==
  ASSUME NEW r, NEW w, NEW n, NEW p \in Nat, Stands(r, w, n, p), NEW o, NEW size, Measured(r, n, p, size)
  PROVE  PopAndEncodeSize(Away(w, o), size) = Away(Close(w, size), Behind(w))
<1>1. size \in Nat /\ SizeWidth(size) = 3 /\ n \in DOMAIN Place(r)
  BY DEF Measured
<1>2. n - 1 \in Nat /\ (n - 1) + 1 = n
  BY <1>1, PlaceFacts
<1>3. QED
  <2> DEFINE d == n - 1
  <2>1. d \in Nat /\ Stands(r, w, d + 1, p)
    BY <1>2
  <2> HIDE DEF d
  <2>2. QED
    BY <1>1, <2>1, PopCloses

(***************************************************************************)
(* What that turn leaves.                                                  *)
(***************************************************************************)
LEMMA TurnCloses ==
  ASSUME NEW r, NEW w, NEW d \in Nat, NEW n, n = d + 1, NEW p \in Nat, Stands(r, w, n, p),
         NEW size, Measured(r, n, p, size)
  PROVE  Closed(r, w, Close(w, size), d, p)
<1>1. size \in Nat /\ SizeWidth(size) = 3 /\ d + 1 \in DOMAIN Place(r) /\ Place(r)[d + 1] + 3 + size = p
  BY DEF Measured
<1>2. QED
  BY <1>1, CloseStands DEF Closed

(***************************************************************************)
(* backtrack_and_encode_size for one skip.                                 *)
(***************************************************************************)
LEMMA BacktrackOne ==
  ASSUME NEW r, NEW w, NEW d \in Nat, NEW n, n = d + 1, NEW p \in Nat, Stands(r, w, n, p),
         NEW a, Measured(r, n, p, a)
  PROVE  Closed(r, w, BacktrackAndEncodeSize(w, <<a>>), d, p)
<1>1. PICK turn : /\ turn[0] = StartBacktrack(w)
                  /\ \A k \in 1 .. 1 : turn[k] = PopAndEncodeSize(turn[k - 1], <<a>>[k])
                  /\ BacktrackAndEncodeSize(w, <<a>>) = EndBacktrack(turn[1])
  <2> DEFINE sizes == <<a>>
  <2>1. Len(sizes) = 1
    OBVIOUS
  <2> HIDE DEF sizes
  <2>2. PICK turn : /\ turn[0] = StartBacktrack(w)
                  /\ \A k \in 1 .. Len(sizes) : turn[k] = PopAndEncodeSize(turn[k - 1], sizes[k])
                  /\ BacktrackAndEncodeSize(w, sizes) = EndBacktrack(turn[Len(sizes)])
    <3>1. Len(sizes) \in Nat
      BY <2>1
    <3>2. QED
      BY <3>1, Turns, Zenon
  <2>3. QED
    BY <2>1, <2>2 DEF sizes
<1>2. turn[1] = PopAndEncodeSize(turn[0], a)
  BY <1>1
<1>3. turn[0] = Away(w, p)
  BY <1>1, AwayAndBack
<1>4. Closed(r, w, Close(w, a), d, p)
  BY TurnCloses
<1>5. PICK at : turn[1] = Away(Close(w, a), at)
  <2>1. PopAndEncodeSize(Away(w, p), a) = Away(Close(w, a), Behind(w))
    BY TurnPops
  <2>2. QED
    BY <1>2, <1>3, <2>1, Zenon
<1>6. EndBacktrack(Away(Close(w, a), at)) = Close(w, a)
  BY <1>4, AwayAndBack DEF Closed
<1>7. QED
  BY <1>1, <1>4, <1>5, <1>6

(***************************************************************************)
(* backtrack_and_encode_size for two skips.                                *)
(***************************************************************************)
LEMMA BacktrackTwo ==
  ASSUME NEW r, NEW w, NEW d \in Nat, NEW p \in Nat,
         NEW d1, d1 = d + 1, NEW d2, d2 = d + 2, Stands(r, w, d2, p),
         NEW a, Measured(r, d2, p, a), NEW b, Measured(r, d1, p, b)
  PROVE  Closed(r, w, BacktrackAndEncodeSize(w, <<a, b>>), d, p)
<1> DEFINE x == Close(w, a)
           y == Close(x, b)
<1>1. PICK turn : /\ turn[0] = StartBacktrack(w)
                  /\ turn[1] = PopAndEncodeSize(turn[0], a)
                  /\ turn[2] = PopAndEncodeSize(turn[1], b)
                  /\ BacktrackAndEncodeSize(w, <<a, b>>) = EndBacktrack(turn[2])
  <2> DEFINE sizes == <<a, b>>
  <2>1. Len(sizes) = 2 /\ sizes[1] = a /\ sizes[2] = b
    OBVIOUS
  <2> HIDE DEF sizes
  <2>2. PICK turn : /\ turn[0] = StartBacktrack(w)
                  /\ \A n \in 1 .. Len(sizes) : turn[n] = PopAndEncodeSize(turn[n - 1], sizes[n])
                  /\ BacktrackAndEncodeSize(w, sizes) = EndBacktrack(turn[Len(sizes)])
    <3>1. Len(sizes) \in Nat
      BY <2>1
    <3>2. QED
      BY <3>1, Turns, Zenon
  <2>3. turn[1] = PopAndEncodeSize(turn[0], a) /\ turn[2] = PopAndEncodeSize(turn[1], b)
    BY <2>1, <2>2
  <2>4. QED
    BY <2>1, <2>2, <2>3 DEF sizes
<1>2. turn[0] = Away(w, p)
  BY <1>1, AwayAndBack
<1>3. d1 \in Nat /\ d2 = d1 + 1
  OBVIOUS
<1>4. Closed(r, w, x, d1, p) /\ \E at : turn[1] = Away(x, at)
  <2> HIDE DEF x
  <2>1. Stands(r, w, d2, p) /\ Measured(r, d2, p, a)
    BY <1>3
  <2>2. QED
    <3>1. /\ Closed(r, w, Close(w, a), d1, p)
          /\ PopAndEncodeSize(Away(w, p), a) = Away(Close(w, a), Behind(w))
      BY <1>3, <2>1, TurnCloses, TurnPops
    <3>2. QED
      BY <1>1, <1>2, <3>1, Zenon DEF x
<1>5. PICK at : turn[1] = Away(x, at)
  BY <1>4
<1> HIDE DEF x
<1>6. Closed(r, x, y, d, p) /\ \E to : turn[2] = Away(y, to)
  <2>1. Stands(r, x, d1, p)
    BY <1>4 DEF Closed
  <2>2. /\ Closed(r, x, Close(x, b), d, p)
        /\ PopAndEncodeSize(Away(x, at), b) = Away(Close(x, b), Behind(x))
    BY <2>1, TurnCloses, TurnPops
  <2>3. QED
    BY <1>1, <1>5, <2>2, Zenon
<1>7. PICK to : turn[2] = Away(y, to)
  BY <1>6
<1> HIDE DEF y
<1>8. EndBacktrack(Away(y, to)) = y
  BY <1>6, AwayAndBack DEF Closed
<1>9. Closed(r, w, y, d, p)
  BY <1>4, <1>6 DEF Closed
<1>10. QED
  BY <1>1, <1>7, <1>8, <1>9

(***************************************************************************)
(* backtrack_and_encode_size for three skips.                              *)
(***************************************************************************)
LEMMA BacktrackThree ==
  ASSUME NEW r, NEW w, NEW d \in Nat, NEW p \in Nat,
         NEW d1, d1 = d + 1, NEW d2, d2 = d + 2, NEW d3, d3 = d + 3, Stands(r, w, d3, p),
         NEW a, Measured(r, d3, p, a), NEW b, Measured(r, d2, p, b), NEW c, Measured(r, d1, p, c)
  PROVE  Closed(r, w, BacktrackAndEncodeSize(w, <<a, b, c>>), d, p)
<1> DEFINE x == Close(w, a)
           y == Close(x, b)
           z == Close(y, c)
<1>1. PICK turn : /\ turn[0] = StartBacktrack(w)
                  /\ turn[1] = PopAndEncodeSize(turn[0], a)
                  /\ turn[2] = PopAndEncodeSize(turn[1], b)
                  /\ turn[3] = PopAndEncodeSize(turn[2], c)
                  /\ BacktrackAndEncodeSize(w, <<a, b, c>>) = EndBacktrack(turn[3])
  <2> DEFINE sizes == <<a, b, c>>
  <2>1. Len(sizes) = 3 /\ sizes[1] = a /\ sizes[2] = b /\ sizes[3] = c
    OBVIOUS
  <2> HIDE DEF sizes
  <2>2. PICK turn : /\ turn[0] = StartBacktrack(w)
                  /\ \A n \in 1 .. Len(sizes) : turn[n] = PopAndEncodeSize(turn[n - 1], sizes[n])
                  /\ BacktrackAndEncodeSize(w, sizes) = EndBacktrack(turn[Len(sizes)])
    <3>1. Len(sizes) \in Nat
      BY <2>1
    <3>2. QED
      BY <3>1, Turns, Zenon
  <2>3. /\ turn[1] = PopAndEncodeSize(turn[0], a) /\ turn[2] = PopAndEncodeSize(turn[1], b)
        /\ turn[3] = PopAndEncodeSize(turn[2], c)
    BY <2>1, <2>2
  <2>4. QED
    BY <2>1, <2>2, <2>3 DEF sizes
<1>2. turn[0] = Away(w, p)
  BY <1>1, AwayAndBack
<1>3. d1 \in Nat /\ d2 \in Nat /\ d3 = d2 + 1 /\ d2 = d1 + 1
  OBVIOUS
<1>4. Closed(r, w, x, d2, p) /\ \E at : turn[1] = Away(x, at)
  <2> HIDE DEF x
  <2>1. Stands(r, w, d3, p)
    BY <1>3
  <2>2. QED
    <3>1. /\ Closed(r, w, Close(w, a), d2, p)
          /\ PopAndEncodeSize(Away(w, p), a) = Away(Close(w, a), Behind(w))
      BY <1>3, <2>1, TurnCloses, TurnPops
    <3>2. QED
      BY <1>1, <1>2, <3>1, Zenon DEF x
<1>5. PICK at : turn[1] = Away(x, at)
  BY <1>4
<1> HIDE DEF x
<1>6. Closed(r, x, y, d1, p) /\ \E to : turn[2] = Away(y, to)
  <2> HIDE DEF y
  <2>1. Stands(r, x, d2, p)
    BY <1>3, <1>4 DEF Closed
  <2>2. QED
    <3>1. /\ Closed(r, x, Close(x, b), d1, p)
          /\ PopAndEncodeSize(Away(x, at), b) = Away(Close(x, b), Behind(x))
      BY <1>3, <2>1, TurnCloses, TurnPops
    <3>2. QED
      BY <1>1, <1>5, <3>1, Zenon DEF y
<1>7. PICK to : turn[2] = Away(y, to)
  BY <1>6
<1> HIDE DEF y
<1>8. Closed(r, y, z, d, p) /\ \E end : turn[3] = Away(z, end)
  <2>1. Stands(r, y, d1, p)
    BY <1>6 DEF Closed
  <2>2. /\ Closed(r, y, Close(y, c), d, p)
        /\ PopAndEncodeSize(Away(y, to), c) = Away(Close(y, c), Behind(y))
    BY <2>1, TurnCloses, TurnPops
  <2>3. QED
    BY <1>1, <1>7, <2>2, Zenon
<1>9. PICK end : turn[3] = Away(z, end)
  BY <1>8
<1> HIDE DEF z
<1>10. EndBacktrack(Away(z, end)) = z
  BY <1>8, AwayAndBack DEF Closed
<1>11. Closed(r, w, z, d, p)
  BY <1>4, <1>6, <1>8 DEF Closed
<1>12. QED
  BY <1>1, <1>9, <1>10, <1>11

(***************************************************************************)
(* A writer that has failed stays as it is: every later call returns at    *)
(* its `?`.                                                                *)
(***************************************************************************)
LEMMA FailedStays ==
  ASSUME NEW w, w.error # "Ok"
  PROVE  /\ \A e : Emit(w, e) = w
         /\ \A s : Len(s) \in Nat => BacktrackAndEncodeSize(w, s) = w
         /\ CheckNotTruncated(w) = w
<1>1. (\A e : Emit(w, e) = w) /\ CheckNotTruncated(w) = w
  BY DEF Emit, CheckNotTruncated, IfOk
<1>2. ASSUME NEW s, Len(s) \in Nat PROVE BacktrackAndEncodeSize(w, s) = w
  <2>1. PICK turn : /\ turn[0] = StartBacktrack(w)
                    /\ \A n \in 1 .. Len(s) : turn[n] = PopAndEncodeSize(turn[n - 1], s[n])
                    /\ BacktrackAndEncodeSize(w, s) = EndBacktrack(turn[Len(s)])
    BY <1>2, Turns
  <2> DEFINE T == {n \in Nat : turn[n] = w}
  <2>2. 0 \in T
    BY <2>1 DEF StartBacktrack, IfOk
  <2>3. ASSUME NEW n \in 1 .. Len(s), n - 1 \in T PROVE n \in T
    <3>1. n \in Nat /\ turn[n - 1] = w /\ turn[n] = PopAndEncodeSize(turn[n - 1], s[n])
      BY <2>1, <2>3
    <3>2. PopAndEncodeSize(w, s[n]) = w
      BY Zenon DEF PopAndEncodeSize, IfOk
    <3>3. QED
      BY <3>1, <3>2
  <2>4. \A n \in 0 .. Len(s) : n \in T
    <3> HIDE DEF T
    <3> QED  BY <1>2, <2>2, <2>3, UpTo
  <2>5. turn[Len(s)] = w
    BY <1>2, <2>4
  <2>6. QED
    BY <2>1, <2>5 DEF EndBacktrack, IfOk
<1>3. QED
  BY <1>1, <1>2

(***************************************************************************)
(* check_not_truncated passes a writer that is within the buffer and fails *)
(* any other.                                                              *)
(***************************************************************************)
LEMMA Truncation ==
  ASSUME NEW w, NEW d, NEW p, Stands(request, w, d, p)
  PROVE  LET v == CheckNotTruncated(w)
         IN  \/ v = w /\ ~(p > request.capacity)
             \/ /\ Good(request, v) /\ v.error = "CertSizeOverflow"
                /\ v.saved_offset = None /\ v.backtracks = w.backtracks
<1>1. w \in WriterRecord /\ w.error = "Ok" /\ w.offset = p /\ w.saved_offset = None /\ Sound(request, w)
  BY DEF Stands, Good
<1>2. CASE ~(p > request.capacity)
  BY <1>1, <1>2 DEF CheckNotTruncated, IfOk
<1>3. CASE p > request.capacity
  <2> DEFINE v == CheckNotTruncated(w)
  <2>1. v = [w EXCEPT !.error = "CertSizeOverflow"]
    BY <1>1, <1>3 DEF CheckNotTruncated, IfOk, Fail
  <2> HIDE DEF v
  <2>2. v \in WriterRecord /\ v.error = "CertSizeOverflow" /\ v.saved_offset = None /\ v.backtracks = w.backtracks
        /\ v.log = w.log /\ v.offset = w.offset /\ v.exact = w.exact
    BY <1>1, <2>1 DEF WriterRecord, Errors
  <2>3. QED
    BY <1>1, <2>2, SameBytes DEF Stands, Good, v
<1>4. QED
  BY <1>2, <1>3

-----------------------------------------------------------------------------
(***************************************************************************)
(* Between two boundaries with no skip pending between them, the writes    *)
(* fill the buffer.                                                        *)
(***************************************************************************)
LEMMA NoGaps ==
  ASSUME NEW r, writer \in WriterRecord, Sound(r, writer),
         NEW from \in Nat, NEW to \in Nat, from \in Boundaries(writer), to \in Boundaries(writer),
         from < to, to <= writer.offset,
         \A j \in DOMAIN writer.backtracks :
           writer.backtracks[j][2] <= from \/ to <= writer.backtracks[j][1],
         NEW W, W = {i \in Writes : writer.log[i].from < to /\ from < writer.log[i].to}
  PROVE  Fill(W, from, to)
<1> DEFINE log == writer.log
           skips == writer.backtracks
<1>1. /\ writer.offset \in Nat /\ Writes = WritesOf(log)
      /\ \A i \in Writes : log[i].from \in Nat /\ log[i].to \in Nat /\ log[i].from < log[i].to
                           /\ log[i].to <= writer.offset
      /\ \A i, j \in Writes : i # j => log[i].to <= log[j].from \/ log[j].to <= log[i].from
      /\ \A j \in DOMAIN skips : skips[j][1] \in Nat /\ skips[j][2] \in Nat /\ skips[j][1] < skips[j][2]
                                 /\ skips[j][2] <= writer.offset
      /\ \A i \in Writes, j \in DOMAIN skips : log[i].to <= skips[j][1] \/ skips[j][2] <= log[i].from
      /\ \A j \in DOMAIN skips : skips[j][2] <= from \/ to <= skips[j][1]
  <2>1. writer.offset \in Nat /\ Writes = WritesOf(log)
    BY WriterParts DEF Writes, WritesOf
  <2>2. /\ \A i \in WritesOf(log) : log[i].from \in Nat /\ log[i].to \in Nat
        /\ \A j \in DOMAIN skips : skips[j][1] \in Nat /\ skips[j][2] \in Nat
    BY WriterParts
  <2>3. /\ \A i \in WritesOf(log) : log[i].from < log[i].to /\ log[i].to <= writer.offset
        /\ \A i, j \in WritesOf(log) : i # j => log[i].to <= log[j].from \/ log[j].to <= log[i].from
        /\ \A i \in WritesOf(log), j \in DOMAIN skips : log[i].to <= skips[j][1] \/ skips[j][2] <= log[i].from
    BY DEF Sound, WritesLieApart
  <2>4. \A j \in DOMAIN skips : skips[j][1] < skips[j][2] /\ skips[j][2] <= writer.offset
    BY <2>2 DEF Sound, SkipsLieApart
  <2>5. QED
    BY <2>1, <2>2, <2>3, <2>4
<1>2. ASSUME NEW x
      PROVE  /\ x \in Boundaries(writer) <=>
                  x = 0 \/ (\E i \in Writes : x = log[i].to) \/ (\E j \in DOMAIN skips : x = skips[j][2])
             /\ x \in Boundaries(writer) <=>
                  x = writer.offset \/ (\E i \in Writes : x = log[i].from) \/ (\E j \in DOMAIN skips : x = skips[j][1])
  <2>1. Boundaries(writer) = Starts(writer) \cup {writer.offset}
    BY DEF Sound, Chained
  <2>2. x \in Boundaries(writer) <=>
             x = 0 \/ (\E i \in Writes : x = log[i].to) \/ (\E j \in DOMAIN skips : x = skips[j][2])
    BY <1>1 DEF Boundaries, Ends
  <2>3. x \in Starts(writer) <=>
             (\E i \in Writes : x = log[i].from) \/ (\E j \in DOMAIN skips : x = skips[j][1])
    BY <1>1 DEF Starts
  <2>4. QED
    BY <2>1, <2>2, <2>3
<1>3. ASSUME NEW x \in Nat, x \in Boundaries(writer), from <= x, x < to
      PROVE  \E i \in W : x = log[i].from
  <2>1. (\E i \in Writes : x = log[i].from) \/ (\E j \in DOMAIN skips : x = skips[j][1])
    BY <1>1, <1>2, <1>3
  <2>2. ~ \E j \in DOMAIN skips : x = skips[j][1]
    BY <1>1, <1>3
  <2>3. PICK i \in Writes : x = log[i].from
    BY <2>1, <2>2
  <2>4. i \in W
    BY <1>1, <1>3, <2>3
  <2>5. QED
    BY <2>3, <2>4
<1>4. ASSUME NEW x \in Nat, x \in Boundaries(writer), from < x, x <= to
      PROVE  \E i \in W : x = log[i].to
  <2>1. (\E i \in Writes : x = log[i].to) \/ (\E j \in DOMAIN skips : x = skips[j][2])
    BY <1>1, <1>2, <1>4
  <2>2. ~ \E j \in DOMAIN skips : x = skips[j][2]
    BY <1>1, <1>4
  <2>3. PICK i \in Writes : x = log[i].to
    BY <2>1, <2>2
  <2>4. i \in W
    BY <1>1, <1>4, <2>3
  <2>5. QED
    BY <2>3, <2>4
<1>5. ASSUME NEW i \in W PROVE from <= log[i].from
  <2>1. i \in Writes /\ log[i].from < to /\ from < log[i].to
    OBVIOUS
  <2>2. CASE log[i].from < from
    <3>1. PICK j \in W : from = log[j].from
      BY <1>3
    <3>2. j \in Writes /\ j # i
      BY <1>1, <2>1, <2>2, <3>1
    <3>3. QED
      BY <1>1, <2>1, <2>2, <3>1, <3>2
  <2>3. QED
    BY <1>1, <2>1, <2>2
<1>6. ASSUME NEW i \in W PROVE log[i].to <= to
  <2>1. i \in Writes /\ log[i].from < to /\ from < log[i].to
    OBVIOUS
  <2>2. CASE to < log[i].to
    <3>1. PICK j \in W : to = log[j].to
      BY <1>4
    <3>2. j \in Writes /\ j # i /\ from < log[j].to
      BY <1>1, <2>1, <2>2, <3>1
    <3>3. log[i].to <= log[j].from \/ log[j].to <= log[i].from
      BY <1>1, <2>1, <3>2
    <3>4. QED
      BY <1>1, <2>1, <2>2, <3>1, <3>2, <3>3
  <2>3. QED
    BY <1>1, <2>1, <2>2
<1>7. {from} \cup {log[i].to : i \in W} = {log[i].from : i \in W} \cup {to}
  <2>1. ASSUME NEW i \in W PROVE log[i].to \in {log[k].from : k \in W} \cup {to}
    <3>1. i \in Writes /\ log[i].to \in Nat /\ log[i].to \in Boundaries(writer)
      BY <1>1, <1>2
    <3>2. from <= log[i].to /\ log[i].to <= to
      BY <1>1, <1>6, <3>1
    <3>3. CASE log[i].to # to
      <4>1. \E k \in W : log[i].to = log[k].from
        BY <1>3, <3>1, <3>2, <3>3
      <4>2. QED
        BY <4>1
    <3>4. QED
      BY <3>3
  <2>2. ASSUME NEW i \in W PROVE log[i].from \in {from} \cup {log[k].to : k \in W}
    <3>1. i \in Writes /\ log[i].from \in Nat /\ log[i].from \in Boundaries(writer)
      BY <1>1, <1>2
    <3>2. from <= log[i].from /\ log[i].from <= to
      BY <1>1, <1>5, <3>1
    <3>3. CASE log[i].from # from
      <4>1. \E k \in W : log[i].from = log[k].to
        BY <1>4, <3>1, <3>2, <3>3
      <4>2. QED
        BY <4>1
    <3>4. QED
      BY <3>3
  <2>3. from \in {log[i].from : i \in W}
    BY <1>3
  <2>4. to \in {log[i].to : i \in W}
    BY <1>4
  <2>5. QED
    BY <2>1, <2>2, <2>3, <2>4
<1>8. QED
  <2>1. \A i \in W : from <= log[i].from /\ log[i].from < log[i].to /\ log[i].to <= to
    BY <1>1, <1>5, <1>6
  <2>2. \A i, j \in W : i # j => log[i].to <= log[j].from \/ log[j].to <= log[i].from
    BY <1>1
  <2>3. QED
    BY <1>7, <2>1, <2>2, Zenon DEF Fill

-----------------------------------------------------------------------------
(***************************************************************************)
(* The local variables that count bytes.                                   *)
(***************************************************************************)
Counts ==
  [ content_info : Nat, signed_data : Nat, encap : Nat, csr_start : Nat,
    payload_start : Nat, payload : Nat, signed_payload : Nat, total : Nat ]

(***************************************************************************)
(* The stretches of code.                                                  *)
(***************************************************************************)
Stages == {"BeginCms", "BeginEncap", "PayloadHead", "PayloadTail", "SignPayload",
           "AppendSignature", "EndEncap", "SignCsr", "EndCms", "Done"}

(***************************************************************************)
(* How many skips are pending around a certificate or CSR.                 *)
(***************************************************************************)
Depth(r) == IF r.format = "Csr" THEN 6 ELSE 0
(***************************************************************************)
(* Where a certificate or CSR begins.                                      *)
(***************************************************************************)
Base(r) == IF r.format = "Csr" THEN 64 ELSE 0

(***************************************************************************)
(* Around a CSR, what was counted of the CMS message so far.               *)
(***************************************************************************)
Encapsulated(r, w, c) ==
  r.format = "Csr" => /\ c.content_info = 15 /\ c.signed_data = 18 /\ c.encap = 13 /\ c.csr_start = 64
                      /\ 64 \in Boundaries(w)

(***************************************************************************)
(* A CMS message begins at the start of the buffer.                        *)
(***************************************************************************)
AtBeginCms(r, w) == r.format = "Csr" /\ Stands(r, w, 0, 0)

(***************************************************************************)
(* ContentInfo, [0] and SignedData are open.                               *)
(***************************************************************************)
AtBeginEncap(r, w, c) ==
  /\ r.format = "Csr" /\ Stands(r, w, 3, 41)
  /\ c.content_info = 15 /\ c.signed_data = 18

(***************************************************************************)
(* A certificate begins at the start, a CSR inside six structures.         *)
(***************************************************************************)
AtPayloadHead(r, w, c) == Stands(r, w, Depth(r), Base(r)) /\ Encapsulated(r, w, c)

(***************************************************************************)
(* Envelope and payload are open, and the count is what the payload has so *)
(* far.                                                                    *)
(***************************************************************************)
AtPayloadTail(r, w, c) ==
  /\ Stands(r, w, Depth(r) + 2, Base(r) + 8 + c.payload)
  /\ Encapsulated(r, w, c)
  /\ c.payload_start = Base(r) + 4 /\ Base(r) + 4 \in Boundaries(w)
  /\ 99 <= c.payload /\ c.payload <= 500

(***************************************************************************)
(* The payload is closed, counted with its prefix, and in the buffer.      *)
(***************************************************************************)
AtSignature(r, w, c) ==
  /\ Stands(r, w, Depth(r) + 1, Base(r) + 4 + c.payload)
  /\ Encapsulated(r, w, c)
  /\ c.payload_start = Base(r) + 4 /\ Base(r) + 4 \in Boundaries(w)
  /\ 256 <= c.payload /\ c.payload <= 21000
  /\ Base(r) + 4 + c.payload <= r.capacity

(***************************************************************************)
(* The CSR is closed and counted.                                          *)
(***************************************************************************)
AtEndEncap(r, w, c) ==
  /\ r.format = "Csr" /\ Stands(r, w, 6, 64 + c.signed_payload)
  /\ Encapsulated(r, w, c)
  /\ 256 <= c.signed_payload /\ c.signed_payload <= 27000
  /\ 64 + c.signed_payload <= r.capacity

(***************************************************************************)
(* What remains of the CMS message once the encapsulated CSR is closed.    *)
(***************************************************************************)
AtCsr(r, w, c) ==
  /\ r.format = "Csr" /\ Stands(r, w, 3, 23 + c.signed_data)
  /\ c.content_info = 15
  /\ 256 <= c.signed_data /\ c.signed_data <= 28000

(***************************************************************************)
(* The CSR's range, which is to be signed, is that of the bytes from 64 to *)
(* where the writer is.                                                    *)
(***************************************************************************)
AtSignCsr(r, w, c) ==
  /\ AtCsr(r, w, c)
  /\ w.csr_range = <<64, 23 + c.signed_data>> /\ 64 \in Boundaries(w)
  /\ 23 + c.signed_data <= r.capacity

(***************************************************************************)
(* The writer is at the end of what it says it wrote, with no skip         *)
(* pending.                                                                *)
(***************************************************************************)
AtTheEnd(r, w, c) ==
  w.error = "Ok" => Stands(r, w, 0, c.total) /\ 0 < c.total /\ c.total <= r.capacity

(***************************************************************************)
(* Where the writer is before each stretch of code.                        *)
(***************************************************************************)
At(r, w, c, stage) ==
  /\ stage = "BeginCms" => AtBeginCms(r, w)
  /\ stage = "BeginEncap" => AtBeginEncap(r, w, c)
  /\ stage = "PayloadHead" => AtPayloadHead(r, w, c)
  /\ stage = "PayloadTail" => AtPayloadTail(r, w, c)
  /\ stage \in {"SignPayload", "AppendSignature"} => AtSignature(r, w, c)
  /\ stage = "EndEncap" => AtEndEncap(r, w, c)
  /\ stage = "SignCsr" => AtSignCsr(r, w, c)
  /\ stage = "EndCms" => AtCsr(r, w, c)
  /\ stage = "Done" => AtTheEnd(r, w, c)

(***************************************************************************)
(* The inductive invariant: the buffer is sound, and the writer and the    *)
(* counts are where the next stretch of code expects them.                 *)
(***************************************************************************)
WriterInv ==
  /\ request \in Requests
  /\ pc \in Stages
  /\ count \in Counts
  /\ Good(request, writer)
  /\ At(request, writer, count, pc)

(***************************************************************************)
(* A stretch that ends in GoOn re-establishes the invariant if it leads to *)
(* where the next one begins, or fails with one of two errors.             *)
(***************************************************************************)
LEMMA GoesOn ==
  ASSUME request \in Requests, NEW w, NEW c, NEW next \in Stages, GoOn(w, c, next),
         Good(request, w), c \in Counts, w.error = "Ok" => At(request, w, c, next)
  PROVE  WriterInv'
<1>1. request' = request /\ writer' = w /\ count' = c /\ pc' = IF w.error = "Ok" THEN next ELSE "Done"
  BY DEF GoOn
<1>2. CASE w.error = "Ok"
  BY <1>1, <1>2 DEF WriterInv
<1>3. CASE w.error # "Ok"
  <2>1. At(request, w, c, "Done")
    BY <1>3 DEF At, AtTheEnd
  <2>2. "Done" \in Stages
    BY DEF Stages
  <2>3. QED
    BY <1>1, <1>3, <2>1, <2>2 DEF WriterInv
<1>4. QED
  BY <1>2, <1>3

(***************************************************************************)
(* Emit, for exact parts.                                                  *)
(***************************************************************************)
LEMMA EmitsTo ==
  ASSUME NEW r, NEW w, NEW d \in Nat, NEW p \in Nat, Stands(r, w, d, p),
         NEW n \in Nat, n > 0, NEW q, q = p + n
  PROVE  /\ Stands(r, Emit(w, Exactly(n)), d, q)
         /\ Boundaries(w) \subseteq Boundaries(Emit(w, Exactly(n)))
         /\ Emit(w, Exactly(n)).csr_range = w.csr_range
<1>1. Exactly(n) \in Emitted /\ Exactly(n).written = n /\ Exactly(n).exact
  BY EmittedParts
<1>2. QED
  BY <1>1, EmitStands

(***************************************************************************)
(* push_backtrack, with the position it leads to.                          *)
(***************************************************************************)
LEMMA OpensTo ==
  ASSUME NEW r, NEW w, NEW d \in Nat, NEW p \in Nat, Stands(r, w, d, p),
         NEW e, e = d + 1, e \in DOMAIN Place(r), Place(r)[e] = p + 1, NEW q, q = p + 4
  PROVE  /\ Stands(r, Open(w), e, q)
         /\ Boundaries(w) \subseteq Boundaries(Open(w))
         /\ Open(w).csr_range = w.csr_range
         /\ q \in Boundaries(Open(w))
<1>1. /\ Stands(r, Open(w), e, q)
      /\ Boundaries(w) \subseteq Boundaries(Open(w))
      /\ Open(w).csr_range = w.csr_range
  BY OpenStands
<1>2. q \in Boundaries(Open(w))
  BY <1>1 DEF Stands, Good, Sound, Chained
<1>3. QED
  BY <1>1, <1>2

(***************************************************************************)
(* The places of the CMS message around a CSR.                             *)
(***************************************************************************)
LEMMA CsrPlaces ==
  ASSUME NEW r, r.format = "Csr"
  PROVE  /\ DOMAIN Place(r) = 1 .. 8
         /\ Place(r)[1] = 1 /\ Place(r)[2] = 16 /\ Place(r)[3] = 20 /\ Place(r)[4] = 42
         /\ Place(r)[5] = 57 /\ Place(r)[6] = 61
BY DEF Place

(***************************************************************************)
(* The places of a certificate or CSR itself.                              *)
(***************************************************************************)
LEMMA PayloadPlaces ==
  ASSUME NEW r
  PROVE  /\ Depth(r) \in Nat /\ Base(r) \in Nat
         /\ Depth(r) + 1 \in DOMAIN Place(r) /\ Depth(r) + 2 \in DOMAIN Place(r)
         /\ Place(r)[Depth(r) + 1] = Base(r) + 1 /\ Place(r)[Depth(r) + 2] = Base(r) + 5
BY DEF Place, Depth, Base

(***************************************************************************)
(* What encode_cms writes whatever the request.                            *)
(***************************************************************************)
LEMMA FixedParts ==
  /\ EncodeTlv(OID_PKCS) = Exactly(11) /\ EncodeCmsVersion = Exactly(3)
  /\ EncodeStructure(StructureSize(HashAlgIdSize), EncodeHashAlgId) = Exactly(15)
  /\ EncodeCmsVersion ++ EncodeStructure(StructureSize(HashAlgIdSize), EncodeHashAlgId) = Exactly(18)
<1>1. EncodeTlv(OID_PKCS) = Exactly(11)
  <2>1. StructureSize(9) = 11
    BY StructureSizeOfShort
  <2>2. QED
    BY <2>1, ExactParts DEF OID_PKCS
<1>2. EncodeCmsVersion = Exactly(3)
  BY SmallIntegerIsOne DEF EncodeCmsVersion
<1>3. EncodeStructure(StructureSize(HashAlgIdSize), EncodeHashAlgId) = Exactly(15)
  <2>1. StructureSize(11) = 13 /\ StructureSize(13) = 15
    BY StructureSizeOfShort
  <2>2. EncodeStructure(13, Exactly(13)) = Exactly(15)
    BY <2>1, ExactParts
  <2>3. QED
    BY <2>1, <2>2, ExactHashAlgId
<1>4. Exactly(3) ++ Exactly(15) = Exactly(18)
  BY ExactParts
<1>5. QED
  BY <1>1, <1>2, <1>3, <1>4

(***************************************************************************)
(* A request that is asked for has a lineage of at most MAX_HANDLES.       *)
(***************************************************************************)
LEMMA Asked ==
  ASSUME WriterInv
  PROVE  request \in Request /\ WithinHandles(request) /\ (EqualSvnWidths <=> SameWidths(request))
BY RequestsAssumption DEF WriterInv, WithinHandles, EqualSvnWidths, SameWidths

(***************************************************************************)
(* A new writer is at the start of an empty buffer.                        *)
(***************************************************************************)
LEMMA InitWriterInv == Init => WriterInv
<1> SUFFICES ASSUME Init PROVE WriterInv
  OBVIOUS
<1>1. writer \in WriterRecord
  BY DEF Init, NewWriter, WriterRecord, Errors, None
<1>2. /\ writer.offset = 0 /\ writer.backtracks = << >> /\ writer.log = << >> /\ writer.error = "Ok"
      /\ writer.saved_offset = None /\ writer.exact
  BY DEF Init, NewWriter
<1>3. DOMAIN writer.log = {} /\ DOMAIN writer.backtracks = {} /\ WritesOf(writer.log) = {}
  BY <1>2 DEF WritesOf
<1>4. Sound(request, writer)
  <2>1. Starts(writer) = {} /\ Ends(writer) = {}
    BY <1>3 DEF Starts, Ends
  <2>2. Chained(writer)
    BY <1>2, <2>1 DEF Chained, Boundaries
  <2>3. QED
    BY <1>3, <2>2 DEF Sound, SkipsLieApart, WritesLieApart, WritesReachTheEnd
<1>5. Stands(request, writer, 0, 0) /\ Good(request, writer)
  BY <1>1, <1>2, <1>4 DEF Stands, Good, Stack, MAX_BACKTRACKS
<1>6. count \in Counts
  BY DEF Init, Counts
<1>7. request \in Requests /\ pc = IF request.format = "Csr" THEN "BeginCms" ELSE "PayloadHead"
  BY DEF Init, IsCsr
<1>8. CASE request.format = "Csr"
  <2>1. pc = "BeginCms"
    BY <1>7, <1>8
  <2>2. At(request, writer, count, pc)
    BY <1>5, <1>8, <2>1 DEF At, AtBeginCms
  <2>3. QED
    BY <1>5, <1>6, <1>7, <2>1, <2>2 DEF WriterInv, Stages
<1>9. CASE request.format # "Csr"
  <2>1. pc = "PayloadHead"
    BY <1>7, <1>9
  <2>2. At(request, writer, count, pc)
    BY <1>5, <1>9, <2>1 DEF At, AtPayloadHead, Encapsulated, Depth, Base
  <2>3. QED
    BY <1>5, <1>6, <1>7, <2>1, <2>2 DEF WriterInv, Stages
<1>10. QED
  BY <1>8, <1>9

(***************************************************************************)
(* encode_cms opens three structures.                                      *)
(***************************************************************************)
LEMMA BeginCmsStep == WriterInv /\ BeginCms => WriterInv'
<1> SUFFICES ASSUME WriterInv, BeginCms PROVE WriterInv'
  OBVIOUS
<1> DEFINE r == request
           a == Open(writer)
           b == Emit(a, Exactly(11))
           e == Open(b)
           f == Open(e)
           w == Emit(f, Exactly(18))
           c == [count EXCEPT !.content_info = 15, !.signed_data = 18]
<1>1. r \in Requests /\ r.format = "Csr" /\ count \in Counts /\ Stands(r, writer, 0, 0)
  BY DEF WriterInv, BeginCms, At, AtBeginCms
<1>2. GoOn(w, c, "BeginEncap")
  <2>1. /\ EncodeTlv(OID_PKCS).written = 11
        /\ EncodeCmsVersion.written = 3
        /\ EncodeStructure(StructureSize(HashAlgIdSize), EncodeHashAlgId).written = 15
    BY FixedParts, EmittedParts
  <2>2. EncodeTlv(OID_PKCS).written + 1 + SIZE_TAG_OFFSET = 15
    BY <2>1 DEF SIZE_TAG_OFFSET
  <2>3. EncodeCmsVersion.written + EncodeStructure(StructureSize(HashAlgIdSize), EncodeHashAlgId).written = 18
    BY <2>1
  <2>4. GoOn(Emit(Open(Open(Emit(Open(writer), EncodeTlv(OID_PKCS)))),
                  EncodeCmsVersion ++ EncodeStructure(StructureSize(HashAlgIdSize), EncodeHashAlgId)),
             [count EXCEPT !.content_info = EncodeTlv(OID_PKCS).written + 1 + SIZE_TAG_OFFSET,
                           !.signed_data = EncodeCmsVersion.written
                             + EncodeStructure(StructureSize(HashAlgIdSize), EncodeHashAlgId).written],
             "BeginEncap")
    BY Zenon DEF BeginCms
  <2>5. QED
    BY <2>2, <2>3, <2>4, FixedParts, Zenon
<1> HIDE DEF r, a, b, e, f, w, c
<1>3. Stands(r, a, 1, 4)
  BY <1>1, CsrPlaces, OpensTo DEF a
<1>4. Stands(r, b, 1, 15)
  <2>1. 11 \in Nat /\ 11 > 0 /\ 15 = 4 + 11
    OBVIOUS
  <2>2. QED
    BY <1>3, <2>1, EmitsTo DEF b
<1>5. Stands(r, e, 2, 19)
  BY <1>1, <1>4, CsrPlaces, OpensTo DEF e
<1>6. Stands(r, f, 3, 23)
  BY <1>1, <1>5, CsrPlaces, OpensTo DEF f
<1>7. Stands(r, w, 3, 41)
  BY <1>6, EmitsTo DEF w
<1>8. c \in Counts /\ c.content_info = 15 /\ c.signed_data = 18
  BY <1>1 DEF c, Counts
<1>9. At(r, w, c, "BeginEncap") /\ Good(r, w)
  BY <1>1, <1>7, <1>8 DEF At, AtBeginEncap, Stands
<1>10. QED
  BY <1>1, <1>2, <1>8, <1>9, GoesOn DEF r, Stages

(***************************************************************************)
(* encode_encapsulated_content_info opens three more.                      *)
(***************************************************************************)
LEMMA BeginEncapStep == WriterInv /\ BeginEncap => WriterInv'
<1> SUFFICES ASSUME WriterInv, BeginEncap PROVE WriterInv'
  OBVIOUS
<1> DEFINE r == request
           a == Open(writer)
           b == Emit(a, Exactly(11))
           e == Open(b)
           w == Open(e)
           c == [count EXCEPT !.encap = 13, !.csr_start = 64]
<1>1. /\ r \in Requests /\ r.format = "Csr" /\ count \in Counts /\ Stands(r, writer, 3, 41)
      /\ count.content_info = 15 /\ count.signed_data = 18
  BY DEF WriterInv, BeginEncap, At, AtBeginEncap
<1>2. Stands(r, a, 4, 45)
  <2> HIDE DEF r, a
  <2> QED  BY <1>1, CsrPlaces, OpensTo DEF a
<1>3. Stands(r, b, 4, 56)
  <2> DEFINE n == 11
             d == 4
             p == 45
             q == 56
  <2>1. n \in Nat /\ n > 0 /\ q = p + n /\ p \in Nat /\ d \in Nat
    OBVIOUS
  <2>2. Stands(r, a, d, p) /\ b = Emit(a, Exactly(n))
    BY <1>2
  <2> HIDE DEF r, a, b, n, d, p, q
  <2>3. Stands(r, b, d, q)
    BY <2>1, <2>2, EmitsTo
  <2>4. QED
    BY <2>3 DEF d, q
<1>4. Stands(r, e, 5, 60)
  <2> HIDE DEF r, b, e
  <2> QED  BY <1>1, <1>3, CsrPlaces, OpensTo DEF e
<1>5. Stands(r, w, 6, 64) /\ 64 \in Boundaries(w)
  <2> HIDE DEF r, e, w
  <2> QED  BY <1>1, <1>4, CsrPlaces, OpensTo DEF w
<1>6. GoOn(w, c, "PayloadHead")
  <2>1. EncodeTlv(OID_PKCS).written + 1 + 1 = 13
    BY FixedParts, EmittedParts
  <2>2. w.offset = 64
    BY <1>5 DEF Stands
  <2>3. LET v == Open(Open(Emit(Open(writer), EncodeTlv(OID_PKCS))))
        IN  GoOn(v, [count EXCEPT !.encap = EncodeTlv(OID_PKCS).written + 1 + 1, !.csr_start = v.offset], "PayloadHead")
    BY Zenon DEF BeginEncap
  <2>4. Open(Open(Emit(Open(writer), EncodeTlv(OID_PKCS)))) = w
    BY FixedParts
  <2> HIDE DEF w
  <2>5. QED
    BY <2>1, <2>2, <2>3, <2>4, Zenon
<1> HIDE DEF r, w, c
<1>7. /\ c \in Counts /\ c.content_info = 15 /\ c.signed_data = 18 /\ c.encap = 13 /\ c.csr_start = 64
  BY <1>1 DEF c, Counts
<1>8. At(r, w, c, "PayloadHead") /\ Good(r, w)
  BY <1>1, <1>5, <1>7 DEF At, AtPayloadHead, Encapsulated, Depth, Base, Stands
<1>9. QED
  BY <1>1, <1>6, <1>7, <1>8, GoesOn DEF r, Stages

(***************************************************************************)
(* A certificate or CSR opens two; the buffer may be full.                 *)
(***************************************************************************)
LEMMA EncodePayloadHeadStep == WriterInv /\ EncodePayloadHead => WriterInv'
<1> SUFFICES ASSUME WriterInv, EncodePayloadHead PROVE WriterInv'
  OBVIOUS
<1> DEFINE r == request
           d == Depth(r)
           base == Base(r)
           a == Open(writer)
           b == Open(a)
<1>1. r \in Requests /\ r \in Request /\ count \in Counts /\ Stands(r, writer, d, base) /\ Encapsulated(r, writer, count)
  BY Asked DEF WriterInv, EncodePayloadHead, At, AtPayloadHead
<1>2. PICK n \in Nat : PayloadHeadBytes = Exactly(n) /\ 99 <= n /\ n <= 500
  BY <1>1, PayloadHeadEncoded
<1> DEFINE e == Emit(b, Exactly(n))
           w == CheckNotTruncated(e)
           c == [count EXCEPT !.payload_start = base + 4, !.payload = n]
           d1 == d + 1
           d2 == d + 2
<1>3. /\ d \in Nat /\ base \in Nat /\ d1 \in Nat /\ d2 = d1 + 1 /\ d2 \in Nat
      /\ d1 \in DOMAIN Place(r) /\ d2 \in DOMAIN Place(r)
      /\ Place(r)[d1] = base + 1 /\ Place(r)[d2] = base + 5
  BY PayloadPlaces
<1>4. /\ Stands(r, a, d1, base + 4) /\ base + 4 \in Boundaries(a)
      /\ Boundaries(writer) \subseteq Boundaries(a)
  <2> HIDE DEF r, d, base, a
  <2> QED  BY <1>1, <1>3, OpensTo DEF a
<1>5. Stands(r, b, d2, base + 8) /\ Boundaries(a) \subseteq Boundaries(b)
  <2> DEFINE p == base + 4
             q == base + 8
  <2>1. p \in Nat /\ q = p + 4 /\ Place(r)[d2] = p + 1
    BY <1>3
  <2> HIDE DEF r, d1, d2, base, a, b, p, q
  <2>2. Stands(r, b, d2, q) /\ Boundaries(a) \subseteq Boundaries(b)
    BY <1>3, <1>4, <2>1, OpensTo DEF b, p
  <2>3. QED
    BY <2>2 DEF q
<1>6. Stands(r, e, d2, base + 8 + n) /\ Boundaries(b) \subseteq Boundaries(e)
  <2> HIDE DEF r, d2, base, b, e
  <2>1. base + 8 \in Nat /\ n > 0
    BY <1>2, <1>3
  <2>2. QED
    BY <1>2, <1>3, <1>5, <2>1, EmitsTo DEF e
<1>7. GoOn(w, c, "PayloadTail")
  <2>1. a.offset = base + 4 /\ PayloadHeadBytes.written = n
    BY <1>2, <1>4, EmittedParts DEF Stands
  <2>2. GoOn(CheckNotTruncated(Emit(b, PayloadHeadBytes)),
              [count EXCEPT !.payload_start = a.offset, !.payload = PayloadHeadBytes.written], "PayloadTail")
    BY Zenon DEF EncodePayloadHead
  <2> HIDE DEF a, b
  <2>3. QED
    BY <1>2, <2>1, <2>2, Zenon
<1>8. c \in Counts /\ c.payload_start = base + 4 /\ c.payload = n
      /\ c.content_info = count.content_info /\ c.signed_data = count.signed_data
      /\ c.encap = count.encap /\ c.csr_start = count.csr_start
  <2> DEFINE start == base + 4
  <2>1. start \in Nat /\ c = [count EXCEPT !.payload_start = start, !.payload = n]
    BY <1>3
  <2> HIDE DEF start, c
  <2>2. QED
    BY <1>1, <2>1 DEF Counts, start
<1>9. Good(r, e)
  BY <1>6 DEF Stands
<1>10. Good(r, w) /\ (w.error = "Ok" => w = e)
  <2> HIDE DEF e, d2, base
  <2>1. \/ w = e
        \/ Good(r, w) /\ w.error = "CertSizeOverflow"
    BY <1>6, Truncation DEF r, w
  <2>2. QED
    BY <1>9, <2>1
<1>11. ASSUME w.error = "Ok" PROVE At(r, w, c, "PayloadTail")
  <2>1. w = e
    BY <1>10, <1>11
  <2>2. Encapsulated(r, e, c) /\ base + 4 \in Boundaries(e)
    <3> HIDE DEF r, base, a, b, e, c
    <3> QED  BY <1>1, <1>4, <1>5, <1>6, <1>8 DEF Encapsulated
  <2> HIDE DEF r, e, c, w
  <2>3. AtPayloadTail(r, w, c)
    BY <1>2, <1>6, <1>8, <2>1, <2>2 DEF AtPayloadTail
  <2>4. QED
    BY <2>3 DEF At
<1> HIDE DEF w, c
<1>12. QED
  BY <1>1, <1>7, <1>8, <1>10, <1>11, GoesOn DEF Stages

(***************************************************************************)
(* The payload is closed, with the count of its bytes.                     *)
(***************************************************************************)
LEMMA EncodePayloadTailStep == WriterInv /\ EncodePayloadTail => WriterInv'
<1> SUFFICES ASSUME WriterInv, EncodePayloadTail PROVE WriterInv'
  OBVIOUS
<1> DEFINE r == request
           d == Depth(r)
           d1 == d + 1
           d2 == d + 2
           base == Base(r)
           t == PayloadTailBytes.written
           body == count.payload + t
           p == base + 8 + count.payload
           q == base + 8 + body
           e == BacktrackAndEncodeSize(Emit(writer, PayloadTailBytes), <<body>>)
           w == CheckNotTruncated(e)
           c == [count EXCEPT !.payload = 1 + SizeWidth(body) + body]
<1>1. /\ r \in Requests /\ r \in Request /\ WithinHandles(r) /\ count \in Counts
      /\ Stands(r, writer, d2, p) /\ Encapsulated(r, writer, count)
      /\ count.payload_start = base + 4 /\ base + 4 \in Boundaries(writer)
      /\ 99 <= count.payload /\ count.payload <= 500
  BY Asked DEF WriterInv, EncodePayloadTail, At, AtPayloadTail
<1>2. /\ PayloadTailBytes \in Emitted /\ (SameWidths(r) => PayloadTailBytes.exact)
      /\ 176 <= t /\ t <= 20000 /\ t \in Nat
  BY <1>1, PayloadTailEncoded, EmittedParts DEF TailFits, Fits
<1>3. /\ d \in Nat /\ base \in Nat /\ d1 \in Nat /\ d2 = d1 + 1 /\ d2 \in Nat
      /\ d2 \in DOMAIN Place(r) /\ Place(r)[d2] = base + 5
  BY PayloadPlaces
<1>4. count.payload \in Nat
  BY <1>1 DEF Counts
<1> HIDE DEF t, d, d1, d2, base
<1>5. /\ body \in Nat /\ 256 <= body /\ body <= 20500 /\ p \in Nat /\ q \in Nat
      /\ q = p + t /\ Place(r)[d2] + 3 + body = p + t /\ body < 65536 /\ t > 0
  BY <1>1, <1>2, <1>3, <1>4
<1>6. GoOn(w, c, "SignPayload")
  BY Zenon DEF EncodePayloadTail, t
<1> HIDE DEF body, p, q
<1>7. Stands(r, e, d1, q) /\ Boundaries(writer) \subseteq Boundaries(e)
  <2> DEFINE u == Emit(writer, PayloadTailBytes)
  <2>1. Measured(r, d2, q, body)
    BY <1>3, <1>5, SizeWidthOfLong DEF Measured
  <2>2. q = p + PayloadTailBytes.written /\ PayloadTailBytes.written > 0
    BY <1>5 DEF t
  <2> HIDE DEF r
  <2>3. Stands(r, u, d2, q) /\ Boundaries(writer) \subseteq Boundaries(u)
    BY <1>1, <1>2, <1>3, <1>5, <2>2, EmitStands
  <2> HIDE DEF u
  <2>4. Closed(r, u, BacktrackAndEncodeSize(u, <<body>>), d1, q)
    BY <1>3, <1>5, <2>1, <2>3, BacktrackOne
  <2>5. QED
    BY <2>3, <2>4 DEF Closed, u
<1> HIDE DEF e
<1>8. SizeWidth(body) = 3
  BY <1>5, SizeWidthOfLong
<1>9. /\ c \in Counts /\ c.payload = 4 + body /\ c.payload_start = count.payload_start
      /\ c.content_info = count.content_info /\ c.signed_data = count.signed_data
      /\ c.encap = count.encap /\ c.csr_start = count.csr_start
  <2> DEFINE x == 4 + body
  <2>1. x \in Nat /\ c = [count EXCEPT !.payload = x]
    BY <1>5, <1>8
  <2> HIDE DEF c, x
  <2>2. QED
    BY <1>1, <2>1 DEF Counts, x
<1> HIDE DEF c
<1>10. \/ w = e /\ ~(q > r.capacity)
       \/ Good(r, w) /\ w.error = "CertSizeOverflow"
  BY <1>7, Truncation
<1>11. Good(r, w) /\ (w.error = "Ok" => w = e /\ q <= r.capacity)
  <2>1. Good(r, e) /\ r.capacity \in Nat
    BY <1>1, <1>7, RequestFields DEF Stands
  <2>2. QED
    BY <1>5, <1>10, <2>1
<1> HIDE DEF w
<1>12. ASSUME w.error = "Ok" PROVE At(r, w, c, "SignPayload")
  <2>1. w = e /\ q <= r.capacity
    BY <1>11, <1>12
  <2>2. Encapsulated(r, e, c) /\ base + 4 \in Boundaries(e)
    BY <1>1, <1>7, <1>9 DEF Encapsulated
  <2>3. q = base + 4 + c.payload
    BY <1>3, <1>5, <1>9 DEF q
  <2>4. 256 <= c.payload /\ c.payload <= 21000
    BY <1>5, <1>9
  <2>5. Stands(r, w, Depth(r) + 1, Base(r) + 4 + c.payload) /\ Base(r) + 4 + c.payload <= r.capacity
    BY <1>7, <2>1, <2>3 DEF d, d1, base
  <2>6. AtSignature(r, w, c)
    BY <1>1, <1>9, <2>1, <2>2, <2>4, <2>5 DEF AtSignature, base
  <2>7. QED
    BY <2>6 DEF At
<1>13. QED
  <2>1. "SignPayload" \in Stages
    BY DEF Stages
  <2>2. QED
    BY <1>1, <1>6, <1>9, <1>11, <1>12, <2>1, GoesOn

(***************************************************************************)
(* encode_signed_payload signs the payload, which is complete.             *)
(***************************************************************************)
LEMMA SignPayloadStep ==
  ASSUME NEW ok \in BOOLEAN, WriterInv, SignPayload(ok)
  PROVE  WriterInv'
<1> DEFINE r == request
           d == Depth(r) + 1
           from == Base(r) + 4
           p == from + count.payload
           w == SignRange(writer, from, p, ok)
<1>1. /\ r \in Requests /\ count \in Counts /\ AtSignature(r, writer, count)
      /\ GoOn(SignRange(writer, count.payload_start, count.payload_start + count.payload, ok),
              count, "AppendSignature")
  BY DEF WriterInv, SignPayload, At
<1>2. /\ Stands(r, writer, d, p) /\ p <= r.capacity /\ from \in Boundaries(writer)
      /\ count.payload_start = from
  BY <1>1 DEF AtSignature
<1>3. GoOn(w, count, "AppendSignature")
  BY <1>1, <1>2
<1>4. /\ d \in Nat /\ from \in Nat /\ p \in Nat /\ from < p
      /\ d \in DOMAIN Place(r) /\ Place(r)[d] + 3 <= from
  <2>1. count.payload \in Nat /\ count.payload > 0
    BY <1>1 DEF Counts, AtSignature
  <2>2. QED
    BY <2>1, PayloadPlaces
<1> HIDE DEF d, from, p
<1>5. /\ ok => Stands(r, w, d, p) /\ Boundaries(w) = Boundaries(writer)
      /\ ~ok => Good(r, w) /\ w.error = "Crypto"
  <2> HIDE DEF r
  <2> QED  BY <1>2, <1>4, SignStands
<1> HIDE DEF w
<1>6. Good(r, w)
  BY <1>5 DEF Stands
<1>7. ASSUME w.error = "Ok" PROVE At(r, w, count, "AppendSignature")
  <2>1. Stands(r, w, d, p) /\ Boundaries(w) = Boundaries(writer)
    BY <1>5, <1>7
  <2>2. AtSignature(r, w, count)
    BY <1>1, <2>1 DEF AtSignature, Encapsulated, d, from, p
  <2>3. QED
    BY <2>2 DEF At
<1>8. "AppendSignature" \in Stages
  BY DEF Stages
<1>9. QED
  BY <1>1, <1>3, <1>6, <1>7, <1>8, GoesOn

(***************************************************************************)
(* The signature is appended and the envelope closed.                      *)
(***************************************************************************)
LEMMA AppendSignatureStep == WriterInv /\ AppendSignature => WriterInv'
<1> SUFFICES ASSUME WriterInv, AppendSignature PROVE WriterInv'
  OBVIOUS
<1> DEFINE r == request
           d == Depth(r)
           d1 == d + 1
           base == Base(r)
           sig == EncodeSignatureBitString(r)
           body == count.payload + sig.written
           all == body + 1 + SizeWidth(body)
           p == base + 4 + count.payload
           q == base + 4 + body
           e == BacktrackAndEncodeSize(Emit(writer, sig), <<body>>)
           w == CheckNotTruncated(e)
           c == [count EXCEPT !.signed_payload = all, !.total = IF IsCsr THEN 0 ELSE all]
           next == IF IsCsr THEN "EndEncap" ELSE "Done"
<1>1. /\ r \in Requests /\ r \in Request /\ count \in Counts
      /\ Stands(r, writer, d1, p) /\ Encapsulated(r, writer, count)
      /\ 256 <= count.payload /\ count.payload <= 21000
  BY Asked DEF WriterInv, AppendSignature, At, AtSignature
<1>2. PICK s \in Nat : sig = Exactly(s) /\ 1 <= s /\ s <= 5000
  BY <1>1, ExactSignatureBitString
<1>3. sig \in Emitted /\ sig.written = s /\ sig.exact /\ sig.written > 0
  BY <1>2, EmittedParts
<1>4. /\ d \in Nat /\ base \in Nat /\ d1 \in Nat
      /\ d1 \in DOMAIN Place(r) /\ Place(r)[d1] = base + 1
  BY PayloadPlaces
<1>5. count.payload \in Nat
  BY <1>1 DEF Counts
<1>6. GoOn(w, c, next)
  BY Zenon DEF AppendSignature
<1>7. IsCsr <=> r.format = "Csr"
  BY DEF IsCsr
<1> HIDE DEF sig, d, d1, base
<1>8. /\ body \in Nat /\ 256 <= body /\ body <= 26000 /\ p \in Nat /\ q \in Nat
      /\ q = p + sig.written /\ Place(r)[d1] + 3 + body = p + sig.written /\ body < 65536
  BY <1>1, <1>2, <1>3, <1>4, <1>5
<1> HIDE DEF body, p, q
<1>9. Stands(r, e, d, q) /\ Boundaries(writer) \subseteq Boundaries(e)
  <2> DEFINE u == Emit(writer, sig)
  <2>1. Measured(r, d1, q, body)
    BY <1>4, <1>8, SizeWidthOfLong DEF Measured
  <2>2. q = p + sig.written /\ sig.written > 0
    BY <1>3, <1>8
  <2>0. d1 = d + 1
    BY DEF d1
  <2> HIDE DEF r
  <2>3. Stands(r, u, d1, q) /\ Boundaries(writer) \subseteq Boundaries(u)
    BY <1>1, <1>3, <1>4, <1>8, <2>2, EmitStands
  <2> HIDE DEF u
  <2>4. Closed(r, u, BacktrackAndEncodeSize(u, <<body>>), d, q)
    BY <1>4, <1>8, <2>0, <2>1, <2>3, BacktrackOne
  <2>5. QED
    BY <2>3, <2>4 DEF Closed, u
<1> HIDE DEF e
<1>10. all \in Nat /\ all = 4 + body
  BY <1>8, SizeWidthOfLong
<1> HIDE DEF all
<1>11. /\ c \in Counts /\ c.signed_payload = all
       /\ c.total = IF IsCsr THEN 0 ELSE all
       /\ c.content_info = count.content_info /\ c.signed_data = count.signed_data
       /\ c.encap = count.encap /\ c.csr_start = count.csr_start
  <2> DEFINE total == IF IsCsr THEN 0 ELSE all
             half == [count EXCEPT !.signed_payload = all]
  <2>1. total \in Nat /\ all \in Nat /\ count \in Counts
    BY <1>1, <1>10
  <2>2. c = [half EXCEPT !.total = total]
    BY <2>1 DEF Counts
  <2> HIDE DEF c, total
  <2>3. half \in Counts /\ half.signed_payload = all
    BY <2>1 DEF Counts
  <2>4. /\ half.content_info = count.content_info /\ half.signed_data = count.signed_data
        /\ half.encap = count.encap /\ half.csr_start = count.csr_start
    BY <2>1 DEF Counts
  <2> HIDE DEF half
  <2>5. /\ c \in Counts /\ c.total = total /\ c.signed_payload = half.signed_payload
        /\ c.content_info = half.content_info /\ c.signed_data = half.signed_data
        /\ c.encap = half.encap /\ c.csr_start = half.csr_start
    BY <2>1, <2>2, <2>3 DEF Counts
  <2>6. QED
    BY <2>3, <2>4, <2>5 DEF total
<1> HIDE DEF c
<1>12. \/ w = e /\ ~(q > r.capacity)
       \/ Good(r, w) /\ w.error = "CertSizeOverflow"
  BY <1>9, Truncation
<1>13. Good(r, w) /\ (w.error = "Ok" => w = e /\ q <= r.capacity)
  <2>1. Good(r, e) /\ r.capacity \in Nat
    BY <1>1, <1>9, RequestFields DEF Stands
  <2>2. QED
    BY <1>8, <1>12, <2>1
<1> HIDE DEF w
<1>14. ASSUME w.error = "Ok", IsCsr PROVE At(r, w, c, "EndEncap")
  <2>1. w = e /\ q <= r.capacity
    BY <1>13, <1>14
  <2>2. Encapsulated(r, e, c)
    BY <1>1, <1>9, <1>11 DEF Encapsulated
  <2>3. q = 64 + c.signed_payload /\ d = 6 /\ r.format = "Csr"
    BY <1>4, <1>7, <1>8, <1>10, <1>11, <1>14 DEF q, base, d, Base, Depth
  <2>4. 256 <= c.signed_payload /\ c.signed_payload <= 27000
    BY <1>8, <1>10, <1>11
  <2>5. AtEndEncap(r, w, c)
    BY <1>9, <2>1, <2>2, <2>3, <2>4 DEF AtEndEncap
  <2>6. QED
    BY <2>5 DEF At
<1>15. ASSUME w.error = "Ok", ~IsCsr PROVE At(r, w, c, "Done")
  <2>1. w = e /\ q <= r.capacity
    BY <1>13, <1>15
  <2>2. q = c.total /\ d = 0 /\ 0 < c.total
    BY <1>4, <1>7, <1>8, <1>10, <1>11, <1>15 DEF q, base, d, Base, Depth
  <2>3. AtTheEnd(r, w, c)
    BY <1>9, <2>1, <2>2 DEF AtTheEnd
  <2>4. QED
    BY <2>3 DEF At
<1>16. next \in Stages /\ (w.error = "Ok" => At(r, w, c, next))
  BY <1>14, <1>15 DEF Stages
<1> HIDE DEF next
<1>17. QED
  BY <1>1, <1>6, <1>11, <1>13, <1>16, GoesOn

(***************************************************************************)
(* encode_encapsulated_content_info closes what it opened, with the size   *)
(* of each inner length field in that of the outer one.                    *)
(***************************************************************************)
LEMMA EndEncapStep == WriterInv /\ EndEncap => WriterInv'
<1> SUFFICES ASSUME WriterInv, EndEncap PROVE WriterInv'
  OBVIOUS
<1> DEFINE r == request
           csr == count.signed_payload
           tagged == StructureSize(csr)
           all == count.encap + SizeWidth(csr) + SizeWidth(StructureSize(csr)) + csr
           p == 64 + csr
           inner == BacktrackAndEncodeSize(writer, <<csr, tagged>>)
           e == BacktrackAndEncodeSize(inner, <<all>>)
           range == <<count.csr_start, count.csr_start + csr>>
           w == [e EXCEPT !.csr_range = range]
           data == count.signed_data + 1 + SizeWidth(all) + all
           c == [count EXCEPT !.signed_data = data]
<1>1. /\ r \in Requests /\ count \in Counts /\ r.format = "Csr" /\ Stands(r, writer, 6, p)
      /\ Encapsulated(r, writer, count)
      /\ 256 <= csr /\ csr <= 27000 /\ p <= r.capacity
  BY DEF WriterInv, EndEncap, At, AtEndEncap
<1>2. /\ count.content_info = 15 /\ count.signed_data = 18 /\ count.encap = 13 /\ count.csr_start = 64
      /\ 64 \in Boundaries(writer)
  BY <1>1 DEF Encapsulated
<1>3. csr \in Nat
  BY <1>1 DEF Counts
<1>4. GoOn(w, c, "SignCsr")
  <2>1. c = [count EXCEPT !.signed_data = @ + 1 + SizeWidth(all) + all]
    BY <1>1 DEF Counts
  <2>2. GoOn(w, [count EXCEPT !.signed_data = @ + 1 + SizeWidth(all) + all], "SignCsr")
    BY Zenon DEF EndEncap
  <2>3. QED
    BY <2>1, <2>2, Zenon
<1>5. r \in Requests
  BY <1>1
<1> HIDE DEF r, csr
<1>6. SizeWidth(csr) = 3 /\ tagged = 4 + csr /\ tagged \in Nat
  BY <1>1, <1>3, SizeWidthOfLong DEF StructureSize
<1>7. SizeWidth(tagged) = 3
  BY <1>1, <1>3, <1>6, SizeWidthOfLong
<1>8. all = 19 + csr /\ all \in Nat
  BY <1>2, <1>3, <1>6, <1>7
<1> HIDE DEF tagged, all
<1>9. SizeWidth(all) = 3
  BY <1>1, <1>3, <1>8, SizeWidthOfLong
<1>10. data = 41 + csr /\ data \in Nat
  BY <1>2, <1>3, <1>8, <1>9
<1>11. p \in Nat /\ p = 23 + data
  BY <1>3, <1>10
<1>12. Measured(r, 6, p, csr) /\ Measured(r, 5, p, tagged) /\ Measured(r, 4, p, all)
  BY <1>1, <1>3, <1>6, <1>7, <1>8, <1>9, CsrPlaces DEF Measured
<1> HIDE DEF p, data
<1>13. Closed(r, writer, inner, 4, p)
  <2>1. 4 \in Nat /\ 5 = 4 + 1 /\ 6 = 4 + 2
    OBVIOUS
  <2>2. Stands(r, writer, 6, p)
    BY <1>1
  <2> DEFINE d == 4
             d1 == 5
             d2 == 6
  <2>3. /\ d \in Nat /\ d1 = d + 1 /\ d2 = d + 2 /\ Stands(r, writer, d2, p)
        /\ Measured(r, d2, p, csr) /\ Measured(r, d1, p, tagged)
    BY <1>12, <2>2
  <2> HIDE DEF d, d1, d2
  <2>4. Closed(r, writer, BacktrackAndEncodeSize(writer, <<csr, tagged>>), d, p)
    BY <1>3, <1>6, <1>11, <2>3, BacktrackTwo
  <2>5. QED
    BY <2>4 DEF d, inner
<1> HIDE DEF inner
<1>14. Closed(r, inner, e, 3, p)
  <2>1. 3 \in Nat /\ 4 = 3 + 1
    OBVIOUS
  <2>2. Stands(r, inner, 4, p)
    BY <1>13 DEF Closed
  <2>3. QED
    BY <1>11, <1>12, <2>1, <2>2, BacktrackOne
<1> HIDE DEF e
<1>15. Stands(r, e, 3, p) /\ 64 \in Boundaries(e) /\ e \in WriterRecord
  BY <1>2, <1>13, <1>14 DEF Closed, Stands, Good
<1>16. range \in Seq(Nat) /\ range = <<64, p>>
  BY <1>2, <1>3, <1>11 DEF p
<1> HIDE DEF range
<1>17. /\ w \in WriterRecord /\ w.csr_range = range /\ w.offset = e.offset /\ w.log = e.log
       /\ w.backtracks = e.backtracks /\ w.error = e.error /\ w.saved_offset = e.saved_offset
       /\ w.exact = e.exact
  BY <1>15, <1>16 DEF WriterRecord
<1> HIDE DEF w
<1>18. Stands(r, w, 3, p) /\ 64 \in Boundaries(w)
  <2>1. Sound(r, w) /\ Boundaries(w) = Boundaries(e)
    BY <1>15, <1>17, SameBytes DEF Stands, Good
  <2>2. QED
    BY <1>15, <1>17, <2>1 DEF Stands, Good, Stack
<1>19. /\ c \in Counts /\ c.signed_data = data /\ c.content_info = 15
  BY <1>1, <1>2, <1>10 DEF Counts
<1> HIDE DEF c
<1>20. 256 <= data /\ data <= 28000
  BY <1>1, <1>3, <1>10
<1>21. At(r, w, c, "SignCsr") /\ Good(r, w)
  <2>1. AtCsr(r, w, c)
    BY <1>1, <1>11, <1>18, <1>19, <1>20 DEF AtCsr
  <2>2. AtSignCsr(r, w, c)
    BY <1>1, <1>11, <1>16, <1>17, <1>18, <1>19, <2>1 DEF AtSignCsr
  <2>3. QED
    BY <1>18, <2>2 DEF At, Stands
<1>22. "SignCsr" \in Stages
  BY DEF Stages
<1>23. QED
  BY <1>1, <1>4, <1>19, <1>21, <1>22, GoesOn DEF r

(***************************************************************************)
(* encode_cms signs the CSR, whose range was saved.                        *)
(***************************************************************************)
LEMMA SignCsrStep ==
  ASSUME NEW ok \in BOOLEAN, WriterInv, SignCsr(ok)
  PROVE  WriterInv'
<1> DEFINE r == request
           p == 23 + count.signed_data
           w == SignRange(writer, 64, p, ok)
<1>1. /\ r \in Requests /\ count \in Counts /\ AtSignCsr(r, writer, count)
  BY DEF WriterInv, SignCsr, At
<1>2. /\ Stands(r, writer, 3, p) /\ r.format = "Csr" /\ p <= r.capacity /\ 64 \in Boundaries(writer)
      /\ writer.csr_range = <<64, p>> /\ 256 <= count.signed_data /\ count.signed_data <= 28000
      /\ count.content_info = 15
  BY <1>1 DEF AtSignCsr, AtCsr
<1>3. p \in Nat /\ 64 < p
  BY <1>1, <1>2 DEF Counts
<1>4. GoOn(w, count, "EndCms")
  <2>1. writer.csr_range # << >> /\ writer.csr_range[1] = 64 /\ writer.csr_range[2] = p
    BY <1>2
  <2>2. QED
    BY <2>1 DEF SignCsr
<1>5. 3 \in DOMAIN Place(r) /\ Place(r)[3] + 3 <= 64
  BY <1>2, CsrPlaces
<1> HIDE DEF p
<1>6. /\ ok => Stands(r, w, 3, p)
      /\ ~ok => Good(r, w) /\ w.error = "Crypto"
  <2> HIDE DEF r
  <2>1. 3 \in Nat /\ 64 \in Nat
    OBVIOUS
  <2>2. QED
    BY <1>2, <1>3, <1>5, <2>1, SignStands
<1> HIDE DEF w
<1>7. Good(r, w)
  BY <1>6 DEF Stands
<1>8. ASSUME w.error = "Ok" PROVE At(r, w, count, "EndCms")
  <2>1. AtCsr(r, w, count)
    BY <1>2, <1>6, <1>8 DEF AtCsr, p
  <2>2. QED
    BY <2>1 DEF At
<1>9. "EndCms" \in Stages
  BY DEF Stages
<1>10. QED
  BY <1>1, <1>4, <1>7, <1>8, <1>9, GoesOn

(***************************************************************************)
(* encode_cms closes the last three structures, unless the buffer is full, *)
(* and leaves none open.                                                   *)
(***************************************************************************)
LEMMA EndCmsStep == WriterInv /\ EndCms => WriterInv'
<1> SUFFICES ASSUME WriterInv, EndCms PROVE WriterInv'
  OBVIOUS
<1> DEFINE r == request
           infos == EncodeStructure(StructureSize(SignerInfoSize(r)), EncodeSignerInfo(r))
           field_1 == count.signed_data + infos.written
           field_0 == 1 + SIZE_TAG_OFFSET + field_1
           content == count.content_info + field_0
           total == 1 + SIZE_TAG_OFFSET + content
           p == 23 + field_1
           a == Emit(writer, infos)
           b == CheckNotTruncated(a)
           e == BacktrackAndEncodeSize(b, <<field_1, field_0, content>>)
           f == IfOk(e, IF e.backtracks # << >> THEN Fail(e, "X509InvalidState") ELSE e)
           w == CheckNotTruncated(f)
           c == [count EXCEPT !.total = total]
<1>1. /\ r \in Requests /\ r \in Request /\ count \in Counts /\ count.signed_data \in Nat
      /\ r.format = "Csr" /\ Stands(r, writer, 3, 23 + count.signed_data)
      /\ count.content_info = 15 /\ 256 <= count.signed_data /\ count.signed_data <= 28000
  BY Asked DEF WriterInv, EndCms, At, AtCsr, Counts
<1>2. PICK n \in Nat : infos = Exactly(n) /\ 1 <= n /\ n <= 6000
  BY <1>1, ExactSignerInfo
<1>3. GoOn(w, c, "Done")
  BY Zenon DEF EndCms
<1>4. infos.written = n
  BY <1>2, EmittedParts
<1> HIDE DEF infos
<1>5. /\ field_1 \in Nat /\ 256 <= field_1 /\ field_1 <= 34000
      /\ p \in Nat /\ p = 23 + count.signed_data + n /\ p = 23 + field_1
  BY <1>1, <1>2, <1>4
<1> HIDE DEF p, field_1
<1>6. field_0 = 4 + field_1 /\ field_0 \in Nat
  BY <1>5 DEF SIZE_TAG_OFFSET
<1> HIDE DEF field_0
<1>7. content = 19 + field_1 /\ content \in Nat
  BY <1>1, <1>5, <1>6
<1> HIDE DEF content
<1>8. total = p /\ 0 < total
  BY <1>5, <1>7 DEF SIZE_TAG_OFFSET
<1> HIDE DEF total
<1>9. Stands(r, a, 3, p)
  <2>1. 3 \in Nat /\ 23 + count.signed_data \in Nat /\ n > 0
    BY <1>1, <1>2
  <2> HIDE DEF r
  <2>2. QED
    BY <1>1, <1>2, <1>5, <2>1, EmitsTo
<1>10. Measured(r, 3, p, field_1) /\ Measured(r, 2, p, field_0) /\ Measured(r, 1, p, content)
  BY <1>1, <1>5, <1>6, <1>7, CsrPlaces, SizeWidthOfLong DEF Measured
<1>11. c \in Counts /\ c.total = total
  BY <1>1, <1>5, <1>8 DEF Counts
<1> HIDE DEF a, c
<1>12. \/ b = a
       \/ Good(r, b) /\ b.error = "CertSizeOverflow"
  BY <1>9, Truncation
<1>13. CASE b = a
  <2>1. Closed(r, b, e, 0, p)
    <3> DEFINE d == 0
               d1 == 1
               d2 == 2
               d3 == 3
    <3>1. d \in Nat /\ d1 = d + 1 /\ d2 = d + 2 /\ d3 = d + 3
      OBVIOUS
    <3>2. /\ Stands(r, b, d3, p) /\ Measured(r, d3, p, field_1) /\ Measured(r, d2, p, field_0)
          /\ Measured(r, d1, p, content)
      BY <1>9, <1>10, <1>13
    <3> HIDE DEF r, b, d, d1, d2, d3
    <3>3. Closed(r, b, BacktrackAndEncodeSize(b, <<field_1, field_0, content>>), d, p)
      BY <1>5, <3>1, <3>2, BacktrackThree
    <3>4. QED
      BY <3>3 DEF d, b
  <2> HIDE DEF b, e
  <2>2. Stands(r, e, 0, p)
    BY <2>1 DEF Closed
  <2>3. f = e
    <3>1. Len(e.backtracks) = 0 /\ e.backtracks \in Seq(Seq(Nat))
      BY <2>2 DEF Stands, Stack, Good, WriterRecord
    <3>2. e.backtracks = << >>
      BY <3>1
    <3>3. QED
      BY <3>2 DEF IfOk
  <2> HIDE DEF f
  <2>4. \/ w = e /\ ~(p > r.capacity)
        \/ Good(r, w) /\ w.error = "CertSizeOverflow"
    BY <2>2, <2>3, Truncation
  <2>5. Good(r, e) /\ r.capacity \in Nat
    BY <1>1, <2>2, RequestFields DEF Stands
  <2> HIDE DEF w
  <2>6. Good(r, w) /\ (w.error = "Ok" => Stands(r, w, 0, c.total) /\ 0 < c.total /\ c.total <= r.capacity)
    BY <1>5, <1>8, <1>11, <2>2, <2>4, <2>5
  <2>7. w.error = "Ok" => At(r, w, c, "Done")
    BY <2>6 DEF At, AtTheEnd
  <2>8. "Done" \in Stages
    BY DEF Stages
  <2>9. QED
    BY <1>1, <1>3, <1>11, <2>6, <2>7, <2>8, GoesOn
<1>14. CASE Good(r, b) /\ b.error = "CertSizeOverflow"
  <2> HIDE DEF b
  <2>1. e = b
    <3> DEFINE s == <<field_1, field_0, content>>
    <3>1. Len(s) \in Nat /\ b.error # "Ok"
      BY <1>14
    <3> HIDE DEF s
    <3>2. BacktrackAndEncodeSize(b, s) = b
      BY <3>1, FailedStays, Zenon
    <3>3. QED
      BY <3>2 DEF s
  <2> HIDE DEF e
  <2>2. f = b
    BY <1>14, <2>1 DEF IfOk
  <2> HIDE DEF f
  <2>3. w = b
    BY <1>14, <2>2, FailedStays
  <2> HIDE DEF w
  <2>4. "Done" \in Stages
    BY DEF Stages
  <2>5. Good(r, w) /\ w.error # "Ok"
    BY <1>14, <2>3
  <2>6. QED
    BY <1>1, <1>3, <1>11, <2>4, <2>5, GoesOn
<1>15. QED
  BY <1>12, <1>13, <1>14

-----------------------------------------------------------------------------
(***************************************************************************)
(* Every step keeps the invariant. A writer is dropped when it is done,    *)
(* and a stutter changes none of it.                                       *)
(***************************************************************************)
LEMMA NextWriterInv == WriterInv /\ [Next]_vars => WriterInv'
<1> SUFFICES ASSUME WriterInv, [Next]_vars PROVE WriterInv'
  OBVIOUS
<1>1. CASE BeginCms  BY <1>1, BeginCmsStep
<1>2. CASE BeginEncap  BY <1>2, BeginEncapStep
<1>3. CASE EncodePayloadHead  BY <1>3, EncodePayloadHeadStep
<1>4. CASE EncodePayloadTail  BY <1>4, EncodePayloadTailStep
<1>5. CASE \E ok \in BOOLEAN : SignPayload(ok)
  <2>1. PICK ok \in BOOLEAN : SignPayload(ok)
    BY <1>5
  <2>2. QED
    BY <2>1, SignPayloadStep
<1>6. CASE AppendSignature  BY <1>6, AppendSignatureStep
<1>7. CASE EndEncap  BY <1>7, EndEncapStep
<1>8. CASE \E ok \in BOOLEAN : SignCsr(ok)
  <2>1. PICK ok \in BOOLEAN : SignCsr(ok)
    BY <1>8
  <2>2. QED
    BY <2>1, SignCsrStep
<1>9. CASE EndCms  BY <1>9, EndCmsStep
<1>10. CASE UNCHANGED vars
  <2>1. request' = request /\ pc' = pc /\ writer' = writer /\ count' = count
    BY <1>10 DEF vars
  <2>2. WriterInv' = WriterInv
    BY <2>1 DEF WriterInv
  <2>3. QED
    BY <2>2
<1>11. QED
  BY <1>1, <1>2, <1>3, <1>4, <1>5, <1>6, <1>7, <1>8, <1>9, <1>10, Zenon DEF Next

(***************************************************************************)
(* The invariant holds of every writer.                                    *)
(***************************************************************************)
LEMMA AlwaysWriterInv == Spec => []WriterInv
BY InitWriterInv, NextWriterInv, PTL DEF Spec

(***************************************************************************)
(* What the parts of the invariant say of the log and of the skips.        *)
(***************************************************************************)
LEMMA WriterFacts ==
  ASSUME WriterInv
  PROVE  /\ writer \in WriterRecord /\ Sound(request, writer) /\ Len(writer.backtracks) <= MAX_BACKTRACKS
         /\ writer.error \in {"Ok", "CertSizeOverflow", "Crypto"}
         /\ SameWidths(request) => writer.exact
         /\ Writes = WritesOf(writer.log)
BY DEF WriterInv, Good, Writes, WritesOf

(***************************************************************************)
(* The types are part of the invariant.                                    *)
(***************************************************************************)
LEMMA TypesFollow == WriterInv => TypeOK
<1> SUFFICES ASSUME WriterInv PROVE TypeOK
  OBVIOUS
<1>1. writer \in WriterRecord /\ Sound(request, writer) /\ Len(writer.backtracks) <= MAX_BACKTRACKS
  BY WriterFacts
<1>2. \A b \in Range(writer.backtracks) : b[2] = b[1] + SIZE_TAG_OFFSET
  BY <1>1 DEF Range, Sound, SkipsLieApart, SIZE_TAG_OFFSET
<1>3. \A local \in DOMAIN count : count[local] \in Nat
  BY DEF WriterInv, Counts
<1>4. /\ writer.error \in Errors /\ writer.exact \in BOOLEAN /\ writer.offset \in Nat
      /\ writer.saved_offset \in Nat \cup {None}
  BY <1>1 DEF WriterRecord
<1>5. QED
  BY <1>1, <1>2, <1>3, <1>4 DEF TypeOK, WriterInv, Stages

(***************************************************************************)
(* A signed range has no gap, for it lies between boundaries.              *)
(***************************************************************************)
LEMMA SignedFollow == WriterInv => SignedRangesAreFinal
<1> SUFFICES ASSUME WriterInv, NEW s \in DOMAIN writer.log \ Writes
             PROVE  LET signed  == writer.log[s]
                        inRange == {i \in Writes : /\ writer.log[i].from < signed.to
                                                   /\ signed.from < writer.log[i].to}
                    IN  /\ signed.to <= request.capacity
                        /\ \A i \in inRange : i < s
                        /\ Fill(inRange, signed.from, signed.to)
  BY DEF SignedRangesAreFinal
<1> DEFINE from == writer.log[s].from
           to == writer.log[s].to
           inRange == {i \in Writes : writer.log[i].from < to /\ from < writer.log[i].to}
<1>1. writer \in WriterRecord /\ Sound(request, writer) /\ Writes = WritesOf(writer.log)
  BY WriterFacts
<1>2. Signed(request, writer, s)
  BY <1>1 DEF Sound
<1>3. from \in Nat /\ to \in Nat
  BY <1>1, WriterParts
<1>4. /\ from < to /\ to <= writer.offset /\ to <= request.capacity
      /\ from \in Boundaries(writer) /\ to \in Boundaries(writer)
      /\ \A j \in DOMAIN writer.backtracks :
           writer.backtracks[j][2] <= from \/ to <= writer.backtracks[j][1]
      /\ \A i \in Writes : writer.log[i].from < to /\ from < writer.log[i].to => i < s
  BY <1>1, <1>2 DEF Signed
<1>5. Fill(inRange, from, to)
  <2> HIDE DEF from, to
  <2> QED  BY <1>1, <1>3, <1>4, NoGaps
<1>6. QED
  BY <1>4, <1>5

(***************************************************************************)
(* Nor has the output, for both its ends are boundaries.                   *)
(***************************************************************************)
LEMMA OutputFollows == WriterInv => OutputIsComplete
<1> SUFFICES ASSUME WriterInv, Succeeded
             PROVE  /\ count.total <= request.capacity
                    /\ Fill(Writes, 0, count.total)
                    /\ writer.backtracks = << >>
  BY DEF OutputIsComplete
<1>1. /\ writer \in WriterRecord /\ Sound(request, writer) /\ Writes = WritesOf(writer.log)
  BY WriterFacts
<1>2. Stands(request, writer, 0, count.total) /\ 0 < count.total /\ count.total <= request.capacity
  BY DEF WriterInv, Succeeded, At, AtTheEnd
<1>3. writer.offset = count.total /\ writer.offset \in Nat /\ Len(writer.backtracks) = 0
  BY <1>2, WriterParts, <1>1 DEF Stands, Stack
<1>4. writer.backtracks = << >>
  <2>1. writer.backtracks \in Seq(Nat \X Nat)
    BY <1>1, WriterParts
  <2>2. QED
    BY <1>3, <2>1
<1> DEFINE from == 0
           to == count.total
<1>5. from \in Nat /\ to \in Nat /\ from < to /\ to <= writer.offset
  BY <1>2, <1>3
<1>6. from \in Boundaries(writer) /\ to \in Boundaries(writer)
  BY <1>1, <1>3 DEF Boundaries, Sound, Chained
<1>7. DOMAIN writer.backtracks = {}
  BY <1>4
<1>8. Writes = {i \in Writes : writer.log[i].from < to /\ from < writer.log[i].to}
  <2>1. \A i \in Writes : /\ writer.log[i].from \in Nat /\ writer.log[i].to \in Nat
                          /\ writer.log[i].from < writer.log[i].to /\ writer.log[i].to <= writer.offset
    BY <1>1, WriterParts DEF Sound, WritesLieApart
  <2>2. QED
    BY <1>3, <2>1
<1>9. Fill(Writes, from, to)
  <2> HIDE DEF from, to
  <2> QED  BY <1>1, <1>5, <1>6, <1>7, <1>8, NoGaps
<1>10. QED
  BY <1>2, <1>4, <1>9

-----------------------------------------------------------------------------
(***************************************************************************)
(* backtrack_and_encode_size and the layers of encode_* that feed it: the  *)
(* writer's fields and counts keep their types, for every request.         *)
(***************************************************************************)
THEOREM WriterTypeCorrect == Spec => []TypeOK
BY AlwaysWriterInv, TypesFollow, PTL

(***************************************************************************)
(* Each length field that backtrack_and_encode_size fills in says where    *)
(* the writer had got to: the byte counts the encode functions return and  *)
(* add up are those of the buffer.                                         *)
(***************************************************************************)
THEOREM SizesReachTheEndCorrect == Spec => []SizesReachTheEnd
<1>1. WriterInv => SizesReachTheEnd
  BY WriterFacts DEF SizesReachTheEnd, Sound, WritesReachTheEnd
<1>2. QED
  BY <1>1, AlwaysWriterInv, PTL

(***************************************************************************)
(* What encode_signed_payload and encode_cms hand to sign_cb is complete,  *)
(* lies in the buffer and is never written again.                          *)
(***************************************************************************)
THEOREM SignedRangesAreFinalCorrect == Spec => []SignedRangesAreFinal
BY AlwaysWriterInv, SignedFollow, PTL

(***************************************************************************)
(* encode_certificate and encode_cms return how many bytes of the buffer   *)
(* are filled, from its start, without a gap, and within it.               *)
(***************************************************************************)
THEOREM OutputIsCompleteCorrect == Spec => []OutputIsComplete
BY AlwaysWriterInv, OutputFollows, PTL

(***************************************************************************)
(* Every length that push_backtrack leaves three bytes for takes three,    *)
(* and its stack is never full, empty or in use when it should not be.     *)
(***************************************************************************)
THEOREM SkipsAreWideCorrect == Spec => []SkipsAreWide
<1>1. WriterInv => SkipsAreWide
  BY WriterFacts DEF SkipsAreWide
<1>2. QED
  BY <1>1, AlwaysWriterInv, PTL

(***************************************************************************)
(* The lengths the get_*_size functions declare in advance are those of    *)
(* what is written, when all svns take as many bytes as that of slot 0.    *)
(***************************************************************************)
THEOREM ExactSizesCorrect == Spec => []SizesAreExactForEqualSvns
<1>1. WriterInv => SizesAreExactForEqualSvns
  BY WriterFacts, Asked DEF SizesAreExactForEqualSvns
<1>2. QED
  BY <1>1, AlwaysWriterInv, PTL
=============================================================================
