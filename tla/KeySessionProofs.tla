-------------------------- MODULE KeySessionProofs --------------------------
(***************************************************************************)
(* Theorems about KeySession: for any lineages and labels, any chain, any  *)
(* number of slots and of commands, and whatever fails, nothing the crypto *)
(* layer keeps from one command finds its way into the key of another.     *)
(*                                                                         *)
(* The inductive invariant is IInv.  HashOK says what the shared hasher    *)
(* holds at each call, KeyOK what the digest, the CDI and the keys in hand *)
(* are by then, SlotsOK and PendingOK what is in the slots and which of    *)
(* them the command in progress has taken, and IssuedOK relates what has   *)
(* been returned to all that.                                              *)
(***************************************************************************)
EXTENDS KeySession, SequenceTheorems, TLAPS

Digested == {"derive", "sign", "export", "export_key", "identify", "gather", "write"}

Named == {"identify", "gather", "write"}

(***************************************************************************)
(* The digest of a lineage with the first n bytes of the chain; all of it, *)
(* unless the platform failed.                                             *)
(***************************************************************************)
DigestOf(d, nodes, cut) ==
  \E n \in 0 .. chain_len : (~cut => n = chain_len) /\ d = Reference(nodes, n)

TaskFields ==
  {"kind", "label", "nodes", "offset", "cut", "digest", "exported", "pub_key"}

HashOK ==
  /\ chain_len \in Nat
  /\ DOMAIN task = TaskFields
  /\ pc \in {"idle", "nodes", "info", "chain"} \cup Digested
  /\ pc # "idle" => task.nodes \in Lineages /\ task.kind \in Kinds
  /\ pc \in {"nodes", "info", "chain"} =>
       /\ task.offset \in 0 .. chain_len
       /\ pc = "chain" \/ task.offset = 0
       /\ UsesDice(task.nodes) \/ task.offset = 0
  /\ pc = "info" => hasher = NodesBytes(task.nodes)
  /\ pc = "chain" => hasher = Reference(task.nodes, task.offset)
  /\ pc \in Digested => DigestOf(task.digest, task.nodes, task.cut)

ExportedKey(digest) == Key(Cdi(digest, "Exported CDI"), EXPORTED, EXPORTED)

KeyOK ==
  /\ pc # "idle" /\ task.kind = "Export" => task.label = EXPORTED
  /\ pc = "derive" => task.kind # "Export"
  /\ pc \in {"export", "export_key"} => task.kind = "Export"
  /\ pc = "sign" => task.kind = "Sign" /\ priv_key = LeafKey
  /\ pc \in Named =>
       /\ task.kind # "Sign"
       /\ task.pub_key = IF task.kind = "Export" THEN ExportedKey(task.digest) ELSE LeafKey

ExportedCdis == {Cdi(Reference(of[1], of[2]), "Exported CDI") : of \in Lineages \X Nat}

SlotRecords == [cdi : ExportedCdis, handle : Nat]

SlotsOK ==
  /\ export_cdi_slots \in Seq(SlotRecords)
  /\ Len(export_cdi_slots) <= MAX_CDI_HANDLES
  /\ \A i \in 1 .. Len(export_cdi_slots) : export_cdi_slots[i].handle = i
  /\ \A i, j \in 1 .. Len(export_cdi_slots) :
       i # j => export_cdi_slots[i].cdi # export_cdi_slots[j].cdi

PendingOK ==
  pc \in {"export_key"} \cup Named /\ task.kind = "Export" =>
    /\ task.exported \in 1 .. Len(export_cdi_slots)
    /\ export_cdi_slots[task.exported].cdi = Cdi(task.digest, "Exported CDI")
    /\ \A item \in issued : item.kind = "Export" => item.handle # task.exported

ItemOK(item) ==
  /\ item.kind \in Kinds
  /\ DigestOf(item.key.cdi.digest, item.nodes, item.cut)
  /\ item.kind # "Export" =>
       item.key = Key(LeafCdi(item.key.cdi.digest), item.label, KEY_CONTEXT)
  /\ item.kind = "Export" =>
       /\ item.key = ExportedKey(item.key.cdi.digest)
       /\ item.handle \in 1 .. Len(export_cdi_slots)
       /\ export_cdi_slots[item.handle].cdi = item.key.cdi
  /\ item.signers = CASE item.kind = "Sign" -> << item.key >>
                      [] item.kind = "CSR"  -> << item.key, ALIAS >>
                      [] OTHER              -> << ALIAS >>

IssuedOK ==
  /\ \A item \in issued : ItemOK(item)
  /\ \A x, y \in issued :
       x.kind = "Export" /\ y.kind = "Export" /\ x.handle = y.handle => x = y

IInv == HashOK /\ KeyOK /\ SlotsOK /\ PendingOK /\ IssuedOK

-----------------------------------------------------------------------------
(***************************************************************************)
(* Sequences of bytes.                                                     *)
(***************************************************************************)
Bytes(nodes) ==
  {NodeBytes(nodes[i]) : i \in 1 .. Len(nodes)}
    \cup {<< "info", "get_profile" >>, << "info", "profile" >>}
    \cup {<< "chain", k >> : k \in Nat}

LEMMA NodesBytesSeq ==
  ASSUME NEW nodes \in Lineages
  PROVE  NodesBytes(nodes) \in Seq(Bytes(nodes))
<1>1. Len(nodes) \in Nat
  BY LineageAssumption
<1>2. NodesBytes(nodes) \in [1 .. Len(nodes) -> Bytes(nodes)]
  BY DEF NodesBytes, Bytes
<1> QED
  BY <1>1, <1>2, SeqDef

LEMMA InfoBytesSeq ==
  ASSUME NEW nodes
  PROVE  (IF UsesInfo(nodes) THEN InfoBytes ELSE << >>) \in Seq(Bytes(nodes))
<1> DEFINE a == << "info", "get_profile" >>
           b == << "info", "profile" >>
<1>1. a \in Bytes(nodes) /\ b \in Bytes(nodes)
  BY DEF Bytes
<1> HIDE DEF a, b
<1>2. << a, b >> \in Seq(Bytes(nodes))
  BY <1>1
<1> QED
  BY <1>2, EmptySeq DEF InfoBytes, a, b

LEMMA ChainBytesSeq ==
  ASSUME NEW nodes, NEW from \in Nat, NEW to \in Nat, from <= to
  PROVE  /\ ChainBytes(from, to) \in Seq(Bytes(nodes))
         /\ Len(ChainBytes(from, to)) = to - from
<1>1. to - from \in Nat
  OBVIOUS
<1>2. ChainBytes(from, to) \in [1 .. to - from -> Bytes(nodes)]
  BY DEF ChainBytes, Bytes
<1>3. ChainBytes(from, to) \in Seq(Bytes(nodes))
  BY <1>1, <1>2, SeqDef
<1> QED
  BY <1>1, <1>2, <1>3, LenProperties

(***************************************************************************)
(* Nothing of the chain, and a part of it followed by the next.            *)
(***************************************************************************)
LEMMA ChainStart == ASSUME NEW n \in Nat PROVE ChainBytes(n, n) = << >>
BY DEF ChainBytes

LEMMA ChainJoin ==
  ASSUME NEW nodes, NEW a \in Nat, NEW b \in Nat, a <= b
  PROVE  ChainBytes(0, a) \o ChainBytes(a, b) = ChainBytes(0, b)
<1>a. a - 0 = a /\ b - 0 = b /\ a + (b - a) = b
  OBVIOUS
<1>b. 0 \in Nat /\ 0 <= a /\ 0 <= b
  OBVIOUS
<1> DEFINE s == ChainBytes(0, a)
           t == ChainBytes(a, b)
           u == ChainBytes(0, b)
<1>1. /\ s \in Seq(Bytes(nodes)) /\ Len(s) = a
      /\ t \in Seq(Bytes(nodes)) /\ Len(t) = b - a
      /\ u \in Seq(Bytes(nodes)) /\ Len(u) = b
  BY <1>a, <1>b, ChainBytesSeq
<1>2. /\ s \o t \in Seq(Bytes(nodes)) /\ Len(s \o t) = b
      /\ \A i \in 1 .. b : (s \o t)[i] = IF i <= a THEN s[i] ELSE t[i - a]
  <2> DEFINE S == Bytes(nodes)
  <2>1. s \in Seq(S) /\ t \in Seq(S)
    BY <1>1
  <2> HIDE DEF s, t, u, S
  <2>2. /\ s \o t \in Seq(S) /\ Len(s \o t) = Len(s) + Len(t)
        /\ \A i \in 1 .. Len(s) + Len(t) :
             (s \o t)[i] = IF i <= Len(s) THEN s[i] ELSE t[i - Len(s)]
    BY <2>1, ConcatProperties
  <2>3. Len(s) = a /\ Len(s) + Len(t) = b
    BY <1>1, <1>a
  <2> QED
    BY <2>2, <2>3 DEF S
<1>3. \A i \in 1 .. b : (s \o t)[i] = u[i]
  <2> TAKE i \in 1 .. b
  <2>1. u[i] = << "chain", i >>
    BY DEF ChainBytes
  <2>2. i <= a => s[i] = << "chain", i >>
    BY DEF ChainBytes
  <2>3. ~(i <= a) => t[i - a] = << "chain", i >>
    <3> SUFFICES ASSUME ~(i <= a) PROVE t[i - a] = << "chain", i >>
      OBVIOUS
    <3>1. i - a \in 1 .. b - a /\ a + (i - a) = i
      OBVIOUS
    <3> QED
      BY <3>1 DEF ChainBytes
  <2> HIDE DEF s, t, u
  <2> QED
    BY <1>2, <2>1, <2>2, <2>3
<1> HIDE DEF s, t, u
<1>4. s \o t = u
  BY <1>1, <1>2, <1>3, SeqEqual
<1> QED
  BY <1>4 DEF s, t, u

(***************************************************************************)
(* What has been hashed before the chain is a reference with none of it,   *)
(* and each chunk makes it one with more.                                  *)
(***************************************************************************)
Prefix(nodes) == NodesBytes(nodes) \o (IF UsesInfo(nodes) THEN InfoBytes ELSE << >>)

LEMMA PrefixSeq ==
  ASSUME NEW nodes \in Lineages
  PROVE  Prefix(nodes) \in Seq(Bytes(nodes))
BY NodesBytesSeq, InfoBytesSeq, ConcatProperties DEF Prefix

LEMMA ReferenceIsPrefix ==
  ASSUME NEW nodes \in Lineages, NEW n \in Nat
  PROVE  Reference(nodes, n) =
           IF UsesDice(nodes) THEN Prefix(nodes) \o ChainBytes(0, n) ELSE Prefix(nodes)
<1>1. Prefix(nodes) \o << >> = Prefix(nodes)
  BY PrefixSeq, ConcatEmptySeq
<1> QED
  BY <1>1 DEF Reference, Prefix

LEMMA ReferenceStart ==
  ASSUME NEW nodes \in Lineages
  PROVE  Reference(nodes, 0) =
           IF UsesInfo(nodes) THEN NodesBytes(nodes) \o InfoBytes ELSE NodesBytes(nodes)
<1>1. Reference(nodes, 0) = Prefix(nodes)
  <2>1. Prefix(nodes) \o ChainBytes(0, 0) = Prefix(nodes)
    BY PrefixSeq, ConcatEmptySeq, ChainStart
  <2> QED
    BY <2>1, ReferenceIsPrefix
<1>2. NodesBytes(nodes) \o << >> = NodesBytes(nodes)
  BY NodesBytesSeq, ConcatEmptySeq
<1> QED
  BY <1>1, <1>2 DEF Prefix

LEMMA ReferenceGrows ==
  ASSUME NEW nodes \in Lineages, UsesDice(nodes), NEW a \in Nat, NEW b \in Nat, a <= b
  PROVE  Reference(nodes, a) \o ChainBytes(a, b) = Reference(nodes, b)
<1> DEFINE p == Prefix(nodes)
           s == ChainBytes(0, a)
           t == ChainBytes(a, b)
           S == Bytes(nodes)
<1>1. p \in Seq(S) /\ s \in Seq(S) /\ t \in Seq(S)
  <2>1. 0 \in Nat /\ 0 <= a
    OBVIOUS
  <2> QED
    BY <2>1, PrefixSeq, ChainBytesSeq
<1>2. (p \o s) \o t = p \o (s \o t)
  <2> HIDE DEF p, s, t, S
  <2> QED
    BY <1>1, ConcatAssociative
<1> QED
  BY <1>2, ChainJoin, ReferenceIsPrefix

(***************************************************************************)
(* A lookup by handle finds the slot of that number.                       *)
(***************************************************************************)
LEMMA SlotFound ==
  ASSUME SlotsOK, NEW h \in 1 .. Len(export_cdi_slots)
  PROVE  SlotOf(h) = export_cdi_slots[h]
<1> DEFINE I == {i \in 1 .. Len(export_cdi_slots) : export_cdi_slots[i].handle = h}
<1>1. I = {h}
  BY DEF SlotsOK
<1>2. Min(I) = h
  <2>1. Len(export_cdi_slots) \in Nat
    BY LenProperties DEF SlotsOK
  <2>2. h \in Int
    BY <2>1
  <2> QED
    BY <1>1, <2>2 DEF Min
<1>3. I # {}
  BY <1>1
<1>4. SelectInSeq(export_cdi_slots, LAMBDA slot : slot.handle = h) = h
  BY <1>2, <1>3 DEF SelectInSeq
<1> QED
  BY <1>4 DEF SlotOf

-----------------------------------------------------------------------------
(***************************************************************************)
(* The invariant holds at first, and after every step.                     *)
(***************************************************************************)
LEMMA Initial == Init => IInv
<1> SUFFICES ASSUME Init PROVE IInv
  OBVIOUS
<1>1. HashOK
  BY ChunkAssumption DEF Init, HashOK, NoTask, TaskFields, Digested
<1>2. KeyOK /\ PendingOK
  BY DEF Init, KeyOK, PendingOK, Named
<1>3. SlotsOK
  BY SlotsAssumption, EmptySeq DEF Init, SlotsOK
<1>4. IssuedOK
  BY DEF Init, IssuedOK
<1> QED
  BY <1>1, <1>2, <1>3, <1>4 DEF IInv

(***************************************************************************)
(* A step that neither takes a slot nor returns anything.                  *)
(***************************************************************************)
Quiet == UNCHANGED << chain_len, export_cdi_slots, issued >>

LEMMA QuietStep ==
  ASSUME IInv, Quiet
  PROVE  SlotsOK' /\ IssuedOK'
<1>1. SlotsOK'
  BY DEF IInv, Quiet, SlotsOK
<1>2. ASSUME NEW item \in issued PROVE ItemOK(item)'
  BY <1>2 DEF IInv, Quiet, IssuedOK, ItemOK, DigestOf
<1>3. IssuedOK'
  BY <1>2 DEF IInv, Quiet, IssuedOK
<1> QED
  BY <1>1, <1>3

(***************************************************************************)
(* A command that ends in an error.                                        *)
(***************************************************************************)
LEMMA StopStep ==
  ASSUME IInv, Quiet, pc' = "idle", task' = NoTask
  PROVE  IInv'
<1>1. HashOK'
  BY DEF IInv, Quiet, HashOK, NoTask, TaskFields, Digested
<1>2. KeyOK' /\ PendingOK'
  BY DEF KeyOK, PendingOK, Named
<1> QED
  BY <1>1, <1>2, QuietStep DEF IInv

(***************************************************************************)
(* A command that returns something.                                       *)
(***************************************************************************)
Returned(key, signers) ==
  [ kind |-> task.kind, label |-> task.label, nodes |-> task.nodes, cut |-> task.cut,
    key |-> key, signers |-> signers, handle |-> task.exported ]

LEMMA IssueStep ==
  ASSUME IInv, NEW key, NEW signers, Issue(key, signers),
         UNCHANGED << chain_len, export_cdi_slots >>,
         ItemOK(Returned(key, signers)),
         task.kind = "Export" =>
           \A item \in issued : item.kind = "Export" => item.handle # task.exported
  PROVE  IInv'
<1> DEFINE new == Returned(key, signers)
<1>1. issued' = issued \cup {new} /\ pc' = "idle" /\ task' = NoTask
  BY DEF Issue, Returned
<1>2. HashOK'
  BY <1>1 DEF IInv, HashOK, NoTask, TaskFields, Digested
<1>3. KeyOK' /\ PendingOK'
  BY <1>1 DEF KeyOK, PendingOK, Named
<1>4. SlotsOK'
  BY DEF IInv, SlotsOK
<1>5. ASSUME NEW item \in issued' PROVE ItemOK(item)'
  <2>1. ItemOK(item)
    BY <1>1, <1>5 DEF IInv, IssuedOK
  <2> QED
    BY <2>1 DEF ItemOK, DigestOf
<1>6. ASSUME NEW x \in issued', NEW y \in issued',
             x.kind = "Export", y.kind = "Export", x.handle = y.handle
      PROVE  x = y
  <2>1. new.kind = task.kind /\ new.handle = task.exported
    BY DEF Returned
  <2> HIDE DEF new
  <2>2. (x \in issued \/ x = new) /\ (y \in issued \/ y = new)
    BY <1>1
  <2>3. CASE x = new \/ y = new
    BY <1>6, <2>1, <2>2, <2>3
  <2>4. CASE x \in issued /\ y \in issued
    BY <1>6, <2>4 DEF IInv, IssuedOK
  <2> QED
    BY <2>2, <2>3, <2>4
<1>7. IssuedOK'
  BY <1>5, <1>6 DEF IssuedOK
<1> QED
  BY <1>2, <1>3, <1>4, <1>7 DEF IInv

-----------------------------------------------------------------------------
(***************************************************************************)
(* One lemma per action that goes on with the command.                     *)
(***************************************************************************)
LEMMA BeginStep ==
  ASSUME IInv, NEW kind \in Kinds, Begin(kind)
  PROVE  IInv'
<1> PICK nodes \in Lineages, label \in KeyLabels(kind) :
      /\ task' = [NoTask EXCEPT !.kind = kind, !.label = label, !.nodes = nodes]
      /\ pc' = "nodes"
      /\ UNCHANGED << crypto_vars, chain_len, issued >>
  BY DEF Begin
<1>1. /\ task'.kind = kind /\ task'.label = label /\ task'.nodes = nodes
      /\ task'.offset = 0 /\ DOMAIN task' = TaskFields
  BY DEF NoTask, TaskFields
<1>2. HashOK'
  BY <1>1 DEF IInv, HashOK, Digested
<1>3. KeyOK' /\ PendingOK'
  BY <1>1 DEF KeyOK, PendingOK, Named, KeyLabels
<1>4. Quiet
  BY DEF Quiet, crypto_vars
<1> QED
  BY <1>2, <1>3, <1>4, QuietStep DEF IInv

LEMMA HashNodesStep == ASSUME IInv, HashNodes PROVE IInv'
<1> USE DEF HashNodes
<1>1. hasher' = NodesBytes(task.nodes)
  <2>1. task.nodes \in Lineages
    BY DEF IInv, HashOK
  <2>2. << >> \o NodesBytes(task.nodes) = NodesBytes(task.nodes)
    BY <2>1, NodesBytesSeq, ConcatEmptySeq
  <2> QED
    BY <2>2 DEF Initialized
<1>2. HashOK'
  BY <1>1 DEF IInv, HashOK, Digested
<1>3. KeyOK' /\ PendingOK'
  BY DEF IInv, KeyOK, PendingOK, Named
<1> QED
  BY <1>2, <1>3, QuietStep DEF IInv, Quiet

LEMMA HashInfoStep == ASSUME IInv, HashInfo PROVE IInv'
<1> USE DEF HashInfo
<1>1. hasher' = Reference(task.nodes, task.offset)
  BY ReferenceStart DEF IInv, HashOK
<1>2. HashOK'
  BY <1>1 DEF IInv, HashOK, Digested
<1>3. KeyOK' /\ PendingOK'
  BY DEF IInv, KeyOK, PendingOK, Named
<1> QED
  BY <1>2, <1>3, QuietStep DEF IInv, Quiet

LEMMA HashChunkStep == ASSUME IInv, HashChunk PROVE IInv'
<1> DEFINE a == task.offset
           b == task.offset + ChunkLen(task.offset)
<1>1. /\ a \in Nat /\ b \in 0 .. chain_len /\ a <= b
      /\ task.nodes \in Lineages /\ UsesDice(task.nodes)
      /\ hasher = Reference(task.nodes, a)
      /\ DOMAIN task = TaskFields
  BY ChunkAssumption DEF IInv, HashOK, HashChunk, EndOfChain, ChunkLen
<1>2. hasher' = hasher \o ChainBytes(a, b) /\ task' = [task EXCEPT !.offset = b]
  BY DEF HashChunk
<1>3. hasher' = Reference(task.nodes, b)
  <2> HIDE DEF a, b
  <2>1. b \in Nat
    BY <1>1 DEF IInv, HashOK
  <2>2. Reference(task.nodes, a) \o ChainBytes(a, b) = Reference(task.nodes, b)
    BY <1>1, <2>1, ReferenceGrows
  <2> QED
    BY <1>1, <1>2, <2>2
<1>4. /\ task'.offset = b /\ DOMAIN task' = TaskFields
      /\ task'.nodes = task.nodes /\ task'.kind = task.kind /\ task'.label = task.label
  BY <1>1, <1>2 DEF TaskFields
<1>5. pc = "chain" /\ pc' = "chain" /\ chain_len' = chain_len
  BY DEF HashChunk
<1> HIDE DEF a, b
<1>6. HashOK'
  BY <1>1, <1>3, <1>4, <1>5 DEF IInv, HashOK, Digested
<1>7. KeyOK' /\ PendingOK'
  BY <1>4, <1>5 DEF IInv, KeyOK, PendingOK, Named
<1> QED
  BY <1>6, <1>7, QuietStep DEF IInv, Quiet, HashChunk

(***************************************************************************)
(* The digest is of the whole chain, or of a part when the platform fails. *)
(***************************************************************************)
LEMMA HashEndsStep ==
  ASSUME IInv, NEW cut \in BOOLEAN, HashEnds(cut),
         ~cut => (UsesDice(task.nodes) => EndOfChain(task.offset))
  PROVE  IInv'
<1>1. /\ task.nodes \in Lineages /\ task.offset \in 0 .. chain_len /\ chain_len \in Nat
      /\ UsesDice(task.nodes) \/ task.offset = 0
      /\ hasher = Reference(task.nodes, task.offset)
      /\ DOMAIN task = TaskFields
  BY DEF IInv, HashOK, HashEnds
<1>2. /\ task'.digest = hasher /\ task'.cut = cut /\ DOMAIN task' = TaskFields
      /\ task'.nodes = task.nodes /\ task'.kind = task.kind /\ task'.label = task.label
  BY <1>1 DEF HashEnds, TaskFields
<1>3. DigestOf(hasher, task.nodes, cut)
  <2>1. CASE UsesDice(task.nodes)
    BY <1>1, <2>1 DEF DigestOf, EndOfChain
  <2>2. CASE ~UsesDice(task.nodes)
    <3>1. Reference(task.nodes, chain_len) = hasher
      BY <1>1, <2>2, ReferenceIsPrefix
    <3> QED
      BY <1>1, <3>1 DEF DigestOf
  <2> QED
    BY <2>1, <2>2
<1>4. DigestOf(task.digest, task.nodes, task.cut)'
  BY <1>2, <1>3 DEF DigestOf, HashEnds
<1>5. HashOK'
  BY <1>1, <1>2, <1>4 DEF IInv, HashOK, Digested, HashEnds
<1>6. KeyOK' /\ PendingOK'
  BY <1>2 DEF IInv, KeyOK, PendingOK, Named, HashEnds
<1> QED
  BY <1>5, <1>6, QuietStep DEF IInv, Quiet, HashEnds

LEMMA DeriveLeafKeyStep == ASSUME IInv, DeriveLeafKey PROVE IInv'
<1>q. Quiet
  BY DEF Quiet, DeriveLeafKey
<1>1. CASE ~IsValidScalar(LeafKey)
  BY <1>1, <1>q, StopStep DEF DeriveLeafKey
<1>2. CASE IsValidScalar(LeafKey)
  <2>1. /\ pc = "derive" /\ pc' = IF task.kind = "Sign" THEN "sign" ELSE "identify"
        /\ task' = [task EXCEPT !.pub_key = LeafKey] /\ priv_key' = LeafKey
        /\ chain_len' = chain_len
    BY <1>2 DEF DeriveLeafKey
  <2>2. DOMAIN task = TaskFields
    BY DEF IInv, HashOK
  <2>3. /\ task'.pub_key = LeafKey /\ DOMAIN task' = TaskFields
        /\ task'.nodes = task.nodes /\ task'.kind = task.kind /\ task'.label = task.label
        /\ task'.digest = task.digest /\ task'.cut = task.cut
    BY <2>1, <2>2 DEF TaskFields
  <2>4. LeafKey' = LeafKey
    BY <2>3 DEF LeafKey
  <2>5. HashOK'
    <3>1. DigestOf(task.digest, task.nodes, task.cut)'
      BY <2>1, <2>3 DEF IInv, HashOK, Digested, DigestOf
    <3> QED
      BY <2>1, <2>3, <3>1 DEF IInv, HashOK, Digested
  <2>6. KeyOK' /\ PendingOK'
    BY <2>1, <2>3, <2>4 DEF IInv, KeyOK, PendingOK, Named
  <2> QED
    BY <1>q, <2>5, <2>6, QuietStep DEF IInv
<1> QED
  BY <1>1, <1>2

LEMMA IdentifyOrGatherStep == ASSUME IInv, IdentifySubject \/ GatherFields PROVE IInv'
<1>1. /\ pc \in {"identify", "gather"} /\ pc' \in {"gather", "write"}
      /\ UNCHANGED << cdi, priv_key, export_cdi_slots, chain_len, task, issued >>
  BY DEF IdentifySubject, GatherFields, crypto_vars
<1>2. HashOK'
  BY <1>1 DEF IInv, HashOK, Digested, DigestOf
<1>3. KeyOK' /\ PendingOK'
  BY <1>1 DEF IInv, KeyOK, PendingOK, Named, LeafKey
<1> QED
  BY <1>1, <1>2, <1>3, QuietStep DEF IInv, Quiet

(***************************************************************************)
(* A slot is taken only when the CDI is in none and one is left.           *)
(***************************************************************************)
LEMMA DeriveExportedCdiStep == ASSUME IInv, DeriveExportedCdi PROVE IInv'
<1> DEFINE c == Cdi(task.digest, "Exported CDI")
           n == Len(export_cdi_slots)
           slot == [cdi |-> c, handle |-> n + 1]
<1>0. pc = "export" /\ chain_len' = chain_len
  BY DEF DeriveExportedCdi
<1>1. CASE Fail
  BY <1>0, <1>1, StopStep DEF Fail, Quiet, crypto_vars
<1>2. CASE /\ ~IsExported(c) /\ n < MAX_CDI_HANDLES
           /\ export_cdi_slots' = Append(export_cdi_slots, slot)
           /\ task' = [task EXCEPT !.exported = n + 1]
           /\ pc' = "export_key"
           /\ UNCHANGED << hasher, cdi, priv_key, issued >>
  <2>1. /\ DOMAIN task = TaskFields /\ task.kind = "Export" /\ task.label = EXPORTED
        /\ task.nodes \in Lineages /\ chain_len \in Nat
        /\ DigestOf(task.digest, task.nodes, task.cut)
    BY <1>0 DEF IInv, HashOK, KeyOK, Digested
  <2>2. /\ task'.exported = n + 1 /\ DOMAIN task' = TaskFields
        /\ task'.nodes = task.nodes /\ task'.kind = task.kind /\ task'.label = task.label
        /\ task'.digest = task.digest /\ task'.cut = task.cut
    BY <1>2, <2>1 DEF TaskFields
  <2>3. slot \in SlotRecords
    <3>1. c \in ExportedCdis
      <4>1. PICK m \in 0 .. chain_len : task.digest = Reference(task.nodes, m)
        BY <2>1 DEF DigestOf
      <4>2. m \in Nat
        BY <2>1
      <4>3. Cdi(Reference(task.nodes, m), "Exported CDI") \in ExportedCdis
        <5>1. << task.nodes, m >> \in Lineages \X Nat
          BY <2>1, <4>2
        <5>2. /\ << task.nodes, m >>[1] = task.nodes
              /\ << task.nodes, m >>[2] = m
          OBVIOUS
        <5> QED
          BY <5>1, <5>2 DEF ExportedCdis
      <4> QED
        BY <4>1, <4>3
    <3>2. n + 1 \in Nat
      BY LenProperties DEF IInv, SlotsOK
    <3> QED
      BY <3>1, <3>2 DEF SlotRecords
  <2>4. n \in Nat /\ export_cdi_slots \in Seq(SlotRecords)
    BY LenProperties DEF IInv, SlotsOK
  <2>5. /\ export_cdi_slots' \in Seq(SlotRecords)
        /\ Len(export_cdi_slots') = n + 1
        /\ \A i \in 1 .. n : export_cdi_slots'[i] = export_cdi_slots[i]
        /\ export_cdi_slots'[n + 1].cdi = c /\ export_cdi_slots'[n + 1].handle = n + 1
    <3>0. slot.cdi = c /\ slot.handle = n + 1
      OBVIOUS
    <3> HIDE DEF slot, c, n
    <3>1. /\ export_cdi_slots' \in Seq(SlotRecords)
          /\ Len(export_cdi_slots') = n + 1
          /\ \A i \in 1 .. n : export_cdi_slots'[i] = export_cdi_slots[i]
          /\ export_cdi_slots'[n + 1] = slot
      BY <1>2, <2>3, <2>4, AppendProperties DEF n
    <3> QED
      BY <3>0, <3>1
  <2>6. \A i \in 1 .. n : export_cdi_slots[i].cdi # c
    <3>1. DOMAIN export_cdi_slots = 1 .. n
      BY <2>4, LenProperties
    <3> QED
      BY <1>2, <3>1 DEF IsExported
  <2> HIDE DEF slot, c
  <2>7. \A i \in 1 .. n + 1 : i \in 1 .. n \/ i = n + 1
    BY <2>4
  <2>8. SlotsOK'
    <3>1. n + 1 <= MAX_CDI_HANDLES
      BY <1>2, <2>4, SlotsAssumption
    <3> HIDE DEF n
    <3> QED
      BY <2>5, <2>6, <2>7, <3>1 DEF IInv, SlotsOK, n
  <2>9. HashOK'
    <3>1. DigestOf(task.digest, task.nodes, task.cut)'
      BY <1>0, <2>1, <2>2 DEF DigestOf
    <3> QED
      BY <1>0, <1>2, <2>1, <2>2, <3>1 DEF IInv, HashOK, Digested
  <2>10. KeyOK'
    BY <1>2, <2>1, <2>2 DEF KeyOK, Named
  <2>11. \A item \in issued : item.kind = "Export" => item.handle \in 1 .. n
    BY DEF IInv, IssuedOK, ItemOK
  <2>12. PendingOK'
    <3>1. n + 1 \in 1 .. n + 1 /\ n + 1 \notin 1 .. n
      BY <2>4
    <3> QED
      BY <1>2, <2>2, <2>5, <2>11, <3>1 DEF PendingOK, c
  <2>13. ASSUME NEW item \in issued PROVE ItemOK(item)'
    <3>1. ItemOK(item) /\ 1 .. n \subseteq 1 .. n + 1
      BY <2>4, <2>13 DEF IInv, IssuedOK
    <3> QED
      BY <1>0, <2>5, <3>1 DEF ItemOK, DigestOf
  <2>14. IssuedOK'
    BY <1>2, <2>13 DEF IInv, IssuedOK
  <2> QED
    BY <2>8, <2>9, <2>10, <2>12, <2>14 DEF IInv
<1> QED
  BY <1>1, <1>2 DEF DeriveExportedCdi

LEMMA DeriveExportedKeyStep == ASSUME IInv, DeriveExportedKey PROVE IInv'
<1> DEFINE key == Key(SlotOf(task.exported).cdi, task.label, EXPORTED)
<1>q. Quiet /\ pc = "export_key"
  BY DEF Quiet, DeriveExportedKey
<1>1. CASE ~IsValidScalar(key)
  BY <1>1, <1>q, StopStep DEF DeriveExportedKey
<1>2. CASE IsValidScalar(key)
  <2>1. /\ DOMAIN task = TaskFields /\ task.kind = "Export" /\ task.label = EXPORTED
        /\ task.exported \in 1 .. Len(export_cdi_slots)
        /\ export_cdi_slots[task.exported].cdi = Cdi(task.digest, "Exported CDI")
    BY <1>q DEF IInv, HashOK, KeyOK, PendingOK, Digested
  <2>2. key = ExportedKey(task.digest)
    <3>1. SlotOf(task.exported) = export_cdi_slots[task.exported]
      BY <2>1, SlotFound DEF IInv
    <3> QED
      BY <2>1, <3>1 DEF ExportedKey
  <2>3. pc' = "identify" /\ task' = [task EXCEPT !.pub_key = key]
    BY <1>2 DEF DeriveExportedKey
  <2> HIDE DEF key
  <2>4. /\ task'.pub_key = key /\ DOMAIN task' = TaskFields
        /\ task'.nodes = task.nodes /\ task'.kind = task.kind /\ task'.label = task.label
        /\ task'.digest = task.digest /\ task'.cut = task.cut
        /\ task'.exported = task.exported
    BY <2>1, <2>3 DEF TaskFields
  <2>5. HashOK'
    <3>1. DigestOf(task.digest, task.nodes, task.cut)'
      BY <1>q, <2>4 DEF IInv, HashOK, Digested, DigestOf, Quiet
    <3> QED
      BY <1>q, <2>3, <2>4, <3>1 DEF IInv, HashOK, Digested, Quiet
  <2>6. KeyOK' /\ PendingOK'
    BY <1>q, <2>1, <2>2, <2>3, <2>4 DEF IInv, KeyOK, PendingOK, Named, Quiet
  <2> QED
    BY <1>q, <2>5, <2>6, QuietStep DEF IInv
<1> QED
  BY <1>1, <1>2

(***************************************************************************)
(* What is returned carries the key the command holds: the private key for *)
(* a signature, the public key's for a certificate or CSR.                 *)
(***************************************************************************)
LEMMA SignDataStep == ASSUME IInv, SignData PROVE IInv'
<1> DEFINE new == Returned(priv_key, << priv_key >>)
<1>1. /\ pc = "sign" /\ task.kind = "Sign" /\ priv_key = LeafKey
      /\ DigestOf(task.digest, task.nodes, task.cut)
  BY DEF SignData, IInv, HashOK, KeyOK, Digested
<1>2. /\ new.kind = "Sign" /\ new.label = task.label /\ new.nodes = task.nodes
      /\ new.cut = task.cut /\ new.key = LeafKey /\ new.signers = << LeafKey >>
  BY <1>1 DEF Returned
<1>3. LeafKey = Key(LeafCdi(task.digest), task.label, KEY_CONTEXT)
      /\ LeafKey.cdi.digest = task.digest
  BY DEF LeafKey, Key, LeafCdi, Cdi
<1> HIDE DEF new
<1>4. ItemOK(new)
  BY <1>1, <1>2, <1>3 DEF ItemOK, Kinds
<1> QED
  BY <1>1, <1>4, IssueStep DEF SignData, crypto_vars, new

LEMMA WriteStep ==
  ASSUME IInv, pc = "write", NEW signers, Issue(task.pub_key, signers),
         UNCHANGED << chain_len, export_cdi_slots >>,
         signers = IF task.kind = "CSR" THEN << LeafKey, ALIAS >> ELSE << ALIAS >>
  PROVE  IInv'
<1> DEFINE new == Returned(task.pub_key, signers)
<1>1. /\ task.kind \in Kinds /\ task.kind # "Sign"
      /\ task.pub_key = IF task.kind = "Export" THEN ExportedKey(task.digest) ELSE LeafKey
      /\ DigestOf(task.digest, task.nodes, task.cut)
  BY DEF IInv, HashOK, KeyOK, Digested, Named
<1>2. /\ new.kind = task.kind /\ new.label = task.label /\ new.nodes = task.nodes
      /\ new.cut = task.cut /\ new.key = task.pub_key /\ new.signers = signers
      /\ new.handle = task.exported
  BY DEF Returned
<1> HIDE DEF new
<1>3. CASE task.kind = "Export"
  <2>1. /\ task.exported \in 1 .. Len(export_cdi_slots)
        /\ export_cdi_slots[task.exported].cdi = Cdi(task.digest, "Exported CDI")
        /\ \A item \in issued : item.kind = "Export" => item.handle # task.exported
    BY <1>3 DEF IInv, PendingOK, Named
  <2>2. /\ task.pub_key.cdi = Cdi(task.digest, "Exported CDI")
        /\ task.pub_key.cdi.digest = task.digest
    <3>1. task.pub_key = ExportedKey(task.digest)
      BY <1>1, <1>3
    <3>2. /\ ExportedKey(task.digest).cdi = Cdi(task.digest, "Exported CDI")
          /\ Cdi(task.digest, "Exported CDI").digest = task.digest
      BY DEF ExportedKey, Key, Cdi
    <3> QED
      BY <3>1, <3>2
  <2>3. ItemOK(new)
    BY <1>1, <1>2, <1>3, <2>1, <2>2 DEF ItemOK
  <2> QED
    BY <2>1, <2>3, IssueStep DEF new
<1>4. CASE task.kind # "Export"
  <2>1. /\ task.pub_key = Key(LeafCdi(task.digest), task.label, KEY_CONTEXT)
        /\ task.pub_key.cdi.digest = task.digest
    BY <1>1, <1>4 DEF LeafKey, Key, LeafCdi, Cdi
  <2>2. ItemOK(new)
    BY <1>1, <1>2, <1>4, <2>1 DEF ItemOK
  <2> QED
    BY <1>4, <2>2, IssueStep DEF new
<1> QED
  BY <1>3, <1>4

LEMMA WriteCertificateStep == ASSUME IInv, WriteCertificate PROVE IInv'
BY WriteStep DEF WriteCertificate, crypto_vars

LEMMA WriteCsrStep == ASSUME IInv, WriteCsr PROVE IInv'
<1>1. /\ pc = "write" /\ task.kind = "CSR" /\ Issue(task.pub_key, << LeafKey, ALIAS >>)
      /\ UNCHANGED << chain_len, export_cdi_slots >>
  BY DEF WriteCsr, InnerSigner
<1> QED
  BY <1>1, WriteStep

LEMMA FaultStep == ASSUME IInv, Faults PROVE IInv'
<1>1. CASE PlatformFails
  BY <1>1, StopStep DEF PlatformFails, Fail, crypto_vars, Quiet
<1>2. CASE BufferOverflows
  BY <1>2, StopStep DEF BufferOverflows, Fail, crypto_vars, Quiet
<1>3. CASE ChainFails
  BY <1>3, HashEndsStep DEF ChainFails
<1> QED
  BY <1>1, <1>2, <1>3 DEF Faults

LEMMA StutterStep == ASSUME IInv, UNCHANGED vars PROVE IInv'
<1> USE DEF vars
<1>1. HashOK'
  BY DEF IInv, HashOK, DigestOf
<1>2. KeyOK' /\ PendingOK'
  BY DEF IInv, KeyOK, PendingOK, LeafKey
<1> QED
  BY <1>1, <1>2, QuietStep DEF IInv, Quiet

LEMMA Inductive == IInv /\ [Next]_vars => IInv'
<1> SUFFICES ASSUME IInv, [Next]_vars PROVE IInv'
  OBVIOUS
<1>1. ASSUME NEW kind \in Kinds, Begin(kind) PROVE IInv'
  BY <1>1, BeginStep
<1>2. CASE HashNodes
  BY <1>2, HashNodesStep
<1>3. CASE HashInfo
  BY <1>3, HashInfoStep
<1>4. CASE HashChunk
  BY <1>4, HashChunkStep
<1>5. CASE FinishHash
  BY <1>5, HashEndsStep DEF FinishHash
<1>6. CASE DeriveLeafKey
  BY <1>6, DeriveLeafKeyStep
<1>7. CASE SignData
  BY <1>7, SignDataStep
<1>8. CASE DeriveExportedCdi
  BY <1>8, DeriveExportedCdiStep
<1>9. CASE DeriveExportedKey
  BY <1>9, DeriveExportedKeyStep
<1>10. CASE IdentifySubject \/ GatherFields
  BY <1>10, IdentifyOrGatherStep
<1>11. CASE WriteCertificate
  BY <1>11, WriteCertificateStep
<1>12. CASE WriteCsr
  BY <1>12, WriteCsrStep
<1>13. CASE Faults
  BY <1>13, FaultStep
<1>14. CASE UNCHANGED vars
  BY <1>14, StutterStep
<1> QED
  BY <1>1, <1>2, <1>3, <1>4, <1>5, <1>6, <1>7, <1>8, <1>9, <1>10, <1>11, <1>12,
     <1>13, <1>14 DEF Next, Work

(***************************************************************************)
(* The invariant holds of every behaviour: at each call of a command the   *)
(* hasher, the keys and the slots are what that command has put there.     *)
(***************************************************************************)
THEOREM IInvCorrect == Spec => []IInv
<1> QED
  BY Initial, Inductive, PTL DEF Spec

-----------------------------------------------------------------------------
(***************************************************************************)
(* compute_measurement_hash: every key that signs or is certified is       *)
(* derived from its own context's lineage, all of it unless the platform   *)
(* withheld a tail of the chain, whatever failed commands left in the      *)
(* shared hasher.                                                          *)
(***************************************************************************)
THEOREM DigestCorrect == Spec => []DigestIsOfTheLineage
<1>1. IInv => DigestIsOfTheLineage
  BY DEF IInv, IssuedOK, ItemOK, DigestOf, DigestIsOfTheLineage
<1> QED
  BY <1>1, IInvCorrect, PTL

(***************************************************************************)
(* derive_key_pair, called by sign and by certify_key: the key is a        *)
(* function of the label and of what is hashed and tells both apart, and   *)
(* sign_cb signs a CSR with the key the CSR carries.                       *)
(***************************************************************************)
THEOREM SignaturesCorrect == Spec => []SignaturesMatchCertificates
<1>1. ASSUME IInv PROVE SignaturesMatchCertificates
  <2>1. ASSUME NEW x \in Leaves, NEW y \in Leaves, ~x.cut, ~y.cut
        PROVE  x.key = y.key <=>
                 /\ x.label = y.label
                 /\ Reference(x.nodes, chain_len) = Reference(y.nodes, chain_len)
    <3>1. /\ x.key = Key(LeafCdi(x.key.cdi.digest), x.label, KEY_CONTEXT)
          /\ y.key = Key(LeafCdi(y.key.cdi.digest), y.label, KEY_CONTEXT)
          /\ x.key.cdi.digest = Reference(x.nodes, chain_len)
          /\ y.key.cdi.digest = Reference(y.nodes, chain_len)
      BY <1>1, <2>1 DEF Leaves, IInv, IssuedOK, ItemOK, DigestOf
    <3>2. x.key.label = x.label /\ y.key.label = y.label
      BY <3>1 DEF Key
    <3>3. ASSUME x.label = y.label,
                 Reference(x.nodes, chain_len) = Reference(y.nodes, chain_len)
          PROVE  x.key = y.key
      <4>1. x.key.cdi.digest = y.key.cdi.digest
        BY <3>1, <3>3
      <4>2. LeafCdi(x.key.cdi.digest) = LeafCdi(y.key.cdi.digest)
        BY <4>1
      <4> QED
        BY <3>1, <3>3, <4>2
    <3>4. ASSUME x.key = y.key
          PROVE  /\ x.label = y.label
                 /\ Reference(x.nodes, chain_len) = Reference(y.nodes, chain_len)
      <4>1. x.key.cdi.digest = y.key.cdi.digest /\ x.key.label = y.key.label
        BY <3>4
      <4> QED
        BY <3>1, <3>2, <4>1
    <3> QED
      BY <3>3, <3>4
  <2>2. ASSUME NEW item \in issued
        PROVE  item.signers = CASE item.kind = "Sign" -> << item.key >>
                                [] item.kind = "CSR"  -> << item.key, ALIAS >>
                                [] OTHER              -> << ALIAS >>
    BY <1>1, <2>2 DEF IInv, IssuedOK, ItemOK
  <2> QED
    BY <2>1, <2>2 DEF SignaturesMatchCertificates
<1> QED
  BY <1>1, IInvCorrect, PTL

(***************************************************************************)
(* derive_exported_cdi and derive_key_pair_exported: the handle in the     *)
(* response is the handle of the slot that holds the certified key's CDI,  *)
(* and stays so; no such CDI is one that derive_cdi returns for a leaf.    *)
(***************************************************************************)
THEOREM ExportHandleCorrect == Spec => []ExportHandleNamesItsKey
<1>1. ASSUME IInv PROVE ExportHandleNamesItsKey
  <2> SUFFICES ASSUME NEW item \in issued, item.kind = "Export"
               PROVE  /\ \E i \in DOMAIN export_cdi_slots :
                            export_cdi_slots[i] = [cdi |-> item.key.cdi, handle |-> item.handle]
                      /\ \A leaf \in Leaves : leaf.key.cdi # item.key.cdi
    BY DEF ExportHandleNamesItsKey
  <2>1. /\ item.key = ExportedKey(item.key.cdi.digest)
        /\ item.handle \in 1 .. Len(export_cdi_slots)
        /\ export_cdi_slots[item.handle].cdi = item.key.cdi
    BY <1>1 DEF IInv, IssuedOK, ItemOK
  <2>2. /\ DOMAIN export_cdi_slots = 1 .. Len(export_cdi_slots)
        /\ export_cdi_slots[item.handle] \in SlotRecords
        /\ export_cdi_slots[item.handle].handle = item.handle
    BY <1>1, <2>1, LenProperties, ElementOfSeq DEF IInv, SlotsOK
  <2>3. export_cdi_slots[item.handle] = [cdi |-> item.key.cdi, handle |-> item.handle]
    BY <2>1, <2>2 DEF SlotRecords
  <2>4. item.key.cdi.info = "Exported CDI"
    <3> DEFINE digest == item.key.cdi.digest
    <3>1. item.key = ExportedKey(digest)
      BY <2>1
    <3> HIDE DEF digest
    <3>2. ExportedKey(digest).cdi.info = "Exported CDI"
      BY DEF ExportedKey, Key, Cdi
    <3> QED
      BY <3>1, <3>2
  <2>5. ASSUME NEW leaf \in Leaves PROVE leaf.key.cdi.info = "DPE"
    <3>1. leaf.key = Key(LeafCdi(leaf.key.cdi.digest), leaf.label, KEY_CONTEXT)
      BY <1>1, <2>5 DEF Leaves, IInv, IssuedOK, ItemOK
    <3> DEFINE digest == leaf.key.cdi.digest
    <3>2. leaf.key = Key(LeafCdi(digest), leaf.label, KEY_CONTEXT)
      BY <3>1
    <3> HIDE DEF digest
    <3>3. Key(LeafCdi(digest), leaf.label, KEY_CONTEXT).cdi.info = "DPE"
      BY DEF Key, LeafCdi, Cdi
    <3> QED
      BY <3>2, <3>3
  <2> QED
    BY <2>1, <2>2, <2>3, <2>4, <2>5
<1> QED
  BY <1>1, IInvCorrect, PTL

(***************************************************************************)
(* derive_exported_cdi: a CDI that is in a slot is refused, and so is one  *)
(* when the slots are full, so no lineage's CDI is exchanged twice, not    *)
(* even after a failure that came between the slot and the certificate.    *)
(***************************************************************************)
THEOREM ExportedOnceCorrect == Spec => []ExportedOnce
<1>1. ASSUME IInv PROVE ExportedOnce
  <2>1. /\ Len(export_cdi_slots) <= MAX_CDI_HANDLES
        /\ \A i, j \in 1 .. Len(export_cdi_slots) :
             i # j => export_cdi_slots[i].cdi # export_cdi_slots[j].cdi
        /\ DOMAIN export_cdi_slots = 1 .. Len(export_cdi_slots)
    BY <1>1, LenProperties DEF IInv, SlotsOK
  <2>2. ASSUME NEW x \in issued, NEW y \in issued, x.kind = "Export", y.kind = "Export", x # y
        PROVE  x.handle # y.handle /\ x.key # y.key
    <3>1. x.handle # y.handle
      BY <1>1, <2>2 DEF IInv, IssuedOK
    <3>2. /\ x.handle \in 1 .. Len(export_cdi_slots)
          /\ y.handle \in 1 .. Len(export_cdi_slots)
          /\ export_cdi_slots[x.handle].cdi = x.key.cdi
          /\ export_cdi_slots[y.handle].cdi = y.key.cdi
      BY <1>1, <2>2 DEF IInv, IssuedOK, ItemOK
    <3>3. x.key.cdi # y.key.cdi
      BY <2>1, <3>1, <3>2
    <3> QED
      BY <3>1, <3>3
  <2> QED
    BY <2>1, <2>2 DEF ExportedOnce
<1> QED
  BY <1>1, IInvCorrect, PTL
=============================================================================
