----------------------------- MODULE KeySession -----------------------------
(***************************************************************************)
(* The commands that use a context's key, call by call: how                *)
(* dpe_instance.rs hashes a lineage through the one hasher of the crypto   *)
(* layer, how a CDI and a key pair come out of the digest, how a CDI is    *)
(* exchanged for an exported handle, and who signs what.                   *)
(*                                                                         *)
(* DpeInstance takes each of these commands as one step; here it is one    *)
(* action per call that can fail or that touches what the crypto layer     *)
(* keeps: the hasher, the last CDI and private key it derived, and the     *)
(* exported-CDI slots.  All of it outlives a command that fails half-way.  *)
(*                                                                         *)
(* Abstractions.  A digest is the sequence hashed, a CDI and a key are     *)
(* records of what HKDF is given (both free of collisions), and a public   *)
(* key is named by its private key.  A command names its context by the    *)
(* nodes of its lineage.                                                   *)
(***************************************************************************)
EXTENDS Integers, SequencesExt

CONSTANTS
  Lineages,          \* the lineages of the contexts commands may name
  Labels,            \* labels of Sign and CertifyKey
  IsValidScalar(_),  \* whether the bytes of a private key are one
  ChainLengths,      \* lengths of the platform's certificate chain, in bytes
  MAX_CHUNK_SIZE,    \* bytes get_certificate_chain returns at most
  MAX_CDI_HANDLES,   \* capacity of the exported-CDI slots
  MAX_COMMANDS,      \* bound: commands begun
  NONE               \* an absent hasher, key, handle or digest

ASSUME ChunkAssumption == MAX_CHUNK_SIZE \in Nat \ {0} /\ ChainLengths \subseteq Nat

ASSUME SlotsAssumption == MAX_CDI_HANDLES \in Nat

ASSUME LineageAssumption == \A nodes \in Lineages : Len(nodes) \in Nat \ {0}

VARIABLES
  hasher,            \* RustCryptoHasher::hasher: what it has absorbed, or NONE
  cdi,               \* RustCryptoCdi::cdi
  priv_key,          \* RustCryptoSigner::priv_key
  export_cdi_slots,  \* RustCryptoImpl::export_cdi_slots
  chain_len,         \* length of the platform's certificate chain
  pc,                \* the call the command in progress is about to make
  task,              \* that command and its local variables
  issued,            \* history: the certificates, CSRs and signatures returned
  begun              \* history: number of commands begun

crypto_vars == << hasher, cdi, priv_key, export_cdi_slots >>

vars == << hasher, cdi, priv_key, export_cdi_slots, chain_len, pc, task, issued, begun >>

Kinds == {"Sign", "X509", "CSR", "Export"}

NoTask ==
  [ kind |-> NONE, label |-> NONE, nodes |-> << >>, offset |-> 0, cut |-> FALSE,
    digest |-> NONE, exported |-> NONE, pub_key |-> NONE ]

Init ==
  /\ hasher = << >> /\ cdi = NONE /\ priv_key = NONE
  /\ export_cdi_slots = << >>
  /\ chain_len \in ChainLengths
  /\ pc = "idle" /\ task = NoTask
  /\ issued = {} /\ begun = 0

-----------------------------------------------------------------------------
(***************************************************************************)
(* Keys.                                                                   *)
(***************************************************************************)
Cdi(digest, info) == [digest |-> digest, info |-> info]

Key(c, label, info) == [cdi |-> c, label |-> label, info |-> info]

KEY_CONTEXT == "ECC"

EXPORTED == "Exported ECC"

ALIAS == [cdi |-> NONE, label |-> "alias", info |-> "alias"]

LeafCdi(digest) == Cdi(digest, "DPE")

LeafKey == Key(LeafCdi(task.digest), task.label, KEY_CONTEXT)

-----------------------------------------------------------------------------
(***************************************************************************)
(* A command begins; whether its handle and arguments are valid is the     *)
(* subject of DpeInstance.  An X.509 certificate of a leaf key needs the   *)
(* permission of the context, an exported one does not.                    *)
(***************************************************************************)
KeyLabels(kind) == IF kind = "Export" THEN {EXPORTED} ELSE Labels

Begin(kind) ==
  \E nodes \in Lineages, label \in KeyLabels(kind) :
    /\ pc = "idle" /\ begun < MAX_COMMANDS
    /\ kind = "X509" => Last(nodes).allow_x509
    /\ task' = [NoTask EXCEPT !.kind = kind, !.label = label, !.nodes = nodes]
    /\ pc' = "nodes"
    /\ begun' = begun + 1
    /\ UNCHANGED << crypto_vars, chain_len, issued >>

(***************************************************************************)
(* The error that ends a command; what the crypto layer holds stays.       *)
(***************************************************************************)
Fail ==
  /\ pc' = "idle" /\ task' = NoTask
  /\ UNCHANGED << crypto_vars, issued >>

Issue(key, signers) ==
  /\ issued' = issued \cup
       {[ kind |-> task.kind, label |-> task.label, nodes |-> task.nodes, cut |-> task.cut,
          key |-> key, signers |-> signers, handle |-> task.exported ]}
  /\ pc' = "idle" /\ task' = NoTask

-----------------------------------------------------------------------------
(***************************************************************************)
(* compute_measurement_hash.                                               *)
(***************************************************************************)

(***************************************************************************)
(* Mutant of Initialized: a running hash is continued.                     *)
(***************************************************************************)
InitializedOnce == IF hasher = NONE THEN << >> ELSE hasher

(***************************************************************************)
(* Hasher::initialize: whatever a failed command left is forgotten.        *)
(***************************************************************************)
Initialized == << >>

(***************************************************************************)
(* All nodes have the same number of bytes, so these are told apart.       *)
(***************************************************************************)
NodeBytes(node) == << "node", node.tci, node.allow_x509 >>

NodesBytes(nodes) == [i \in 1 .. Len(nodes) |-> NodeBytes(nodes[i])]

HashNodes ==
  /\ pc = "nodes"
  /\ hasher' = Initialized \o NodesBytes(task.nodes)
  /\ pc' = "info"
  /\ UNCHANGED << cdi, priv_key, export_cdi_slots, chain_len, task, issued, begun >>

UsesInfo(nodes) == \E i \in DOMAIN nodes : nodes[i].info

UsesDice(nodes) == \E i \in DOMAIN nodes : nodes[i].dice

InfoBytes == << << "info", "get_profile" >>, << "info", "profile" >> >>

HashInfo ==
  /\ pc = "info"
  /\ hasher' = IF UsesInfo(task.nodes) THEN hasher \o InfoBytes ELSE hasher
  /\ pc' = "chain"
  /\ UNCHANGED << cdi, priv_key, export_cdi_slots, chain_len, task, issued, begun >>

(***************************************************************************)
(* Mutant of EndOfChain: reading at the end gives an empty chunk.          *)
(***************************************************************************)
EndOfChainLate(offset) == offset > chain_len

(***************************************************************************)
(* DefaultPlatform::get_certificate_chain: an error at the end of the      *)
(* chain, which the loop takes for its end, or a chunk.                    *)
(***************************************************************************)
EndOfChain(offset) == offset >= chain_len

ChunkLen(offset) ==
  IF offset + MAX_CHUNK_SIZE < chain_len THEN MAX_CHUNK_SIZE ELSE chain_len - offset

ChainBytes(from, to) == [i \in 1 .. to - from |-> << "chain", from + i >>]

HashChunk ==
  /\ pc = "chain" /\ UsesDice(task.nodes) /\ ~EndOfChain(task.offset)
  /\ LET len == ChunkLen(task.offset)
     IN  /\ hasher' = hasher \o ChainBytes(task.offset, task.offset + len)
         /\ task' = [task EXCEPT !.offset = @ + len]
  /\ UNCHANGED << cdi, priv_key, export_cdi_slots, chain_len, pc, issued, begun >>

HashEnds(cut) ==
  /\ pc = "chain"
  /\ hasher' = NONE
  /\ task' = [task EXCEPT !.digest = hasher, !.cut = cut]
  /\ pc' = IF task.kind = "Export" THEN "export" ELSE "derive"
  /\ UNCHANGED << cdi, priv_key, export_cdi_slots, chain_len, issued, begun >>

FinishHash ==
  /\ UsesDice(task.nodes) => EndOfChain(task.offset)
  /\ HashEnds(FALSE)

-----------------------------------------------------------------------------
(***************************************************************************)
(* derive_cdi and derive_key_pair for a leaf key.  CertifyKey asks for its *)
(* public key at once; both fail on bytes that are no private key.         *)
(***************************************************************************)
DeriveLeafKey ==
  /\ pc = "derive"
  /\ cdi' = LeafCdi(task.digest)
  /\ priv_key' = LeafKey
  /\ IF ~IsValidScalar(LeafKey)
       THEN pc' = "idle" /\ task' = NoTask
       ELSE /\ pc' = IF task.kind = "Sign" THEN "sign" ELSE "identify"
            /\ task' = [task EXCEPT !.pub_key = LeafKey]
  /\ UNCHANGED << hasher, export_cdi_slots, chain_len, issued, begun >>

SignData ==
  /\ pc = "sign"
  /\ Issue(priv_key, << priv_key >>)
  /\ UNCHANGED << crypto_vars, chain_len, begun >>

(***************************************************************************)
(* Mutant of IsExported: a CDI may be exported again.                      *)
(***************************************************************************)
NeverExported(c) == FALSE

IsExported(c) == \E i \in DOMAIN export_cdi_slots : export_cdi_slots[i].cdi = c

(***************************************************************************)
(* derive_exported_cdi.  Handles are random and taken not to collide: the  *)
(* n-th is named n.                                                        *)
(***************************************************************************)
DeriveExportedCdi ==
  LET c == Cdi(task.digest, "Exported CDI")
      h == Len(export_cdi_slots) + 1
  IN  /\ pc = "export"
      /\ \/ /\ IsExported(c) \/ Len(export_cdi_slots) >= MAX_CDI_HANDLES
            /\ Fail
         \/ /\ ~IsExported(c) /\ Len(export_cdi_slots) < MAX_CDI_HANDLES
            /\ export_cdi_slots' = Append(export_cdi_slots, [cdi |-> c, handle |-> h])
            /\ task' = [task EXCEPT !.exported = h]
            /\ pc' = "export_key"
            /\ UNCHANGED << hasher, cdi, priv_key, issued >>
      /\ UNCHANGED << chain_len, begun >>

(***************************************************************************)
(* Mutant of SlotOf: there is only one slot, as MAX_CDI_HANDLES has it.    *)
(***************************************************************************)
FirstSlot(handle) == Head(export_cdi_slots)

SlotOf(handle) ==
  export_cdi_slots[SelectInSeq(export_cdi_slots, LAMBDA slot : slot.handle = handle)]

(***************************************************************************)
(* derive_key_pair_exported and public_key.  When they fail the slot is    *)
(* taken all the same.                                                     *)
(***************************************************************************)
DeriveExportedKey ==
  LET c   == SlotOf(task.exported).cdi
      key == Key(c, task.label, EXPORTED)
  IN  /\ pc = "export_key"
      /\ cdi' = c
      /\ priv_key' = key
      /\ IF ~IsValidScalar(key)
           THEN pc' = "idle" /\ task' = NoTask
           ELSE pc' = "identify" /\ task' = [task EXCEPT !.pub_key = key]
      /\ UNCHANGED << hasher, export_cdi_slots, chain_len, issued, begun >>

(***************************************************************************)
(* get_subject_name and get_subject_key_identifier hash the public key,    *)
(* each from initialize to finish.                                         *)
(***************************************************************************)
IdentifySubject ==
  /\ pc = "identify"
  /\ hasher' = NONE
  /\ pc' = "gather"
  /\ UNCHANGED << cdi, priv_key, export_cdi_slots, chain_len, task, issued, begun >>

(***************************************************************************)
(* The issuer's key identifier, the alternative name, the validity, the    *)
(* signer identifier and, for X.509, the issuer's name.                    *)
(***************************************************************************)
GatherFields ==
  /\ pc = "gather"
  /\ pc' = "write"
  /\ UNCHANGED << crypto_vars, chain_len, task, issued, begun >>

(***************************************************************************)
(* Mutant of InnerSigner: the alias key signs both layers of a CSR.        *)
(***************************************************************************)
InnerSignerAlias == ALIAS

(***************************************************************************)
(* The key sign_cb uses for use_derived: it is derived again.              *)
(***************************************************************************)
InnerSigner == LeafKey

(***************************************************************************)
(* generate_cert_or_csr: a certificate is signed with the alias key, a CSR *)
(* with its own key and, around that, with the alias key.                  *)
(***************************************************************************)
WriteCertificate ==
  /\ pc = "write" /\ task.kind # "CSR"
  /\ Issue(task.pub_key, << ALIAS >>)
  /\ UNCHANGED << crypto_vars, chain_len, begun >>

WriteCsr ==
  /\ pc = "write" /\ task.kind = "CSR"
  /\ cdi' = LeafCdi(task.digest)
  /\ priv_key' = LeafKey
  /\ Issue(task.pub_key, << InnerSigner, ALIAS >>)
  /\ UNCHANGED << hasher, export_cdi_slots, chain_len, begun >>

-----------------------------------------------------------------------------
(***************************************************************************)
(* What the environment may do: a platform call fails, or the response     *)
(* buffer is too short for the certificate or the signature.               *)
(***************************************************************************)
PlatformFails ==
  /\ \/ pc = "gather"
     \/ pc = "info" /\ UsesInfo(task.nodes)
  /\ Fail
  /\ UNCHANGED << chain_len, begun >>

(***************************************************************************)
(* The loop that hashes the chain takes any error for the end of the chain *)
(* and the digest is of what was read.                                     *)
(***************************************************************************)
ChainFails ==
  /\ UsesDice(task.nodes) /\ ~EndOfChain(task.offset)
  /\ HashEnds(TRUE)

BufferOverflows ==
  /\ pc \in {"sign", "write"}
  /\ Fail
  /\ UNCHANGED << chain_len, begun >>

-----------------------------------------------------------------------------
Work ==
  \/ HashNodes \/ HashInfo \/ HashChunk \/ FinishHash
  \/ DeriveLeafKey \/ SignData
  \/ DeriveExportedCdi \/ DeriveExportedKey
  \/ IdentifySubject \/ GatherFields \/ WriteCertificate \/ WriteCsr

Faults == PlatformFails \/ ChainFails \/ BufferOverflows

Next == (\E kind \in Kinds : Begin(kind)) \/ Work \/ Faults

(***************************************************************************)
(* A handler is sequential code that runs until it returns, so its next    *)
(* call is eventually made.  Nothing obliges clients to send commands, or  *)
(* the environment to fail.                                                *)
(***************************************************************************)
Fairness == WF_vars(Work)

Spec == Init /\ [][Next]_vars /\ Fairness

-----------------------------------------------------------------------------
(***************************************************************************)
(* Properties.                                                             *)
(***************************************************************************)

(***************************************************************************)
(* What a key stands for: the nodes from the root to the context, the      *)
(* profile and vendor if any node asks for them, and the first n bytes of  *)
(* the certificate chain if any node asks for that.                        *)
(***************************************************************************)
Reference(nodes, n) ==
  NodesBytes(nodes)
    \o (IF UsesInfo(nodes) THEN InfoBytes ELSE << >>)
    \o (IF UsesDice(nodes) THEN ChainBytes(0, n) ELSE << >>)

(***************************************************************************)
(* Whatever commands came before, and wherever they failed, a key that is  *)
(* used or certified comes from a digest of the whole lineage of its       *)
(* context and of nothing else; it misses a tail of the certificate chain  *)
(* only when the platform failed to deliver it.  compute_measurement_hash  *)
(* has no hasher of its own: it reuses the one of the crypto layer, which  *)
(* an earlier failure leaves half-fed.                                     *)
(***************************************************************************)
DigestIsOfTheLineage ==
  \A item \in issued : \E n \in 0 .. chain_len :
    /\ ~item.cut => n = chain_len
    /\ item.key.cdi.digest = Reference(item.nodes, n)

Leaves == {item \in issued : item.kind # "Export"}

(***************************************************************************)
(* Sign and CertifyKey derive the key independently, each time anew: they  *)
(* arrive at the same key exactly for the same label and contexts that     *)
(* hash alike, whatever was derived in between.  A CSR is signed with the  *)
(* key it carries and, around that, by the alias key; a certificate by the *)
(* alias key only.                                                         *)
(***************************************************************************)
SignaturesMatchCertificates ==
  /\ \A x, y \in {item \in Leaves : ~item.cut} :
       x.key = y.key <=>
         /\ x.label = y.label
         /\ Reference(x.nodes, chain_len) = Reference(y.nodes, chain_len)
  /\ \A item \in issued :
       item.signers = CASE item.kind = "Sign" -> << item.key >>
                        [] item.kind = "CSR"  -> << item.key, ALIAS >>
                        [] OTHER              -> << ALIAS >>

(***************************************************************************)
(* The handle returned with an exported certificate finds the CDI from     *)
(* which the certified key was derived, and that key is never one that     *)
(* Sign or CertifyKey use (derive_exported_cdi and                         *)
(* derive_key_pair_exported, two calls joined by the handle only).         *)
(***************************************************************************)
ExportHandleNamesItsKey ==
  \A item \in issued : item.kind = "Export" =>
    /\ \E i \in DOMAIN export_cdi_slots :
         export_cdi_slots[i] = [cdi |-> item.key.cdi, handle |-> item.handle]
    /\ \A leaf \in Leaves : leaf.key.cdi # item.key.cdi

(***************************************************************************)
(* A CDI is exchanged for one handle at most, also when the command that   *)
(* took the handle failed before it could return it, and no more handles   *)
(* exist than there are slots: no two exported certificates are for the    *)
(* same lineage (export_cdi_slots is searched before it is extended, and   *)
(* never released).                                                        *)
(***************************************************************************)
ExportedOnce ==
  /\ Len(export_cdi_slots) <= MAX_CDI_HANDLES
  /\ \A i, j \in DOMAIN export_cdi_slots :
       i # j => export_cdi_slots[i].cdi # export_cdi_slots[j].cdi
  /\ \A x, y \in {item \in issued : item.kind = "Export"} :
       x # y => x.handle # y.handle /\ x.key # y.key

(***************************************************************************)
(* Every command ends, also the loop over the certificate chain, which     *)
(* relies on the platform to report an error at the end of the chain.      *)
(***************************************************************************)
EveryCommandEnds == pc # "idle" ~> pc = "idle"
=============================================================================
