# A TLA+ development of the Caliptra DPE

This directory specifies the DICE Protection Environment in `src/dpe`: a library
that keeps a small array of *contexts*, each the measurements of one piece of
software, and executes the commands of the DPE iRoT profile on them; and the
simulator in `src/simulator`, the process that serves such an instance on a
socket. The specification has six parts:

* `DpeInstance`: every command of `src/dpe/src/commands/` on the context array of
  `context.rs` and `state.rs`, one atomic step per command;
* `ContextForest`: what the array promises, as an abstract forest that
  `DpeInstance` is checked to implement;
* `DpeValidator`: the validator of `validation.rs`, compared with the commands in
  both directions;
* `KeySession`: the commands that use a key, call by call, with what the crypto
  layer keeps from one command to the next;
* `CertWriter`: the writer of certificates and CSRs in `x509.rs`;
* `Simulator`: processes, threads, clients, crashes and restarts, over
  `CommandCodec`, the encoding of commands and responses.

TLC checks them on small instances; TLAPS proves theorems about each of them for
every value of the constants.

## 1. Inventory

| Part | State | Operations | Where |
|---|---|---|---|
| Context array | `State::contexts`: per slot a handle, a measurement node, a parent index, a bitmap of children, flags, and `Inactive`/`Active`/`Retired` | `activate`, `destroy`, lookup by handle and locality, next free slot, descendants, walk to the root | `context.rs`, `state.rs`, `tci.rs` |
| Instance | `State::has_initialized`, `support` | start-up with or without auto-initialisation, `generate_new_handle`, `roll_onetime_use_handle`, `add_tci_measurement`, `compute_measurement_hash`, execution of one command | `dpe_instance.rs`, `support.rs` |
| Commands | none of their own | InitializeContext, DeriveContext, DestroyContext, RotateContextHandle, UpdateContextMeasurement, Sign, CertifyKey, GetProfile, GetCertificateChain | `commands/` |
| Crypto layer | one hasher, the last CDI and private key, and the CDIs it has exported, in `MAX_CDI_HANDLES` slots | hashing, key derivation, signing, `derive_exported_cdi` | `src/crypto` |
| Platform | none seen by the instance | certificate chain chunks, issuer name, `get_auto_init_locality` | `src/platform` |
| Certificate writer | an offset into the response, a stack of skipped length fields, the range of the CSR | DER certificates and CSRs | `x509.rs` |
| Response buffer | the bytes of one response | bounded writes | `src/response-buffer` |
| Validator | none | checks an array of contexts restored from elsewhere | `validation.rs` |
| Encoding | none | recognises a command, sizes and truncates responses, numbers errors | `commands/mod.rs`, `response.rs`, `error.rs` |
| Simulator | one instance, a socket file, two threads | start-up, accept loop, request handling, clean-up on SIGTERM | `src/simulator` |
| Simulator transport | whether the process is up | PowerOn, PowerOff, SendCmd | `src/verification/sim/transport.go` |

**Interaction.** A caller in some hardware *locality* sends a command and waits
for its response. The instance owns the array; handlers call the crypto layer
and the platform through traits, and write the response into the caller's
buffer. Inside the library nothing runs concurrently:
`execute_serialized_command` takes `&mut` state and returns before the next
command is read. What outlives a command is the array and, in the crypto layer,
objects that every command shares. Around the library, the simulator's main
thread serves one connection at a time while a second thread waits for SIGTERM;
the socket file is shared with the processes before and after it and with the
client that starts and stops them. What is hard is therefore

* **the order of effects inside one command**: handlers copy contexts, draw
  handles, call crypto, commit, and write the response, each step able to fail.
  Which failures leave the state alone is the subject of the action properties;
* **long sequences of legal commands by several localities**: derivations that
  retire their parent, hand contexts to another locality, or make them default;
  destruction of subtrees with retired ancestors; slots that are used again;
* **limits**: all slots in use (some by retired contexts that nobody can name),
  all export slots in use, no fresh handle left;
* **leftovers of failed commands**: the crypto layer has one hasher, one CDI and
  one private key, and a handler that returns early leaves them as they are;
* **a process without error paths**: whatever goes wrong in a request panics the
  simulator, with clients connected and queued, and a successor may start while
  its predecessor is still on its way out;
* **stale values**: a one-time handle after its use, a handle compared with the
  committed array while a newer copy is pending, fields `destroy` leaves behind.

**What makes each part correct.**

* *Context array*: both ends of every parent/child link agree, no cycle, freed
  slots are blank, retired contexts are collected with their last child.
* *Handles*: unique among active contexts, good for one command, and the
  handles a response carries name what the caller was promised.
* *Localities*: a default context is alone in its locality; a command reaches
  only what its caller holds a handle to.
* *Derivation*: permissions only shrink along a chain, one tree of Normal
  contexts that is started once, measurements only grow, a CDI is exported only
  where the whole lineage permits it.
* *Failures*: a command that fails changes nothing, with the exceptions the
  runs pin down.
* *Keys*: a key comes from its own context's lineage and nothing else, a
  signature matches the certificate, an exported handle names the certified key,
  and every command ends.
* *Certificate writer*: a length declared before or after its content is that of
  the content, what is signed is not written again, and what does not fit is not
  returned.
* *Validator*: it accepts every state the commands can produce, and what it
  accepts is safe to go on from.
* *Simulator*: no handle is lost with a response, both sides read a
  response alike, a new process can bind its address and keeps it, and every
  request ends.

## 2. Modules

| Module | Contents |
|---|---|
| `DpeContext` | The context record, its life cycle, and the searches, as operators over an array `cs`. No variables, so commands can apply them to copies. |
| `DpeInstance` | The state machine: one action per command outcome, `Init`, `Next`, `Spec`. |
| `DpeProperties` | `TypeOK`, the invariants and the action properties. |
| `ContextForest` | The abstract specification: a forest of nodes, held or not, with logs of measurements; no slots, bitmaps, flags or errors. |
| `DpeRefinement` | `DpeInstance` under the mapping to `ContextForest`. |
| `DpeValidator` | The checks of `validation.rs` as predicates on an array, and `RestoredSpec`, an instance that goes on from any array they accept. |
| `MCDpe` | Constants for TLC: flag combinations, features, handles, symmetry, view. |
| `CertEncoding` | The DER encoder of `x509.rs`: the `get_*_size` and `encode_*` functions as lengths. No variables. |
| `CertWriter` | The state machine of one certificate or CSR: skipped and backfilled length fields, truncation, signing callbacks. |
| `MCCert` | The requests for TLC. |
| `KeySession` | The state machine of the commands that use a key, one action per call. |
| `MCKeys` | Its lineages and failing keys for TLC. |
| `CommandCodec` | Headers, sizes, response types, partial lengths and error codes, as operators. No variables. |
| `Simulator` | The state machine of simulator processes and their clients. |
| `MCSim` | Its requests for TLC. |
| `DpeTypeProofs` | Lemmas about `DpeContext`; `TypeOK` is an invariant of `Spec`; `StepShape`: the five ways a step changes the array. |
| `DpeForestProofs` | Theorems about links, cycles, free slots and retired contexts, then about permissions, input types, context types and identity, then about handles and default contexts. |
| `DpeCommandProofs` | `StepOutcome`: how each command ends; theorems about what a command may do and what it returns; that a DPE instance implements `ContextForest`. |
| `DpeValidatorProofs` | Theorems about instances that go on from an accepted array, and that the validator accepts what commands produce. |
| `KeySessionProofs` | Theorems about keys, signatures and exported handles. |
| `CertEncodingProofs` | Lemmas: how many bytes each encoder writes, and that the length it declares is that of what it writes. |
| `CertWriterProofs` | Theorems about lengths, signed ranges and the output of the certificate writer. |
| `SimulatorProofs` | Theorems about handles told to clients, what they read back, and the socket. |

Three pairs meet in one place each. `Simulator` extends `CommandCodec` and uses it
on both ends of the socket; `DpeRefinement` is `ContextForest` over
`DpeInstance`'s variables; `DpeValidator` extends `DpeProperties`, so that what
it accepts can be an initial state. `KeySession`, `CertWriter` and `DpeInstance`
share no variable: the last sees a key use as one success or failure, the first
two refine that at the level of calls and of bytes.

### State

`contexts`, `has_initialized` and `export_cdi_slots` are the program's state;
`resp` records the last command and its response, so that properties can speak
of them. No action reads `resp`, and `VIEW StateView` removes it from TLC's
fingerprints.

| Code | Model |
|---|---|
| `[Context; MAX_HANDLES]` | function on `Slots`, 0-based as in the code |
| `ContextHandle` | model value; `DEFAULT` is all zeros, `INVALID` all ones |
| `children: U64` | the set of its bits |
| `tci_cumulative` | the sequence of measurements hashed into it (hashing without collisions); `tci_current` is its last element |
| `svn` | left out, as no command branches on it; `CertEncoding` has the svns of a lineage |
| measurement hash, hence CDI | the nodes of the lineage, root first, and the two internal-input flags |
| `RootToChildIter`, `get_descendants`, the parent loop of `destroy_context` | `Reachable`, the least set closed under the links |
| RNG, crypto, platform, response buffer | a bound variable of the action: a draw, a success or a failure |
| certificates, signatures, wire format | success or failure only in `DpeInstance`; certificates are the subject of `CertWriter` |

### Actions

Each handler is one or more actions, one for its refusals and one for the path
past its checks. `XStatus` operators give the error of the first failing check
in the code's order. A path action keeps the code's order of draws, crypto,
commits and response; all it changes is in it. For instance
`UpdateContextMeasurement` commits the parent's rolled handle before the
child's draw may fail, and `Sign` commits only once the response fits, because
the code does. `CertifyKey` has two writes around its commit: the certificate goes
behind the room for the header, then the rolled handle is committed
(`certify_key.rs:205`), then `write_header` puts the header that tells it into the
buffer, and may return `InvalidResponseBuf`. The export in DeriveContext has the
same order (`derive_context.rs:408` and `:421`). The buffers of the repository are
slices, which take the header if they took what lies behind it, but
`ResponseBuffer` is a trait and does not promise it. The constant
`BUFFER_MAY_REFUSE` says whether the second write may fail (`HeaderFits`); with it
a failed CertifyKey or export may have replaced or retired the caller's context.
A recursive derivation returns the default handle in `parent_handle`, with the
comment that it should be ignored (`derive_context.rs:328`), and so does
`DeriveRecursive`; `ReturnedHandlesResolve` says nothing of that field there.

| Command | Actions | Source |
|---|---|---|
| InitializeContext | `InitializeRejected`, `InitializeDefault`, `InitializeSimulation` | `commands/initialize_context.rs` |
| DeriveContext | `DeriveRejected`, `DeriveRecursive`, `DeriveChild`, `DeriveExportedCdi` | `commands/derive_context.rs` |
| DestroyContext | `DestroyRejected`, `DestroyCtx` | `commands/destroy_context.rs` |
| RotateContextHandle | `RotateRejected`, `RotateCtx` | `commands/rotate_context.rs` |
| UpdateContextMeasurement | `UpdateRejected`, `UpdateContextMeasurement` | `commands/update_context_measurement.rs` |
| Sign | `SignRejected`, `Sign` | `commands/sign.rs` |
| CertifyKey | `CertifyKeyRejected`, `CertifyKey` | `commands/certify_key.rs` |
| GetProfile, GetCertificateChain | of the same names | `commands/get_profile.rs`, `commands/get_certificate_chain.rs` |

The random source is taken not to repeat, within one command, bytes that
command has seen, unless `RNG_MAY_REPEAT`. Across commands a draw is only
compared with what the array holds, as in the code. `RNG_MAY_REPEAT` is `FALSE` in
every run: the code compares the child's draw neither with the handle just drawn
for the parent (`derive_context.rs:452`) nor with the parent's old one
(`update_context_measurement.rs:119`), and relies on 16 random bytes not to repeat.
With repeats `HandlesUnique` and `HandleIsOneTimeUse` do not hold. So neither
property covers these two places; they assume them away.

### Validator

`ValidateDpe(contexts, has_initialized)` holds when `validate_dpe` returns
`Ok`. Which of several errors it returns first is left out, and so are the
marker and the version of `State`. Each conjunct names in its comment the
errors it stands for. The depth-first searches are `Subtree`; once no slot has
two parents a search comes to no slot twice, so the code's "seen before" reduces
to the last conjunct of `ValidateContextForest`, that every live slot is seen.

`RestoredSpec` starts from an arbitrary array of stored slots, in which
`parent_idx` may be any byte and `children` may have bits past the last slot,
provided the validator accepts it. It stands for a `State` kept in memory over a
reset of the firmware that uses the library. The validator does not look at
`allow_export_cdi`, at `allow_recursive` of a free slot, at duplicate handles
other than the default one, at two children of one type, or at permissions a
child has and its parent lacks:
`HandlesUnique`, `InputTypeNamesChild` and `PermissionsInherited` are
therefore properties of `Spec` and not of `RestoredSpec`.

### Abstract forest

`ContextForest` has six actions: plant a root, grow a leaf below a held node,
extend a held node's log, reissue a handle, retire a node that has children, and
prune a held node with its subtree and exactly those unheld ancestors that lose
their last child. `DpeRefinement` maps live slots to nodes, `parent_idx` to
their parents, and active slots to held nodes. `ImplementsForest` then says that
every command, however many slots, bitmaps and copies it writes, is one of these
steps or none.

### Key session

`KeySession` takes Sign, CertifyKey (X.509 or CSR) and the export in
DeriveContext apart into the calls that fail or touch the crypto layer: hashing
the nodes, the internal inputs, the certificate chain chunk by chunk, deriving
the CDI and the key pair, hashing the subject's name and identifiers, asking the
platform, and writing. `pc` is the next call and `task` has the handler's local
variables; `hasher`, `cdi`, `priv_key` and `export_cdi_slots` stay when a
command fails.

| Code | Model |
|---|---|
| a digest | the sequence hashed; nodes, info and chain bytes are told apart |
| HKDF output | a record of its inputs |
| a public key | its private key |
| `serialize_internal_input_dice`'s loop | `HashChunk`, ended by `FinishHash` at the end of the chain or by `ChainFails` at an error of the platform, which the code cannot tell from it |
| bytes that are no valid private key | the constant `IsValidScalar` |
| a random exported handle | a number not used before |

### Encoding and simulator

`CommandCodec` has what can go wrong without looking at payloads: which header
and length make which command, the two layouts of Sign for ML-DSA, the table of
response types the server allocates from and the one the client reads by, the
length of a response cut after its certificate, and the number of an error. An error is a
discriminant and, for one that is internal or comes from the platform, the crypto
layer or the validator, its cause. `ErrorCode` is `get_error_code`: it carries the
cause of the last three, and turns every internal error into 1. What a platform or
crypto library adds to a cause (`PrintError(u32)`) is left out: no code carries it.

`Simulator` has for every process the place of its main thread, its Ctrl-C
thread, the backlog of its socket, the connection it serves, and one context with
a one-time handle, and the handle it wrote to a client last; globally, who bound the socket file. A process that panics,
returns or is killed exits: its connections are closed and its contexts gone, and
the file stays. The environment dials, writes one request and may leave; it
starts a process by hand or with PowerOn, and sends SIGTERM at any time. As
PowerOff waits for the file to disappear and no longer, a successor may start
while its predecessor is still between deleting the file and exiting.

| Code | Model |
|---|---|
| `stream?` in the accept loop, `cleanup`, return | `AcceptFails`, `Return` |
| `unwrap`, `panic!` | `Exit` |
| `handle_request` | `HandleRequest`, `WriteResponse` or `WriteFails` |
| `execute_serialized_command` | `Outcomes`: the answer and the handle the context has afterwards, in the four cases below |
| Ctrl-C handler | `HandlerCleanup`, `HandlerExit` |

A command that names the context by its handle (`NamesContext`) is answered with
`InvalidHandle`, or by UpdateContextMeasurement with `InvalidParentLocality`, when
the handle is not the current one (`LookupError`). Otherwise it succeeds and rolls
the handle, or, for DestroyContext and an export that does not retain its context,
leaves no context (`Successes`); or it fails and changes nothing (`Failures`); or
it is an UpdateContextMeasurement whose second draw fails, which leaves the handle
of its first draw committed and in no response (`Untold`,
`update_context_measurement.rs:105-124`). `lost` records the processes in which that
has happened. A failure of the response buffer after a commit does not occur here:
`execute` allocates a buffer of the type of the response.

### Certificate writer

`CertWriter` makes one certificate or CSR for one `request`, the arguments of
`generate_cert_or_csr`: the profile, X.509 or CSR, CA or leaf, the svns of the
lineage, the svn of slot 0, and what the platform and the caller provide. The
properties compare lengths with what is written, so a byte string is its length,
an integer is its length, its leading zeros and its high bit, and an encoder
returns how many bytes it writes and whether each length declared in them is
right (`exact`). `svns` and `slot0` are apart because the code reads the latter
through `first_node`, which does not follow the lineage.

| Code | Model |
|---|---|
| `offset`, `backtracks`, `saved_offset`, `csr_range` | fields of `writer` |
| the buffer | `writer.log`: the ranges written, backfilled and signed, in order |
| `?` | `writer.error`; `IfOk` skips every later step |
| `write_at` past the end | counted like any other write; `CheckNotTruncated` notices |
| the local `bytes_written` sums that cross a signature or a nested encoder | `count` |
| `sign_cb` | an action that may fail |

An action is a stretch of code between two nested encoders or calls of `sign_cb`.
`DpeInstance` sees the whole of it as the success or failure of CertifyKey and of
the export in DeriveContext; the two modules share no variable. `MAX_BACKTRACKS`
is 10; the comment at `x509.rs:66` says the deepest path is 7, while the CSR
inside a CMS message goes to 8 (three in `encode_cms`, three in
`encode_encapsulated_content_info`, two in the CSR).

## 3. Runs

| Run | Question | Properties | Bounds |
|---|---|---|---|
| `forest` | Is the forest well formed after any sequence of derivations, rotations, key uses and destructions? | `TypeOK`, `LinksAgree`, `InactiveIsBlank`, `RetiredIsNeeded`, `NoCycle`, `InputTypeNamesChild`, `IdentityIsStable` | 4 slots, 1 locality, 2 input types |
| `localities` | Do default contexts stay alone and handles unique and local when contexts are handed over, and is every command a step of the abstract forest? | `DefaultIsAlone`, `HandlesUnique`, `ReturnedHandlesResolve`, `OthersAreUntouched`, `NormalRootOnlyOnce`, `ImplementsForest` | 3 slots, 2 localities |
| `failures` | What may a failing command have changed, and are exports, self-updates and permissions bounded by the lineage? | `PermissionsInherited`, `ExportIsPermitted`, `MeasurementsAreExtended`, `OtherFailuresKeepContexts`, `FailedUpdateOnlyRollsParent`, `FailedKeyUseKeepsHandle`, `HandleIsOneTimeUse` | 3 slots, 1 input type (so a context has one child at most), 1 export slot, 2 measurements per context, every source of failure on, but for draws that repeat |
| `restored` | Is what the validator accepts a forest, does it stay one under commands, and what may the validator hold against it later? | `LinksAgree`, `NoCycle`, `OneNormalTree`, `RejectedOnlyForMixing` | 3 slots whose links are arbitrary (a parent and a child past the end included), both context types |
| `revalidated` | Is what the commands make of an accepted array accepted again? | `ValidatorAccepts` | 3 slots, 2 localities, no simulation |
| `certificates` | Are lengths right, signed ranges final and truncated output refused? | those of `CertWriter` | the 3 profiles; leaf, exported-CDI certificate and CSR; lineages of 1, 2, 3 and 64 contexts with svns of one, two and five bytes; the least and the most platform data; P-256 requests into buffers of every size from 0 to 1100 bytes |
| `keys` | Does anything the crypto layer keeps leak from one command into the key of another, and does every command end? | `DigestIsOfTheLineage`, `SignaturesMatchCertificates`, `ExportHandleNamesItsKey`, `ExportedOnce`, `EveryCommandEnds` | 3 commands, 4 lineages, 2 labels, 2 export slots, a chain of 3 bytes read 2 at a time |
| `server` | Is a handle lost, an answer misread, the socket taken away, or a client left waiting? | `ToldHandleIsCurrent`, `AnswersAreUnderstood`, `SocketIsServed`, `EveryRequestEnds` | 2 processes, 2 clients, 2 connections, the ML-DSA build, 64 contexts, six requests |
| `doc_*` | Four statements of the repository that the code does not keep (section 4) | one each | 2 slots; for `doc_tcb_info_size` a lineage of two |

`ValidatorAccepts` holds where simulation is not supported. Where it is, it does
not (see `doc_default_mixed` below), and `RejectedOnlyForMixing`, checked in
`restored`, says that the handles of a locality are all the validator then
objects to.

Every run of `DpeInstance` lets the locality enumerate every handle, held or not, so that wrong
handles and wrong localities are tried in every state. Three slots are the
least with a grandparent, or with two siblings and a parent; four also give a
retired grandparent with a second branch, the case in which
`destroy_context`'s upward loop must stop. One handle more than there are
slots lets a command draw a handle that differs from all that are held and from
the one it was called with. `MAX_TCI_EXTENDS` bounds the measurements in one
cumulative TCI: 1 where only the shape of the forest matters (a child is
measured at its derivation, so no update goes through there, and a recursive
derivation once, for the root: in `localities` that is enough for one to return a
handle and no parent handle), 2 where extensions do. Handles are interchangeable, so these runs
use symmetry on them; none of them has a liveness property.

1100 bytes are more than the largest of the small requests takes, so that the
buffer ends at every byte of each. The remaining requests have room for
everything.

Three commands in `keys` are the least for a failed one between two that should
agree; the lineages are a root and children of it with equal measurements that
differ only in the vendor information, the chain, or the permission that goes
into the digest. Two slots, where the code has `MAX_CDI_HANDLES` = 1, tell a
lookup by handle from taking the first, and let the slots fill up. A chain of
three bytes in chunks of two has a full chunk, a short one and an end. One label
gives no valid key for one context, and neither does one exported CDI, so that a
command fails after it has derived.

Two processes in `server` are the least for a crash and a restart, or for a
predecessor that overlaps its successor; two clients let one wait behind
another. The requests leave the context alone, roll its handle, destroy or export
it, and roll two handles; among them are the two response types that are not
those of a command, a header for another profile, and a raw Sign that is one byte
short. The other commands and profiles are left to the theorem `AnswersCorrect`.
The failures are one with a cause and one without, `ExportedCdiHandleDuplicateCdi`
and `HandleGenerationExhausted`; `AnswersAreUnderstood` compares each code that is
sent with those of all `Errors`.

**Fairness.** `DpeInstance` and `CertWriter` assume none: they have safety
properties only. In `KeySession` the next call of a command in progress is
weakly fair (`WF_vars(Work)`): a handler is sequential code that does not wait for
anyone. That the loop over the chain ends is then a matter of the platform's
contract, an error at the end of the chain, and not of fairness. In `Simulator`
both threads of each process are weakly fair, being threads the operating system
schedules, and so is the write of a client that has dialled, as `SendCmd` writes
at once. Nobody has to dial, start or stop a process, stay connected, or fail.
`EveryRequestEnds` depends on the clients' fairness: the server waits for a
request without a time limit, so a client that connects and stays silent would
keep all others waiting.

**Faults.** `failures`: random source, crypto layer, platform and response buffer
at every command, and a buffer that takes a certificate and refuses its header.
That run has no simulation contexts, so in it the `Normal` half of
`ExportIsPermitted` only says that the one type there is stays the only one; the
theorem `ExportCorrect` covers instances with simulation. `keys`: the same call by call, and keys that are not valid.
`server`: panics, SIGTERM at any point, clients that leave before they write or
before they are answered, a failing `accept`, a socket file left by a crash, and
a second process that starts before the first is gone. `SocketIsServed` excepts
processes after a failed `accept` (`broken`): such a process deletes the socket,
and may delete it again, then another's, when SIGTERM reaches it before it has
returned. The repository does not promise otherwise.

**Deadlock** checking is on for `DpeInstance` (a command can always be sent). It is
off for `CertWriter`, whose writer is dropped when it is done, and in `keys` and
`server`, where the numbers of commands and of connections and processes are
bounded and the system stops when they are used up.

## 4. Disagreements between the code and what the repository says of it

* `doc_failed_update`: UpdateContextMeasurement fails between its two commits
  (`update_context_measurement.rs:112`) and the parent's handle is lost, though
  the fuzz harness (`src/dpe/fuzz/src/fuzz_target_1.rs:86`) panics on a failed
  command that changed the state. `FailedUpdateOnlyRollsParent` shows that
  nothing else is lost.
* `doc_derive_commit`: after "At this point we cannot error out anymore"
  (`derive_context.rs:490`) DeriveContext can still return
  `InvalidResponseBuf`.
* `doc_default_mixed`: InitializeContext puts a simulation context beside a
  default one, against `derive_context.rs:193` and the validator.
  `DefaultIsAlone` holds in `localities`, where simulation is not supported.
* `doc_tcb_info_size`: the size of the TCB infos is the number of nodes times the
  size of the one in `contexts[0]` (`x509.rs:642`), but each node's svn takes as
  many bytes as its value needs. A lineage whose root has svn 0 and whose child
  has svn 128 gives a certificate whose lengths do not fit its content.
  `SizesAreExactForEqualSvns` shows that nothing else goes wrong with lengths.

Three smaller observations have no run. `generate_new_handle` promises a handle
unique among all others, but compares a draw with committed contexts only, not
with the handle the same command has just drawn for the parent; the theorem
`HandlesCorrect` carries the condition that makes up for it. No path releases an
exported CDI, though `src/tools/mjolnir/threat_model.md:38` wants its handle
invalidated upon teardown. And a lineage of `MAX_HANDLES` contexts with long svns and
names does not fit the buffer that `build.rs` sizes, so CertifyKey then fails.

## 5. Proofs

TLC settles each formula on a small instance; the theorems below hold for every
value of the constants that satisfies the assumptions, in particular for the 64
slots of the default build and for any number of localities and input types.

| Theorem | Statement | Module |
|---|---|---|
| `TypeCorrect` | `Spec => []TypeOK` | `DpeTypeProofs` |
| `LinksCorrect` | `Spec => []LinksAgree` | `DpeForestProofs` |
| `NoCycleCorrect` | `Spec => []NoCycle` | `DpeForestProofs` |
| `BlankCorrect` | `Spec => []InactiveIsBlank` | `DpeForestProofs` |
| `RetiredCorrect` | `Spec => []RetiredIsNeeded` | `DpeForestProofs` |
| `PermissionsCorrect` | `Spec => []PermissionsInherited` | `DpeForestProofs` |
| `InputTypeCorrect` | `Spec => []InputTypeNamesChild` | `DpeForestProofs` |
| `NormalTreeCorrect` | `Spec => []OneNormalTree` | `DpeForestProofs` |
| `NormalRootCorrect` | `Spec => NormalRootOnlyOnce` | `DpeForestProofs` |
| `IdentityCorrect` | `Spec => IdentityIsStable` | `DpeForestProofs` |
| `HandlesCorrect` | `~RNG_MAY_REPEAT => (Spec => []HandlesUnique)` | `DpeForestProofs` |
| `DefaultCorrect` | `"SIMULATION" \notin Support => (Spec => []DefaultIsAlone)` | `DpeForestProofs` |
| `FailuresCorrect` | `Spec => OtherFailuresKeepContexts` | `DpeCommandProofs` |
| `KeyUseCorrect` | `Spec => FailedKeyUseKeepsHandle` | `DpeCommandProofs` |
| `FailedUpdateCorrect` | `Spec => FailedUpdateOnlyRollsParent` | `DpeCommandProofs` |
| `OneTimeUseCorrect` | `~RNG_MAY_REPEAT => (Spec => HandleIsOneTimeUse)` | `DpeCommandProofs` |
| `MeasurementsCorrect` | `Spec => MeasurementsAreExtended` | `DpeCommandProofs` |
| `ReachCorrect` | `Spec => OthersAreUntouched` | `DpeCommandProofs` |
| `ExportCorrect` | `Spec => ExportIsPermitted` | `DpeCommandProofs` |
| `ReturnedHandlesCorrect` | `~RNG_MAY_REPEAT /\ "SIMULATION" \notin Support => (Spec => ReturnedHandlesResolve)` | `DpeCommandProofs` |
| `RefinementCorrect` | `Spec => ImplementsForest` | `DpeCommandProofs` |
| `RestoredLinksCorrect` | `RestoredSpec => []LinksAgree` | `DpeValidatorProofs` |
| `RestoredNoCycleCorrect` | `RestoredSpec => []NoCycle` | `DpeValidatorProofs` |
| `RestoredNormalTreeCorrect` | `RestoredSpec => []OneNormalTree` | `DpeValidatorProofs` |
| `RestoredDefaultCorrect` | `"SIMULATION" \notin Support => (RestoredSpec => []DefaultIsAlone)` | `DpeValidatorProofs` |
| `OnlyMixingCorrect` | `(Spec \/ RestoredSpec) => []RejectedOnlyForMixing` | `DpeValidatorProofs` |
| `ValidatorCorrect` | `"SIMULATION" \notin Support => (Spec \/ RestoredSpec => []ValidatorAccepts)` | `DpeValidatorProofs` |
| `DigestCorrect` | `Spec => []DigestIsOfTheLineage` | `KeySessionProofs` |
| `SignaturesCorrect` | `Spec => []SignaturesMatchCertificates` | `KeySessionProofs` |
| `ExportHandleCorrect` | `Spec => []ExportHandleNamesItsKey` | `KeySessionProofs` |
| `ExportedOnceCorrect` | `Spec => []ExportedOnce` | `KeySessionProofs` |
| `WriterTypeCorrect` | `Spec => []TypeOK` | `CertWriterProofs` |
| `SizesReachTheEndCorrect` | `Spec => []SizesReachTheEnd` | `CertWriterProofs` |
| `SignedRangesAreFinalCorrect` | `Spec => []SignedRangesAreFinal` | `CertWriterProofs` |
| `OutputIsCompleteCorrect` | `Spec => []OutputIsComplete` | `CertWriterProofs` |
| `SkipsAreWideCorrect` | `Spec => []SkipsAreWide` | `CertWriterProofs` |
| `ExactSizesCorrect` | `Spec => []SizesAreExactForEqualSvns` | `CertWriterProofs` |
| `ToldHandleCorrect` | `Spec => []ToldHandleIsCurrent` | `SimulatorProofs` |
| `SocketCorrect` | `Spec => []SocketIsServed` | `SimulatorProofs` |
| `AnswersCorrect` | `Spec => []AnswersAreUnderstood` | `SimulatorProofs` |

**Assumptions.** There are between 1 and 64 slots (`SlotsAssumption`: `children`
is a `u64`, and 255 marks a root); locality 0 and input type 0, which
`Context::destroy` writes, are values of their types (`ResetValuesAssumption`); all zeros and
all ones differ (`HandlesAssumption`); the feature and flag sets are made of the
flags of the code (`SupportAssumption`, `InputsAssumption`); the bounds are
natural numbers and the switches of the environment are Booleans
(`BoundsAssumption`, `EnvironmentAssumption`). For `KeySession`: chunks are not
empty and lengths are natural numbers (`ChunkAssumption`), so is the number of
slots (`SlotsAssumption`), and a lineage has a root (`LineageAssumption`). Which
keys are valid is left open. For `CertWriter`, the requests are of the form
`Request`, whose bounds are those of the code's buffers (48 bytes of label, 128 of
a name, 20 of a serial number), and a lineage has at most `MAX_HANDLES` = 64
contexts (`RequestsAssumption`), which `context.rs:56` asserts at compile time;
the buffer may have any size. For `Simulator`, processes are numbered
(`InstancesAssumption`), so that one can be before another, a build is for one of the
three profiles (`BuildsAssumption`) and has at least one slot (`HandlesAssumption` of
`CommandCodec`). Nothing is assumed about which
failures occur: the proofs cover every setting of the switches.

**The shape of a step.** There are many actions, but `StepShape` shows that each
step changes the array in one of five ways: handles and measurements of active
contexts change (`Relabelled`), a root takes a free slot (`RootAdded`), a child
takes a free slot and is linked to an active parent (`ChildAdded`), a subtree
with its lone retired ancestors is cleared (`SubtreeDestroyed`), or an export
retires or rehandles its parent (`ParentReleased`). The other theorems argue by
cases on these five, after `TypeCorrect`.

**The strengthening.** Most of the invariants are not inductive alone. What they lack is
`LinksAgree`: that a context's parent is live and lists it as a child, and the
converse. It is inductive together with `TypeOK`, and everything else rests on it:

* `NoCycle` needs it to know that a new child has no descendants yet, and that
  a cleared slot leaves no link behind.
* `RetiredIsNeeded` needs it for `DestroyContext`. The code walks up from the
  destroyed context as long as it meets a retired parent with one child.
  `LastRetiredAncestor` shows that what the walk visits is a single path that
  stops below a context it must keep, so a survivor loses its only child only
  if it is active (`RetiredSurvivorKeepsChild`).
* `PermissionsInherited`, `InputTypeNamesChild` and `OneNormalTree` compare a
  context with its parent or siblings. `Survivors` says that every live context
  after a step is an old one in its place, a new root, or a new child of an
  active context, and `ParentsAreOld` that a slot which is used again is nobody's
  parent. Both come from `LinksAgree`.

**Handles.** `StepHandles` does for handles what `StepShape` does for the
forest: they are rolled, made default, rotated away from default, or given to a
new root or child. `HandlesUnique` follows if a draw differs from what the
command has already drawn. `DefaultIsAlone` needs `NoneBeforeInitialized` in
addition: nothing is active before the first initialisation, which gives out a
default handle without looking at its neighbours. Both theorems have a
condition: `~RNG_MAY_REPEAT` says that a command does not draw the same bytes
twice, and the run `doc_default_mixed` shows that the other cannot be dropped.

**Commands.** The action properties relate the response to the change of the
state, so the five shapes are not enough. `StepOutcome` says how each command
that changes something ends: which context was named (`Found`), what the array
became, which handles were drawn and from what, and what the caller was told,
unless its buffer was too short (`Told`). There are nine such endings besides a
command that changes nothing. For each a lemma (`ChildMadeSays`,
`RehandledSays`, ...) lists what it means for a context and its handle, and the
theorems are by cases on them:

* `HandleIsOneTimeUse` needs `HandlesUnique`: the context that had the handle is
  the named one, and every ending gives that one a new handle, retires it or
  clears it.
* `MeasurementsAreExtended` needs `LinksAgree` for `UpdateContextMeasurement`,
  whose child has the named context for parent.
* `OthersAreUntouched` needs `NoCycle` and `LinksAgree` for what is destroyed: a
  descendant of the named context has it in its lineage
  (`DescendantHasAncestor`), and a retired ancestor is not active.
* `ExportIsPermitted` carries the permission and the type of the named context
  up its lineage with `PermissionsInherited` and `OneNormalTree`; `Lineage` is a
  least set (`LineageIsLeast`), so it is enough that the contexts that permit
  exporting and are Normal are closed under parents.
* `ReturnedHandlesResolve` needs `HandlesUnique`, and `DefaultIsAlone` for the
  default handle. The parent handle of a recursive derivation is excepted: it is the
  default handle whatever context was named, and would refute the property.
* `FailedKeyUseKeepsHandle` follows from what `SignRejected`, `CertifyKeyRejected`
  and the path actions change. The one failure after a commit is the header of
  CertifyKey (`HeaderRefused`), which has changed one handle and nothing else; with
  `BUFFER_MAY_REFUSE` false a failed key use changes nothing.

**The refinement.** `RefinementCorrect` maps each ending to an action of
`ContextForest` or to a stutter. Where the two speak of the tree in different
words the lemmas translate: what `DestroyContext` clears is the subtree of the
destroyed node (`SubtreeIsDescendants`) and, above it, what withers
(`ToDestroyWithers`), the nodes that no handle reaches and whose children all go.

**Accepted arrays.** A step preserves the invariants whatever state they came
from, so the theorems about `RestoredSpec` need only that acceptance implies
them. For `LinksAgree` that is `check_children_and_parent`. For `NoCycle` it is
the search: a set of contexts whose parents are all in it contains no root,
no search that starts outside enters it (its complement is closed under
children), and so the validator would have found one of its members unseen.
That a Normal tree comes with `has_initialized`, of which the validator only
checks active contexts, is a matter of counting: in a finite forest some member
of every set has no child in the set (`SomeHasNoChild`), so some Normal context
is not retired.

`ForestInv` collects what acceptance implies: links, cycles, types, children of
retired contexts, and the fields of each slot (`SlotsOK`). It is inductive, a
fresh instance has it too, and `ForestIsAccepted` goes back: it implies every
check of the validator but that of default contexts. Hence `OnlyMixingCorrect`,
and with `DefaultIsAlone` `ValidatorCorrect`. The condition on simulation support
is needed, as `doc_default_mixed` shows. For a restored instance nothing is said
of the handles of retired contexts or of permissions, which the validator does
not check.

**Keys.** The properties of `KeySession` speak of what has been returned, and
alone say nothing of a command in progress. The inductive invariant `IInv` adds
that: what the hasher holds at each call (`HashOK`), that the digest, the CDI and
the keys in hand are by then those of the command's own lineage (`KeyOK`), that
slot *i* has handle *i* and no two slots one CDI (`SlotsOK`), and that a slot the
command has taken is its own and named by nothing returned so far (`PendingOK`).
The loop over the chain is the step `Reference(nodes, a) \o ChainBytes(a, b) =
Reference(nodes, b)` (`ReferenceGrows`), which rests on associativity of
concatenation; a command that begins needs nothing of it, since `initialize` forgets
what a failed command left there.

**The certificate writer.** The properties of `CertWriter` are about the log of
everything written; the argument is about a chain. `Sound` says that the writes
and the length fields still skipped follow one another without overlap or gap
from the start of the buffer to where the writer is, so that every end of one is
a beginning of another (`Boundaries`), that each length filled in reaches to its
end, and that each signed range lies between two boundaries, with no skip pending
in it and no write into it since. It is kept by the four things a writer does to the
buffer: write, skip, fill in the last skip, and sign up to where it is
(`WriteSound`, `SkipSound`, `CloseSound`, `SignSound`). `NoGaps` recovers `Fill`
from it: between two boundaries without a pending skip the writes leave no gap.

`WriterInv` adds where the code is (`At`). Before each stretch the position of
the writer and its stack of skips are known up to the bytes counted so far: six
skips and 64 bytes in front of the CSR in a CMS message, none in front of a
certificate. A call of `backtrack_and_encode_size` then closes skips from the top
of the stack, and its sizes are right if each reaches from its skip to the
position (`Measured`). They take the three bytes they were left because every
size is between 256 and 65535: `PayloadTailEncoded` and `ExactSignerInfo` bound
what is written, from below by the public key and the extensions, from above by
64 TCB infos of at most 256 bytes each.

The lemmas of `CertEncodingProofs` go through the encoders one by one. Each is
exact, that is, it writes as many bytes as its `get_*_size` function says,
except for the MultiTcbInfo, which needs `SameWidths`, the hypothesis of
`SizesAreExactForEqualSvns`; the run `doc_tcb_info_size` shows that it is
needed. Two loops are recursive functions in the model, that over the contexts
of a lineage (`TcbInfosRecursion`) and that over the sizes of a backtrack
(`Turns`). What they compute is proved from the existence of such a function
and by induction on the turns (`UpTo`, from well-foundedness of the naturals,
for a set in place of a predicate).

**The simulator.** `IInv` says which states the two threads of a process are in
together (`ThreadsOK`), that a process begins only when each one before it has
ended or is on its way out (`TurnsOK`), whose the socket is (`SocketOK`), and that
between the commit of a command and the write of its response the current handle
is in the response, and at any other time has been told (`HandOverOK`), in every
process but those in which UpdateContextMeasurement lost it (`lost`). The exception
is needed: without it a failed second draw refutes `ToldHandleIsCurrent`, the same
loss as in `doc_failed_update` seen from the socket. What the theorem shows is that
no other handle is lost: no response is given up while its context lives. A
predecessor whose accept failed may delete the socket a second time, hence the
exception for `broken` in both the invariant and the property.

`AnswersCorrect` adds `AnswersOK`: what a process has computed, and what a client
has been sent, is an answer to a command, cut to the length `as_bytes_partial`
computes for its type. That a client reads it back in full is a fact about the
structures of `CommandCodec`: where the fields begin is the recursive function of
`Offset`, which exists because no structure has more than five fields
(`OffsetOfNext`); offsets grow (`OffsetsAreOrdered`), and a certificate is the last
field of its structure and fits it (`CertificateIsLast`), so what is cut off is
only the unused end of the certificate (`FieldsAreRead`). The two tables of types
agree on every command (`TablesAgree`), and an error shares its code with no other,
two internal errors aside (`ErrorIsTold`).

**Only model-checked.** The prover does not reach liveness under fairness (`EveryCommandEnds`,
`EveryRequestEnds`), `ENABLED`, or general induction over data: that the loops of
the code compute the least sets `Reachable` defines is by definition in the model,
which has no recursive operator. The documented properties that runs refute are
not theorems.

## 6. Not modelled

* **Tags and byte values** of certificates: only lengths and positions are
  represented, so a wrong tag or OID of the right length would go unnoticed.
  `dice-asn1` only has data definitions for them.
* **Field values** of commands and responses other than those that decide a
  layout: `DpeInstance` starts from a parsed command. The conversions between
  the command types of the profiles are left out for the same reason.
* **The verification client** beyond its simulator transport, its tests, the
  tools, `xtask` and the fuzz targets: they drive the instance and promise
  nothing about it; what they assert of it is in section 4.
* **Partial reads** of a socket: `handle_request` reads once, and requests are
  shorter than its buffer and written at once.
* **Cryptography**: uninterpreted; measurements are hashed without collisions
  and a draw is a choice.

## 7. Plan

1. `PermissionsInherited` and `InputTypeNamesChild` for restored instances hold
   only of what is derived afterwards; they could be stated for that.
2. The remaining profiles in `server`.
3. Draws that repeat within a command: what is lost then, beyond unique handles.
