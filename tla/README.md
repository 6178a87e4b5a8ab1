# A TLA+ model of sp1-demo

sp1-demo proves a statement about a JSON field fetched over HTTPS. Either the
host proves its own TLS session inside the SP1 zkVM (*self-prove*), or a second
party, the *notary*, holds half of every key, takes part in each record's
encryption, and signs a log of the records (*notarized session*). The notary
half is a concurrent, two-party, hand-sequenced program over one TCP channel;
it is what most of this project models. Cryptography is symbolic throughout:
the model asks who sends what, when, with which share, counter and message, and
not whether AES is secure.

All source paths below are under `src/`.

## 1. Inventory

| part | source | state | operations | hard part |
|---|---|---|---|---|
| record bridge | `notary/src/tls.rs` (frames, `encrypt_one`, `decrypt_one`, `client_finish_session`, `run_notary_worker_inner`) | host: sequence number per direction, current record; notary: header, session log, optional signing key | header, two-party GCM run, commit; OP_FINISH and its signed bundle | log and session must agree although either side may die or reject between two frames |
| client worker | `notary/src/tls.rs` (`ClientWorker`, `TwoPartyEncrypter`, `TwoPartyDecrypter`) | a thread that owns the channel; a `sync_channel(1)` of jobs; one response channel per call | encrypt, decrypt, shutdown, drop | three threads and the peer; bounded channel; errors that do not end the thread |
| session setup | `notary/src/bin/notary_proxy.rs` `handle`, `notary_demo.rs`, `ecdh.rs`, `handshake.rs` | what is left of each side's script, shares, masks | mode byte, ECDH flag, masks, IVs, handshake capture, OP_2PC_HKDF | the two sides' sequences of reads and writes are written twice, per mode and flag |
| notarized session | `notary/src/bin/notary_demo.rs`, `guest/src/main.rs` `run_notary_path` | captured bytes, sequence numbers, record log, binding | take keys from rustls, drain, request, record loop, export, guest's walk | reads end anywhere; sequence numbers change hands; three programs must agree on one stream |
| signing key file | `notary/src/bin/notary_proxy.rs` `load_or_create_key`, `main` | a file, one key per process | exists, read, create, write, print, bind, sign | two first runs at once; a stop between two file operations |
| two-party AES-GCM | `notary/src/aes.rs`, `ghash.rs`, `garble.rs` | key shares, keystream shares, GHASH input shares | seal, open | share algebra, partial blocks, order of reads, writes and runs |
| two-party HKDF | `notary/src/hkdf.rs` | shares of each secret | ten HMACs of four compression runs per party | two hand-written schedules that must run in step |
| handshake transcript | `notary/src/transcript.rs`, `handshake.rs`, `guest/src/main.rs` | a captured byte stream | cut records, decrypt, cut messages, hash, find certificates | record and message boundaries are independent; captures end anywhere |
| bundle signature | `common/src/lib.rs`, `notary/src/bin/notary_verify.rs` | a bundle | canonical bytes, sign, verify | concatenated fields, two versions, two readers |
| guest self-prove path | `guest/src/main.rs` | plaintext put together from records | decrypt records in order, cut the body out, undo the chunks, commit the claim | records, chunks, characters and lines are cut independently; the host chooses what the guest sees |
| WRK17 sessions | `notary/src/garble.rs`, `notary/deps/swanky-authenticated-garbling` | OT extension and Delta per session | one masked run | input regions laid out twice; the garbling itself is cryptographic |
| OT-blinded ECDH | `notary/src/ecdh.rs` | one share each | point addition through OTs | cryptographic |
| circuits and tools | `notary/src/ghash.rs` (circuits), `bin/gen_sha256_compress.rs`, `circuits.rs`, `bin/ecdh_2pc_sanity.rs` | wires | build and evaluate the SHA-256 compression and the GHASH chain | gates wired by hand, checked on one vector |
| host prover | `host/src` | none | capture, call the SDK | — |

How they interact: `notary_demo` opens TCP to `notary_proxy`, the two run session
setup, then the demo (modes 0/1: keys handed over by rustls and split; mode 2:
keys derived jointly by the HKDF schedule over the ECDH shares and the handshake
transcript) drives the record bridge record by record; every record is one
two-party GCM run. OP_FINISH returns the bundle, which `notary_verify` and the
guest check. `ClientWorker` offers the same bridge to rustls through threads.

What makes each part correct, and what in it a test would hardly reach, is the
hazard list of `PROJECT.json`, each at its line with the properties for it.

## 2. Modules and plan

Order of the plan, most important behaviour first; all of it exists. The modules
whose names end in `Proof` hold the theorems (section 6).

1. `AttestLog`: what a notarised session promises (records are added, at most
   once the whole list is attested). `RecordBridge`: the detailed protocol,
   shown to implement it. `MCRecordBridge` gives it constants.
   `RecordBridgeProof`.
2. `ClientWorker` EXTENDS `RecordBridge`: the same channel and notary, with the
   worker thread and its callers as the host. `MCClientWorker`, `ClientWorkerProof`.
3. `SessionSetup`. 4. `NotarizedWitness`, `NotarizedWitnessProof`. 5. `SigningKeyFile`.
6. `GcmRecord` (values), `GcmRecordProof`, and `GcmOrder` (order of one record).
7. `HkdfShares`.
8. `HandshakeFlight`, and `BundleReaders`, which EXTENDS it: the binding the notary
   signs over the capture and the two programs that check a bundle against one.
   `HandshakeFlightProof`.
9. `BundleSignature` (what a signature covers) and
   `NotaryIdentity`, which EXTENDS it and takes the processes that sign from
   `SigningKeyFile` by `INSTANCE ... WITH`. `MCNotaryIdentity`, `SigningBytesProof`
   (what the bytes tell), `NotaryIdentityProof`.
10. `GuestResponse`: from captured records to the public claim. `MCGuestResponse`,
   `GuestResponseProof`.
11. `CompressCircuit` and `GhashCircuit` (pure definitions, each with the standard
    it implements as a reference) and `MaskedCircuits`, the two parties' runs of
    them. `MCMaskedCircuits`.

Left for later work: (a) proofs about `SessionSetup` (`NoMisread`) and the chaining of
`MaskedCircuits`;
(b) an abstract specification of the key file (one key, forever), refined by
`NotaryIdentity`; (c) the once-per-session bootstrap of the garbling sessions.

### State and actions against the code

**RecordBridge.** `hpc`, `cur`, `nextSeq`, `done`, `held` are the host inside
`encrypt_one` / `decrypt_one` / `client_finish_session`; `npc`, `hdr`,
`records`, `bundle`, `keyed` are the locals of `run_notary_worker_inner`
(`keyed` is whether `signing_key` is `Some`). `toN`, `toC` are the two
directions of the swanky `Channel`, which buffers writes and flushes them before
a read, so a direction is a FIFO. `StartRecord` writes the header, `GcmRun` is
the joint two-party run, `ReadTag` compares the tag (decrypt only), `SendCommit`
writes the commit and advances the counter; `ReadHeader`, `ReadCommit`, `Finish`
and `NotaryEof` are the arms and the error exits of the notary's loop.
`HostCrash` may lose any suffix of the bytes under way.

**ClientWorker.** `call[d]` is a thread inside `TwoPartyEncrypter::encrypt` or
`TwoPartyDecrypter::decrypt` (`sending` on the bounded channel, `waiting` for
the response); `jobs` is the channel, `wpc`/`serving` the thread, `owner` the
`ClientWorker` value (`shutdown` or drop).

**SessionSetup.** A party's code is a straight line of sends, reads, local and
joint steps; `hops` and `nops` are what is left of it, `HostScript`,
`HostEcdh`, `NotaryScript`, `NotaryEcdh` the lines of the code in order. The
notary's script unfolds when it has read the mode and the flag, as its `match`
does. `hmask`, `nmask`, `split` tell a drawn key mask from a zeroed one.

**NotarizedWitness.** `wire` holds half records, so that a read may end inside
one; a record under the application key opens only under its own number.
`Drain` is the one `read_tls` after the handshake with all that rustls opens,
`ReadRecord`/`ReadRejected`/`ReadOutOfStep`/`ReadEnds` the exits of one turn of
the record loop, `GuestAccepts` the checks of `run_notary_path`. `Kept` is what the
properties take for the response: the records of one kind among the first ones.

**SigningKeyFile.** One action per file operation of `load_or_create_key`;
`fs::write` is two (create, fill). `Stop` may come anywhere.

**GcmRecord.** A byte is the set of symbols it is the XOR of; XOR is symmetric
difference, so equality of sets is equality for every key and mask. **GcmOrder**
lists the runs, writes and reads of both halves of one record.

**HkdfShares.** A word is a set of atoms likewise; `NotarySchedule` and
`ClientSchedule` are the two functions' calls in order, an HMAC is four
compression runs (`NotaryEnters`, `CompressRun`, `NotaryTakes`, ...), `Mask` is
the notary's fresh share of a run.

**HandshakeFlight.** A handshake message is three pieces: first header bytes,
rest of the header, body; the pieces are numbered, `cut` is how many are on the
wire, and a record of the flight carries those from `what.from + 1` to `what.to`,
so that records cut the flight at any piece. `Under(key)` are the positions in
`inbound` of the records under one key. `Reading` is the loop over the captured
records that both programs have, `Hashed` one turn of it, `Behind` the records the
guest leaves for the application keys. `NotaryReads` and `GuestReads` are the two
readers on any captured prefix.

After a HelloRetryRequest there are two ClientHellos and two plain server
records; both readers take the first of each direction (`Hellos`, `FirstHello`).

**BundleReaders.** `NotarySigns` is `verify_handshake_capture` with the binding it
makes (`signed`): the hash of the capture and the server's key. `ToolAccepts` is
`notary_verify` behind its deserialization, `GuestAcceptsBundle` is `run_notary_path` up
to the keys. Each program has its own `parse_server_hello_key_share`: `ToolEpk`
(`ecdh.rs`) goes through the whole records, passes over those without a key and
ignores what is left over; `GuestEpk` (`guest/src/main.rs`) parses every record,
panics on half a one, and looks only into the first handshake record. A hash of a
capture stands for the capture. Readers have no state: `ReadersAgree` quantifies
over what they are shown, in every state. That is the notary's bundle (`Notarized`) or any
other (`Foreign`), with the capture the notary read or the one there is now, with
both files or without (`given`), and for the host of the bundle or another (`named`).

**BundleSignature.** Byte strings of fields. A length or a count is written with its
width (`Prefixed`, `RecordBytes`, `LegacyBytes` take it modulo `LenLimit` and `CountLimit`,
which stand for 2^16 and 2^32), so that what does not fit loses its upper bits. The
notary signs what fits (`Signable`); the bundle presented may differ from the signed
one in every field, with lengths that fit or not, and carries the notary's
signature or one of the presenter's own (`Presentable`, `OwnKeys`): `verify` takes the
key from the bundle, and neither reader has another to compare it with
(`notary_verify.rs:99`, `guest/src/main.rs:510`; `PROD.md:153` says so).
So what the signature shows is said of keys that are not the presenter's.

**NotaryIdentity** adds who signs: `Sign` is a session of a serving process of
`SigningKeyFile` that ends with OP_FINISH and signs under the key that process holds;
processes go on being killed and started, beside each other, between the signing
and the checking. `raced` is history: two processes have been between finding no key
file and creating it at once. A reader sees the bundle only; `ReaderChecks` lets it
read once the processes have ended, which leaves out no bundle.

**GuestResponse.** `answer` is what the server says, in tokens (a digit, a brace,
a line break's two bytes, the two bytes of one character). `SendData` cuts it into
records anywhere; `HandOver` is the host's choice of what the guest sees: a
prefix, all but one, or two records exchanged. `OpenNext` is one turn of the
decrypting loop of either path, `Claim` everything behind it: UTF-8, `RawBody`
(`split("\r\n\r\n").nth(1)`), `Chunks`/`Unchunked` (`unchunk`), JSON, the
threshold. `Decoded` gives what `unchunk` returns from each place on: it ends there
(`Ends`), or takes the data of one chunk (`Data`) and goes on behind it (`Following`).

**MaskedCircuits.** `mine.n`, `mine.c` are the two inputs of one run: shares of the
chaining value (or H), shares of the block(s), mask or zeros. `Combine` is the
wrapper's XOR of the two regions, `Extend`, `OneRound`, `Finish` and `OneBlock` the
gates in the order they are evaluated, `Output` the masked result, of which each
party keeps a share; the shares of one compression are the chaining value of the
next. **CompressCircuit** is `build_compression` gate by gate, **GhashCircuit** the
unrolled multiplier; a wire stands for the bit it carries. `Fips180` and `GhashOf`
are written from the standards, over numbers and polynomials, and share nothing
with the circuits.

## 3. Runs

Passing runs:

| run | shows | bounds and why they are enough |
|---|---|---|
| `record_bridge` | signed log = host's session; rejected records stay out; nonces are fresh; refinement of `AttestLog`; nobody is left waiting | 3 records, one good and one forged body: two records of one direction and one of the other, any of them rejected, each frame lost or answered by a dead peer |
| `client_worker` | a call fails only for its own reason or a broken session; while tags verify the record loops keep step, and calls, shutdown and drop return | 4 calls of one good and one forged body, one slot: slot full, worker busy and a third party waiting |
| `session_setup` | no misread frame, verification before keys, notary masks used to split, handler released, modes 0 and 1 end | all modes and flags, deaths anywhere; the scripts are finite |
| `notarized_witness` | a session fails only after a cut drain or uncounted tickets; body is a prefix, complete at close_notify; every session ends | 2 tickets and 2 response records, placed before, inside and after the drain |
| `gcm_record` | shares add up to GCM; the tag accepts exactly the sealed record; a rejected record yields nothing | blocks of 2 bytes, payloads of 0 to 5 bytes (none, partial, full, two and a half blocks), 0 to 3 bytes of AAD, two sequence numbers |
| `hkdf_shares` | the shares of every secret are right and tell neither party the secret; only a stopped peer makes it fail; it ends | no bound: the schedule is finite |
| `handshake_flight` (module `BundleReaders`) | both readers hash what the server sent or refuse; a flight cut between messages is read; what the guest proves from `notary_verify` accepts, and of the notary's own bundle both accept the capture it was made of only | up to 3 records for the flight, 2 after it, with and without a client certificate request and a HelloRetryRequest, the capture ending anywhere |
| `notary_identity` | under a key that is not the presenter's a bundle whose lengths fit verifies exactly if it is the one signed; that key is the only one ever printed, and a serving process can be restarted, unless two processes were creating the key file at once | 2 processes, alike (symmetry), and 3 starts between them (before, at and after the signing, or beside each other); one key of the presenter's; names over bytes that can be read as lengths, of lengths below and above the limit (2 for lengths and count), logs of no and one record |
| `guest_response` | the plaintext is the beginning of what the server sent, and no claim is made from a part of the object, whatever the host leaves out or exchanges; a complete answer is refused only for the two reasons named in the property | three objects (a two-byte character, a line break behind, a blank line inside), up to 2 chunks cut anywhere, one with an extension, up to 3 records cut anywhere, a ticket and an alert; both paths |
| `masked_circuits` | the shares combine to SHA-256 compression and to GHASH | words of 16 bits with all 64 rounds and two chained blocks: rotations by more than 15 are taken modulo the width, no operand vanishes (the largest shift is by 10), and carries run through whole words; GHASH in GF(2^4), all H and all first blocks; two masks each for shares and output |

Violation runs, each a disagreement of the code with its documentation or its
tests, quoted in `PROJECT.json` `findings`:

| run | what TLC finds |
|---|---|
| `gcm_order` | the client reads a keystream share before it enters the run after which the notary writes it: the first payload block blocks both |
| `gcm_round_trip` | decrypting, both parties add the ciphertext block to their share, so it cancels and the keystream comes out |

`GcmOrder`, `NotaryIdentity`, `GuestResponse`, `MaskedCircuits` and the
`SigningKeyFile` configurations switch the deadlock check off: the model stops when
the record is done (or, in `GcmOrder`, when both halves are stuck, which
`RecordCompletes` reports), when the bundle has been checked, when the guest has
reached its verdict, when the last block has been run, and when the last of
`MaxStarts` starts has ended.

## 4. Further disagreements

These properties say what a document or comment says, and do not hold of the
code. They stay in the modules with a configuration each; TLC's counterexample
is the shortest explanation of the disagreement. Where a weaker statement is
true, a run of section 3 checks that one.

| configuration (module) | property | what happens | what holds instead |
|---|---|---|---|
| `ClientWorkerRejected` (`MCClientWorker`) | `Lockstep` | after a rejected tag (`tls.rs:668`) the worker serves the next job while the notary still waits for the commit; a header is read as a commit | `LockstepWhileVerified` |
| `SetupTwoPc` (`SessionSetup`) | `TwoPcCompletes` | in mode 2 the notary expects a header before its bootstrap (`tls.rs:253`) and the demo starts its own without sending one (`notary_demo.rs:424`): the records are never reached, although `DEMO.md:94` reports the mode complete | `SplitSetupEnds` for modes 0 and 1 |
| `SetupHostMasks` (`SessionSetup`) | `SharesRecombine` | `--legacy-host-xor-masks` splits the keys with zeroed masks (`notary_demo.rs:655`) and draws them afterwards (`:702`) | `NotaryMasksRecombine` |
| `WitnessTwoPcSeq` (`NotarizedWitness`) | `OnlyCutFails` | mode 2 counts from zero (`notary_demo.rs:434`) although rustls may have opened tickets | `FailsOnlyOutOfStep` |
| `WitnessCut` (`NotarizedWitness`) | `CleanHandover` | the one drain read (`notary_demo.rs:629`) may end inside a ticket | `FailsOnlyOutOfStep` |
| `WitnessProvable` (`NotarizedWitness`) | `WitnessProvable` | mode 2's signed transcript hash is taken before the request, the guest (`guest/src/main.rs:525`) hashes everything exported | |
| `KeyRace` (`SigningKeyFile`) | `OneKey` | two first runs (`notary_proxy.rs:59`) draw and print two keys | `ToldKeyUnlessOwn`, `ServedKeyOnDisk`: the two were not creating it at once |
| `KeyTorn` (`SigningKeyFile`) | `FirstRunCreates` | a stop inside `fs::write` (`notary_proxy.rs:70`) leaves an empty file that no later start accepts | `ServedKeyOnDisk` |
| `HkdfPublicIvs` (`HkdfShares`) | `PublicIvs` | the IVs that `hkdf.rs:646` calls public are returned as shares (`:717`) | `SharesRecombine` |
| `FlightCut` (`HandshakeFlight`) | `HonestServerAccepted` | a message continued in the next record stops the guest (`guest/src/main.rs:192`) | `GuestReadsAligned` |
| `BundleLegacy` (`MCNotaryIdentity`) | `LegacyVerifies` | version 0 bundles are signed with the version in front and verified without it (`common/src/lib.rs:192`) | `SignedVerifies` for version 1 |
| `BundleWide` (`MCNotaryIdentity`) | `AnyLengthVerifies` | `canonical_signing_bytes` (`common/src/lib.rs:61`, "Canonical byte encoding for signing") writes a length "as u16" (`:80`) and the count "as u32" (`:84`), while a bundle is deserialized with lengths of eight bytes: one with a longer field can have the bytes of a signed one | `OnlySignedVerifies` for lengths that fit |
| `GuestPadding` (`MCGuestResponse`) | `PaddingIsNoData` | the self-proving path takes the last byte of a record for its type (`guest/src/main.rs:456`); padding behind the type hides it and the data is left out silently | `ClaimFromWholeBody`, `WholeAnswerAccepted` for servers that do not pad; the notarized path strips padding (`:601`) |

## 5. Fairness

Weak fairness only, and only on steps a running program takes by itself:

- `RecordBridge`: the host inside a call and the notary worker. Starting another
  record, finishing and dying are free choices.
- `ClientWorker`: the thread, the peer, a caller inside a call and an owner inside
  `shutdown`; making a call is a choice. A dead peer shows as end of stream.
- `SessionSetup`: each party's next step, and the joint one when both are at it.
- `NotarizedWitness`: the host's loop, whose reads carry a timeout, so that a
  silent server lets it end. Nothing is asked of the server.
- `HkdfShares`, `GcmOrder`: steps that are enabled are taken.

A party that is gone closes its stream; a host that stays connected and silent may
keep a notary for ever, and no property says otherwise.

## 6. Proofs

Each proof module says for every value of the constants what a run shows on a
small instance. The inductive invariants stand at the end of the module they are
about, as conjunctions of named parts, and TLC has checked each of them on the
instance of the run.

**`RecordBridgeProof`**, for every set of bodies, every forged subset and every
`MaxOps`, from `BridgeAssumption` alone:

- `TypeCorrect`: `Spec => []TypeOK`, one step per action.
- `NonceFresh`: `Spec => []NonceNeverReused`. The property is not inductive: it
  must be known that every number in use is below the next one of its
  direction. `NonceInv` adds that.
- `BundleAttests` and `RejectedStaysOut`, from the inductive invariant `IInv`.
  That the signed log is the session needs to be known before there is a bundle:
  the notary's log is a prefix of the host's list, at most one record behind,
  and when it is behind the missing commit is alone in the channel and matches the
  header being served (`LogIsPrefix`, `CommitInFlight`, `HeaderInFlight`); only a
  crashed host is behind without a commit under way, and then no finish is
  under way either (`CaughtUp`, `FinishIsLast`); `HostReplies` and
  `BundleInFlight` do the same for the other direction. One lemma per group of
  actions preserves `IInv`; `Inductive` collects them.
- `Implements`: `Spec => AttestLog!Spec` under `log <- done, attested <- bundle`.
  `SendCommit` is `Complete`, a keyed `Finish` is `Attest`, the rest stutters.

**`ClientWorkerProof`**, for every number of calls and every set of bodies, from
`WorkerAssumption` (which says that `None` is no direction and no body):

- `CallsFailForCause`: `WSpec => []FailsOnlyWhenBroken`. `CallsInv` ties the three
  places a call can be in: a waiting caller has exactly one job, in the queue or
  being served, and what is served is the record the host is at.
- `StepKept`: `WSpec => LockstepWhileVerified`, a statement about whole behaviours:
  as long as no tag is rejected, `StepInv` holds, which says for each position of
  the worker which frames are on the channel and where the notary is. A rejected
  tag is the only step that leaves it, and is excluded by the hypothesis `AllVerify`.

**`SigningBytesProof`** (what the signing bytes tell) and **`NotaryIdentityProof`**
(who signs), for every set of names, logs and keys, all limits, any number of
processes and any number of starts:

- `SignatureTellsContent`: two bundles whose lengths fit (`Fits`) and whose canonical
  bytes are equal are equal. A length that fits is written as it is (`Written`); a concatenation of
  fields of different lengths can then be taken apart from the front
  (`PeelPrefixed`, `PeelLog`, ...). The bytes of a legacy bundle are never those of another,
  so that a signature verifies one such content only. The hypothesis is needed:
  `BundleWide` (section 4).
- `NothingElseVerifies` (`Spec => []OnlySignedVerifies`) and `IntactVerifies`
  (`Spec => []SignedVerifies`) from it and `BundleInv`, which says that every signature a
  bundle can be presented with is the notary's one or under one of `OwnKeys`. A bundle that
  verifies and names no own key therefore carries the notary's
  (`NotOwnIsSigned`). `IntactVerifies` has the hypothesis that no
  version in use is the legacy one: `BundleLegacy` (section 4) shows that it is needed,
  and the notary writes version 1 only.
- `ServedKeyStays`, `OneKeyUnlessRaced` (`Spec => [](~raced => File!OneKey)`) and `OwnOrTold`
  (`Spec => []ToldKeyUnlessOwn`) from `IdentityInv`: unless two processes have been
  creating the file at once, at most one is making it (`Alone`), what is in the file
  follows the processes through every stop (`FileFollowed`), and no key is printed or
  used that is not on disk (`PrintedOnDisk`, `UsedPrinted`). The exception is needed:
  `KeyRace` refutes `OneKey`.

**`NotarizedWitnessProof`**, for every number of tickets and response records and
every place at which the drain may stop:

- `FailsForCause`, `BodyBeginsResponse` and `AlertMeansComplete` from `StreamInv`:
  the records the host has are the first ones the server sent, in order, the rest is
  on the wire in halves (`Captured`, `OnItsWay`), its sequence number is the number
  of records it has unless the drain was cut or tickets were not counted
  (`SeqInStep`), and the body is what is kept of those records (`Assembled`). What is
  kept of a stream's first `i` records is the recursive function `Kept`; the lemmas
  about it are proved by induction over a set of numbers (`CountUp`).

**`GcmRecordProof`**, for every block size, every length of payload and additional
data and every set of sequence numbers:

- `SealsGcm`: `Spec => []IsGcm`. Position `i` is byte `j` of block `k` and no other
  (`PositionBlock`, `BlockPosition`, `ValidBytes`, on quotients and remainders); a mask
  added twice is gone (`MasksCancel`, `BlockSealed`); the two inputs of GHASH add
  up part by part (`TagFolds`), however they are split between the parties.
- `OpensIntact`: `Spec => []OpensExactlyIntact`. The tag determines sequence
  number, additional data and ciphertext (`TagTells`: the lengths come last, and
  fix where the one ends and the other begins).
- `OpensToKeystream`: what an accepted record is decrypted to is the keystream, for
  every record; `gcm_round_trip` is one instance.

**`GuestResponseProof`**, for every set of objects of up to seven bytes
(`ResponseAssumption`) that are UTF-8 and have the field asked for
(`ObjectsAssumption`), any number of chunks and records, and any paths on which the
server pads:

- `PlaintextIsBeginning`: `Spec => []TextIsBeginning`, from `ResponseInv`. The number a
  record is opened under is its place in the server's stream (`SentInOrder`) and all
  that is handed over comes from there (`HandedOver`), so what has been opened is
  the first records in order, and the plaintext their data (`OpenedInOrder`). The
  data of the first `i` records is the recursive function `Joined`, and with what is
  unsent it makes up the answer. That the answer is bytes at all needs the framing
  taken apart (`ChunkTypes`, `FlattenTypes`).
- `ClaimIsWhole`: `Spec => []ClaimFromWholeBody`. The plaintext is a beginning of the
  answer, so `RawBody` is a beginning of the body (`RawBodyLeads`). Where the chunks
  of an answer are written is the function `P` of `ChunkedLayout`; from a beginning of
  them each turn of `unchunk` reads a chunk that is there in full, or ends, or stops
  at a character cut in two (`ReadChunk`), whatever the place it goes on at: at most
  one byte from the end, where nothing is read (`EndsBehind`). What is decoded is
  therefore a beginning of the object or holds a panic (`DecodedIsPart`, by induction
  from the last chunk back), and an object that begins another one is all of it
  (`ObjectWhole`: its closing brace is the last significant byte). Nothing is
  decoded of a plain object, which does not begin with a digit (`PlainUnread`), and
  chunks that are not decoded are no object.
- `WholeIsAccepted`: `Spec => []WholeAnswerAccepted` if the server does not pad on the
  self-proving path, from `ResponseInv` and `AcceptInv`. The last data the server sends
  is in its last record or before the alert (`SentInShape`, `DataEnds`). A host that
  leaves no data out therefore hands over the records in their places, to the end of
  the answer (`HandsOverWhole`, `GivenInPlace`), so none is refused, and the plaintext is
  the answer. That answer is decoded to the object (`WholeDecodes`): the first blank line
  behind the header is the one behind the last chunk (`LastBlank`, `RawBodyEnds`), each
  chunk is read and the next one found (`ReadWhole`, `DecodedIsWhole`), and a part of
  a character is never next to a chunk mark (`ChunkedIsText`). The hypothesis is needed:
  `GuestPadding` (section 4) shows the answer refused without it.

**`HandshakeFlightProof`**, for any number of records the flight is cut into and any
number behind it, with and without a certificate request and a second hello:

- `FlightInvariant`: `Spec => []FlightInv`. The capture is `b` records in the clear,
  `h` records of the flight, each taking up where the last one ended and numbered
  from zero, and the session's records numbered from zero again (`InTheClear`,
  `InFlight`, `InSession`). The steps of the server add to the last part or begin the
  next one (`ClearGrows`, `FlightGrows`, `SessionGrows`); while a reader has read, the
  flight is out and none of its records changes (`ReadersKept`).
- `HashesRight`: what is held behind record `n` is the hellos and the messages that
  have ended by then, or the reading has failed (`ReadRecord`, `ReadTheFlight`); behind
  the flight nothing is added (`ReadBehind`). A record that begins inside a header is
  excluded for the notary, whose decoder takes other bytes for the length there.
- `NotaryReadsHonest`, `GuestReadsHonest`: if every record is read whole, the chain is in
  one of them (`ChainIsFound`, by induction over the records in front of it), the
  records behind Finished are exactly those under the application key
  (`BehindTheFlight`), their count is the one they were sealed with
  (`AppRecordsOpen`), and the fixed positions are right for a flight of four messages
  (`FixedPositions`).
- `ReadersOfOneMind`: `RSpec => []ReadersAgree`. Where the guest's parser finds a key the
  notary's does too (`EpkFound`), so what the guest accepts the tool accepts. That the
  notary's own bundle is accepted with its capture needs more: the notary signs only if
  it has a hash, hence a key share in the *first* hello, and no half record behind
  (`SignedReadable`), and the records before a capture's end never change
  (`FirstRecord`, `ReadersFollow`).

Induction, where a proof needs it, is over the least element of a set of numbers
(`NatLessThanWellFounded`, `WFMin`), as the library's induction theorems take an
operator that the provers cannot instantiate.

Only model-checked:

- all liveness (`ENABLED` is out of the prover's reach);
- `HkdfShares`, which has no constants: the run covers it;
- `SessionSetup`, whose constants are finite sets and whose scripts the run goes
  through whole;
- `MaskedCircuits`: its words are numbers under the operators of `Bitwise`, which
  the provers cannot use.

## 7. What is assumed and what is left out

- `RecordBridge!GcmRun` is a joint step that succeeds. `GcmOrder` shows that at
  this commit the two halves of `aes.rs` block each other at the first payload
  block, and `GcmRecord` that decryption returns the keystream; the tests that
  would show it are ignored by default (`TODO.md`, "18 passed, 14 ignored"). What
  `RecordBridge` and `ClientWorker` show is about the protocol around that run.
  Mode 2 of `NotarizedWitness` likewise begins after the setup that
  `SetupTwoPc` shows not to end.
- Hashes are injective, signatures unforgeable, AES a free symbol, and
  the compression function and GHASH too outside `MaskedCircuits`. The server and rustls are honest; certificate, host name
  and signature checks succeed on an honest server.
- `SessionSetup`: curve arithmetic and the oblivious transfers are one exchange
  that leaves each party a share.
- `SigningKeyFile`: the disk keeps what was written; power failure is left out.
- `HandshakeFlight`: what a decoder makes of a header cut in two depends on the
  data and is a free choice.
- `BundleSignature`: fixed-size fields and lengths are one byte; of the binding
  only the two fields a reader compares are kept. What the notary signs fits: names
  and additional data reach it behind two bytes of length (`notary/src/tls.rs:200`,
  `:391`), and that no session has 2^32 records is assumed. That a key is the notary's
  has to be checked outside these programs: a bundle its presenter signed himself
  passes both readers, and the model says so (`OwnBundle`).
- `NotaryIdentity`: two processes that create the key file at once are left to
  `KeyRace`; its properties say nothing behind that.
- `BundleReaders`: a capture that is shown is the notary's or what it grew into;
  the contents of a ServerHello are whether it has a key share.
- `GuestResponse`: a header is its final blank line; `json_field` is found in every
  object (`ObjectsAssumption`); sizes are one octal digit, so that no chunk is longer than seven bytes.
  A record whose number is not the one counted is refused, as the nonce makes it.
- `MaskedCircuits`: the numbering of wires, the passthrough gates that put the
  outputs last and the circuit file between generator and evaluator are left out;
  `FinalWords` says which words they carry and in which order.
- Not modelled: the guest's own key schedule and certificate checks (one party's
  straight-line assertions over values the models do not have), the garbling
  protocol and ECDH arithmetic (cryptography), the bundled AES circuit (data), the
  SP1 host and the sanity tool (no state).
