-------------------------- MODULE BundleSignature --------------------------
(***************************************************************************)
(* What the signature of a NotaryBundle (common/src/lib.rs) covers.        *)
(*                                                                         *)
(* Fields of fixed size are one byte each, and a length is one byte too,   *)
(* so that a byte of a name can be mistaken for a length; a length and a   *)
(* count keep the width they are written with.  A signature is the pair of *)
(* its key and the bytes it was made of.                                   *)
(***************************************************************************)
EXTENDS Naturals, Sequences, SequencesExt

CONSTANTS
  Versions,   \* versions sign_with_version is called with
  PubKeys,    \* public keys a bundle may name, one byte each
  OwnKeys,    \* those of them whose presenter can sign with them
  Names,      \* session ids and server names: sequences of bytes
  Logs,       \* record logs: sequences of [op, seq, aad, commit_hash]
  LenLimit,   \* 2^16: a length is written "as u16"
  CountLimit  \* 2^32: the record count is written "as u32"

LEGACY == 0
BINDING == 1

ASSUME BundleAssumption ==
  /\ Versions \subseteq {LEGACY, BINDING} /\ PubKeys \subseteq Nat /\ OwnKeys \subseteq PubKeys
  /\ \A n \in Names : n \in Seq(Nat)
  /\ \A l \in Logs : l \in Seq([op : Nat, seq : Nat, aad : Seq(Nat), commit_hash : Nat])
  /\ LenLimit \in Nat \ {0} /\ CountLimit \in Nat \ {0}

VARIABLES
  stage,    \* new | signed | checked
  signed,   \* the bundle as it left the notary
  bundle,   \* the bundle as it is presented
  verdict   \* what NotaryBundle::verify says of it: none | ok | fail

bundleVars == <<stage, signed, bundle, verdict>>

Time == 6
Keys == << 7, 8, 7, 9 >>  \* k_n_tx, iv_tx, k_n_rx, iv_rx

NoBundle == [content |-> "none", signature |-> "none"]

\* handshake_transcript_hash and server_epk; the other fields of a SessionBinding
\* are signed alike and read by nobody.
Binding == [transcript : {1, 2}, epk : {1, 2}]

\* The fields the signature is about.
Content == [version : {LEGACY, BINDING}, notary_pubkey : PubKeys, session_id : Names, server_name : Names,
            records : Logs, binding : Binding]

\* Every length of the bundle can be written down.
Fits(b) ==
  /\ Len(b.session_id) < LenLimit /\ Len(b.server_name) < LenLimit
  /\ Len(b.records) < CountLimit
  /\ \A i \in DOMAIN b.records : Len(b.records[i].aad) < LenLimit

\* What the notary may be asked to sign: names and additional data reach it behind
\* two bytes of length, so they fit; that no session has 2^32 records is assumed.
Signable == { c \in Content : c.version \in Versions /\ Fits(c) }

-----------------------------------------------------------------------------
(* The bytes that are signed.                                              *)

\* What does not fit the width loses its upper bits.
Prefixed(bytes) == << Len(bytes) % LenLimit >> \o bytes

RecordBytes(r) == << r.op, r.seq >> \o Prefixed(r.aad) \o << r.commit_hash >>

\* legacy_signing_bytes_pre_binding.
LegacyBytes(b) ==
  << b.notary_pubkey, Time >> \o Prefixed(b.session_id) \o Prefixed(b.server_name)
  \o << Len(b.records) % CountLimit >> \o FlattenSeq([i \in DOMAIN b.records |-> RecordBytes(b.records[i])])
  \o Keys

\* Mutant: the binding is left out of the signed bytes.
CanonicalBytesUnbound(b) == << b.version >> \o LegacyBytes(b)

\* canonical_signing_bytes: a version in front, the binding behind.
CanonicalBytes(b) ==
  << b.version >> \o LegacyBytes(b)
  \o IF b.version >= BINDING THEN << b.binding.epk, b.binding.transcript >> ELSE << >>

Signature(key, bytes) == [key |-> key, over |-> bytes]

\* Mutant: off by one in the version the binding begins with.
VerifiedBytesAboveBinding(b) == IF b.version > BINDING THEN CanonicalBytes(b) ELSE LegacyBytes(b)

\* The version of the bundle picks the bytes verify recomputes.
VerifiedBytes(b) == IF b.version >= BINDING THEN CanonicalBytes(b) ELSE LegacyBytes(b)

\* verify takes the key from the bundle itself.
Verifies(b, signature) == signature = Signature(b.notary_pubkey, VerifiedBytes(b))

-----------------------------------------------------------------------------
BundleInit ==
  /\ stage = "new" /\ verdict = "none"
  /\ signed = NoBundle /\ bundle = NoBundle

\* sign_with_version signs the canonical bytes whatever the version, and names the
\* key it signs under.
SignUnder(key) ==
  /\ stage = "new" /\ stage' = "signed"
  /\ \E c \in Signable :
       /\ c.notary_pubkey = key
       /\ signed' = [content |-> c, signature |-> Signature(key, CanonicalBytes(c))]
  /\ UNCHANGED <<bundle, verdict>>

\* The signatures a bundle can be presented with: the notary's, of which there is
\* one, or the presenter's under a key of his own.
Presentable(c) == { signed.signature } \cup { Signature(k, VerifiedBytes(c)) : k \in OwnKeys }

\* The bundle reaches its reader as it was signed or under any other fields, of any
\* length: it is deserialized with lengths of eight bytes.  No reader has a key to
\* compare notary_pubkey with.
Check ==
  /\ stage = "signed" /\ stage' = "checked"
  /\ \E c \in Content : \E s \in Presentable(c) :
       /\ bundle' = [content |-> c, signature |-> s]
       /\ verdict' = IF Verifies(c, s) THEN "ok" ELSE "fail"
  /\ UNCHANGED signed

-----------------------------------------------------------------------------
(* Properties.                                                             *)

OwnBundle == bundle.content.notary_pubkey \in OwnKeys

\* What verifies under a key that is not its presenter's is what the notary signed:
\* no other names, log, binding or version whose lengths can be written down has the
\* same signing bytes (canonical_signing_bytes, legacy_signing_bytes_pre_binding).
OnlySignedVerifies ==
  stage = "checked" /\ verdict = "ok" /\ ~OwnBundle /\ Fits(bundle.content) =>
    bundle.content = signed.content

\* A bundle that arrives as sign_with_version made it passes verify.
SignedVerifies == stage = "checked" /\ bundle = signed => verdict = "ok"

\* common/src/lib.rs line 108, "Pre-binding (v0) signing bytes - no version
\* prefix": what sign_with_version signs is what verify checks, for v0 too.
LegacyVerifies ==
  stage = "checked" /\ bundle = signed /\ signed.content.version = LEGACY => verdict = "ok"

\* common/src/lib.rs line 61, "Canonical byte encoding for signing": one content per
\* string of bytes, also where a length of the presented bundle does not fit.
AnyLengthVerifies ==
  stage = "checked" /\ verdict = "ok" /\ ~OwnBundle => bundle.content = signed.content

-----------------------------------------------------------------------------
(* What is always known of the two bundles, whoever signs.                 *)

SignedOnce ==
  /\ stage \in {"new", "signed", "checked"}
  /\ stage = "new" => signed = NoBundle
  /\ stage # "new" => \E c \in Signable :
       signed = [content |-> c, signature |-> Signature(c.notary_pubkey, CanonicalBytes(c))]

CheckedAsPresented ==
  stage = "checked" => \E c \in Content : \E s \in Presentable(c) :
    /\ bundle = [content |-> c, signature |-> s]
    /\ verdict = IF Verifies(c, s) THEN "ok" ELSE "fail"

BundleInv == SignedOnce /\ CheckedAsPresented

=============================================================================
