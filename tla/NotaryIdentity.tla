--------------------------- MODULE NotaryIdentity ---------------------------
(***************************************************************************)
(* The notary's identity as its verifiers see it: the process that signs a *)
(* bundle (notary/src/bin/notary_proxy.rs) loaded its key from a file or   *)
(* created it, may be killed and started again before and after, beside    *)
(* other processes on the same file; the bundle is presented later to      *)
(* readers that know no key.                                               *)
(***************************************************************************)
EXTENDS BundleSignature

CONSTANTS
  Proc,       \* notary processes sharing one key path and one port
  MaxStarts   \* bound: process starts, each of which may draw a key of its own

ASSUME IdentityAssumption ==
  /\ MaxStarts \in Nat /\ PubKeys = (1..MaxStarts) \cup OwnKeys
  /\ OwnKeys \cap (1..MaxStarts) = {}

VARIABLES
  pc, key, disk, starts,  \* the processes and the key file
  printed,                \* public keys printed for verifiers
  used,                   \* keys a bundle was signed under
  raced                   \* history: two processes have been creating the file at once

fileVars == <<pc, key, disk, starts, printed, used>>
vars == <<bundleVars, fileVars, raced>>

File == INSTANCE SigningKeyFile WITH signed <- used

Init == BundleInit /\ File!Init /\ raced = FALSE

\* Between finding no file and creating one, in two processes.
Racing == \E p, q \in Proc : p # q /\ pc[p] = "create" /\ pc[q] = "create"

\* A session's setup, records and finish are one step here; what a process does
\* before and after it is not.
Sign == \E p \in Proc : File!Sign(p) /\ SignUnder(key[p])

Process == \E p \in Proc :
  \/ File!Start(p) \/ File!Exists(p) \/ File!Read(p) \/ File!Create(p) \/ File!Write(p)
  \/ File!PrintKey(p) \/ File!Bind(p) \/ File!Stop(p)

\* A reader sees the bundle alone, so that it does not matter to it when it reads:
\* here, when all processes have ended.
ReaderChecks == Check /\ \A p \in Proc : pc[p] = "off"

Next ==
  /\ \/ Sign
     \/ stage # "checked" /\ Process /\ UNCHANGED bundleVars
     \/ ReaderChecks /\ UNCHANGED fileVars
  /\ raced' = (raced \/ Racing')

Spec == Init /\ [][Next]_vars

-----------------------------------------------------------------------------
(* Properties.                                                             *)

\* Unless two processes were creating the file at once, a process that serves can be
\* restarted: its key is the one on disk, which no process started beside it and no
\* restart replaces (load_or_create_key).
ServedKeyOnDisk == ~raced => \A p \in Proc : pc[p] \in {"bind", "serve"} => disk = key[p]

\* A bundle that verifies is its presenter's own or the notary's under the one public
\* key that was ever printed, however often its processes were killed and restarted,
\* before the signing or since ("long-term key, created on first run"), and unless
\* two of them were creating the file at once.
ToldKeyUnlessOwn ==
  stage = "checked" /\ verdict = "ok" /\ ~raced =>
    OwnBundle \/ printed = {bundle.content.notary_pubkey}

-----------------------------------------------------------------------------
(* The inductive invariant behind both.                                    *)

PcValues == {"off", "exists", "read", "create", "write", "print", "bind", "serve"}

IdentityTypes ==
  /\ pc \in [Proc -> PcValues] /\ key \in [Proc -> Int]
  /\ starts \in 0..MaxStarts
  /\ disk \in {File!Absent, File!Empty} \cup File!Key

\* One process at a time makes the file.
Alone == \A p, q \in Proc :
  pc[p] \in {"create", "write"} /\ pc[q] \in {"create", "write"} => p = q

\* What a start knows of the file at each point of load_or_create_key.
FileFollowed == \A p \in Proc :
  /\ pc[p] \in {"exists", "create", "write"} => key[p] \in File!Key
  /\ pc[p] = "create" => disk = File!Absent
  /\ pc[p] = "write" => disk = File!Empty
  /\ pc[p] \in {"print", "bind", "serve"} => disk = key[p] /\ disk \in File!Key
  /\ pc[p] \in {"bind", "serve"} => key[p] \in printed

\* A key that was printed is on disk, for good.
PrintedOnDisk == printed # {} => disk \in File!Key /\ printed = {disk}

UsedPrinted == used \subseteq printed

SignedUnderPrinted == stage # "new" => signed.content.notary_pubkey \in printed

\* Of the file, as long as no two processes were creating it.
FileInv ==
  ~raced => /\ IdentityTypes /\ Alone /\ FileFollowed /\ PrintedOnDisk
            /\ UsedPrinted /\ SignedUnderPrinted

IdentityInv == BundleInv /\ FileInv

=============================================================================
