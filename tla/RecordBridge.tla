---------------------------- MODULE RecordBridge ----------------------------
(***************************************************************************)
(* The record bridge of notary/src/tls.rs: one host (the client side of    *)
(* every two-party computation) and one notary worker share a channel      *)
(* after key setup.  Each TLS record is one frame header, one two-party    *)
(* GCM run and one commit of ciphertext and tag; OP_FINISH asks the notary *)
(* to sign the log it kept.                                                *)
(*                                                                         *)
(* The two-party run itself is one joint step here: what the parties       *)
(* compute and exchange inside it is the subject of GcmRecord and          *)
(* GcmOrder.  SHA-256 of a commit is taken to be injective, so a commit    *)
(* hash is the record body it covers.                                      *)
(***************************************************************************)
EXTENDS Naturals, Sequences

CONSTANTS
  Body,     \* ciphertext-and-tag values of TLS records
  Forged,   \* bodies whose tag does not verify under the session key
  None,     \* absent value
  MaxOps    \* bound: records per session

ASSUME BridgeAssumption ==
  /\ Forged \subseteq Body
  /\ MaxOps \in Nat

RecordOp == {"enc", "dec"}
Record == [op : RecordOp, seq : Nat, body : Body]

\* Frame headers, finish names and commits travel to the notary; the last
\* masked tag share of a run and the signed bundle travel to the host.
Header == [kind : {"hdr"}, op : RecordOp \cup {"fin", "hkdf"}, seq : Nat]
Commit == [kind : {"commit"}, body : Body]
Names  == [kind : {"names"}]
ToNotary == Header \cup Commit \cup Names
ToHost == [kind : {"tag"}] \cup [kind : {"bundle"}, recs : Seq(Record)]

VARIABLES
  hpc,      \* where the host is in the bridge protocol
  cur,      \* the record the host is working on
  nextSeq,  \* the host's next sequence number in each direction
  done,     \* the records the host completed, in order
  held,     \* the bundle the host received
  npc,      \* where the notary worker is
  hdr,      \* the header the worker is serving
  records,  \* the worker's session log
  bundle,   \* the log the worker signed
  keyed,    \* whether the worker was given a signing key
  toN, toC  \* channel contents, oldest first

hostVars   == <<hpc, cur, nextSeq, done, held>>
notaryVars == <<npc, hdr, records, bundle, keyed>>
vars == <<hostVars, notaryVars, toN, toC>>

HostPc   == {"idle", "run", "commit", "rejected", "hkdf", "finish", "attested", "closed"}
NotaryPc == {"header", "run", "commit", "finish", "signed", "closed", "error"}

HostOver   == hpc \in {"attested", "closed"}
NotaryOver == npc \in {"signed", "closed", "error"}

NoHeader == [kind |-> "hdr", op |-> "fin", seq |-> 0]

TypeOK ==
  /\ hpc \in HostPc
  /\ cur \in Record \cup {None}
  /\ nextSeq \in [RecordOp -> Nat]
  /\ done \in Seq(Record)
  /\ held \in Seq(Record) \cup {None}
  /\ npc \in NotaryPc
  /\ hdr \in Header
  /\ records \in Seq(Record)
  /\ bundle \in Seq(Record) \cup {None}
  /\ keyed \in BOOLEAN
  /\ toN \in Seq(ToNotary)
  /\ toC \in Seq(ToHost)
  /\ hpc \in {"run", "commit", "rejected"} => cur \in Record
  /\ npc \in {"run", "commit"} => hdr.op \in RecordOp

Init ==
  /\ hpc = "idle" /\ cur = None /\ nextSeq = [o \in RecordOp |-> 0]
  /\ done = <<>> /\ held = None
  /\ npc = "header" /\ hdr = NoHeader /\ records = <<>> /\ bundle = None
  /\ keyed \in BOOLEAN
  /\ toN = <<>> /\ toC = <<>>

-----------------------------------------------------------------------------
(* The host: encrypt_one, decrypt_one, client_finish_session.              *)

WriteHeader(o, s) == toN' = Append(toN, [kind |-> "hdr", op |-> o, seq |-> s])

\* encrypt_one / decrypt_one up to the start of the two-party run.
StartRecord(o, b) ==
  /\ hpc = "idle"
  /\ Len(done) < MaxOps
  /\ WriteHeader(o, nextSeq[o])
  /\ cur' = [op |-> o, seq |-> nextSeq[o], body |-> b]
  /\ hpc' = "run"
  /\ UNCHANGED <<nextSeq, done, held, notaryVars, toC>>

\* A tag mismatch is only possible, and only detected, when decrypting.
TagRejected(r) == r.op = "dec" /\ r.body \in Forged

\* Mutant: the comparison of the tags is left out.
ReadTagUnchecked ==
  /\ hpc = "run"
  /\ toC # <<>> /\ Head(toC).kind = "tag"
  /\ toC' = Tail(toC)
  /\ hpc' = "commit"
  /\ UNCHANGED <<cur, nextSeq, done, held, notaryVars, toN>>

\* The host reads the notary's tag share and finishes its side of the run.
ReadTag ==
  /\ hpc = "run"
  /\ toC # <<>> /\ Head(toC).kind = "tag"
  /\ toC' = Tail(toC)
  /\ hpc' = IF TagRejected(cur) THEN "rejected" ELSE "commit"
  /\ UNCHANGED <<cur, nextSeq, done, held, notaryVars, toN>>

\* Mutant: the sequence number is not advanced.
SendCommitSameSeq ==
  /\ hpc = "commit"
  /\ toN' = Append(toN, [kind |-> "commit", body |-> cur.body])
  /\ done' = Append(done, cur)
  /\ hpc' = "idle"
  /\ UNCHANGED <<cur, nextSeq, held, notaryVars, toC>>

\* ciphertext and tag go to the notary; the record counts as completed.
SendCommit ==
  /\ hpc = "commit"
  /\ toN' = Append(toN, [kind |-> "commit", body |-> cur.body])
  /\ done' = Append(done, cur)
  /\ nextSeq' = [nextSeq EXCEPT ![cur.op] = @ + 1]
  /\ hpc' = "idle"
  /\ UNCHANGED <<cur, held, notaryVars, toC>>

\* client_run_2pc_traffic_hkdf on a worker whose keys are already set up.
AnnounceHkdf ==
  /\ hpc = "idle"
  /\ WriteHeader("hkdf", 0)
  /\ hpc' = "hkdf"
  /\ UNCHANGED <<cur, nextSeq, done, held, notaryVars, toC>>

\* The finish header and the names are two flushes.
StartFinish ==
  /\ hpc = "idle"
  /\ toN' = toN \o << [kind |-> "hdr", op |-> "fin", seq |-> 0], [kind |-> "names"] >>
  /\ hpc' = "finish"
  /\ UNCHANGED <<cur, nextSeq, done, held, notaryVars, toC>>

ReadBundle ==
  /\ hpc = "finish"
  /\ toC # <<>> /\ Head(toC).kind = "bundle"
  /\ held' = Head(toC).recs
  /\ toC' = Tail(toC)
  /\ hpc' = "attested"
  /\ UNCHANGED <<cur, nextSeq, done, notaryVars, toN>>

\* Mutant: a host waiting on a channel the notary has left keeps waiting.
HostGivesUpOnTag ==
  /\ hpc = "rejected"
  /\ hpc' = "closed"
  /\ UNCHANGED <<cur, nextSeq, done, held, notaryVars, toN, toC>>

\* An error of any bridge call leaves Channel::with and drops the stream: a
\* rejected tag, or a read on a channel the notary has left.
HostGivesUp ==
  /\ \/ hpc = "rejected"
     \/ hpc \in {"run", "hkdf", "finish"} /\ toC = <<>> /\ NotaryOver
  /\ hpc' = "closed"
  /\ UNCHANGED <<cur, nextSeq, done, held, notaryVars, toN, toC>>

-----------------------------------------------------------------------------
(* The notary worker: run_notary_worker_inner.                             *)

NotaryReads(kind) == toN # <<>> /\ Head(toN).kind = kind /\ toN' = Tail(toN)

\* Mutant: an op byte that is neither encrypt nor finish is served as a decrypt.
ReadHeaderAnyOp ==
  /\ npc = "header"
  /\ NotaryReads("hdr")
  /\ hdr' = Head(toN)
  /\ npc' = IF hdr'.op = "fin" THEN "finish" ELSE "run"
  /\ UNCHANGED <<hostVars, records, bundle, keyed, toC>>

ReadHeader ==
  /\ npc = "header"
  /\ NotaryReads("hdr")
  /\ hdr' = Head(toN)
  /\ \/ hdr'.op \in RecordOp /\ npc' = "run"
     \/ hdr'.op = "fin" /\ npc' = "finish"
     \/ hdr'.op = "hkdf" /\ npc' = "error"
  /\ UNCHANGED <<hostVars, records, bundle, keyed, toC>>

\* Both parties inside the two-party run of the same record; the notary's
\* last action in it is writing its tag share.
GcmRun ==
  /\ npc = "run" /\ hpc = "run"
  /\ npc' = "commit"
  /\ toC' = Append(toC, [kind |-> "tag"])
  /\ UNCHANGED <<hostVars, hdr, records, bundle, keyed, toN>>

\* Mutant: the decrypt arm forgets to push its record.
ReadCommitEncryptOnly ==
  /\ npc = "commit"
  /\ NotaryReads("commit")
  /\ records' = IF hdr.op = "dec" THEN records
                ELSE Append(records, [op |-> hdr.op, seq |-> hdr.seq, body |-> Head(toN).body])
  /\ npc' = "header"
  /\ UNCHANGED <<hostVars, hdr, bundle, keyed, toC>>

\* Mutant: the newest record is inserted in front.
ReadCommitInFront ==
  /\ npc = "commit"
  /\ NotaryReads("commit")
  /\ records' = <<[op |-> hdr.op, seq |-> hdr.seq, body |-> Head(toN).body]>> \o records
  /\ npc' = "header"
  /\ UNCHANGED <<hostVars, hdr, bundle, keyed, toC>>

ReadCommit ==
  /\ npc = "commit"
  /\ NotaryReads("commit")
  /\ records' = Append(records, [op |-> hdr.op, seq |-> hdr.seq, body |-> Head(toN).body])
  /\ npc' = "header"
  /\ UNCHANGED <<hostVars, hdr, bundle, keyed, toC>>

\* OP_FINISH: names are read first, then the missing key is noticed.
Finish ==
  /\ npc = "finish"
  /\ NotaryReads("names")
  /\ IF keyed
       THEN /\ bundle' = records
            /\ toC' = Append(toC, [kind |-> "bundle", recs |-> records])
            /\ npc' = "signed"
       ELSE /\ npc' = "error"
            /\ UNCHANGED <<bundle, toC>>
  /\ UNCHANGED <<hostVars, hdr, records, keyed>>

\* Mutant: the end of the stream is only noticed between frames.
NotaryEofBetweenFrames ==
  /\ npc = "header"
  /\ hpc = "closed" /\ toN = <<>>
  /\ npc' = "closed"
  /\ UNCHANGED <<hostVars, hdr, records, bundle, keyed, toN, toC>>

\* End of stream: a quiet return between frames, an error inside one.
NotaryEof ==
  /\ ~NotaryOver
  /\ hpc = "closed" /\ toN = <<>>
  /\ npc' = IF npc = "header" THEN "closed" ELSE "error"
  /\ UNCHANGED <<hostVars, hdr, records, bundle, keyed, toN, toC>>

-----------------------------------------------------------------------------
(* Failures of the environment.                                            *)

\* The host process dies or drops the connection; a reset may also lose any
\* suffix of what it had sent.
HostCrash ==
  /\ ~HostOver
  /\ hpc' = "closed"
  /\ \E k \in 0..Len(toN) : toN' = SubSeq(toN, 1, k)
  /\ UNCHANGED <<cur, nextSeq, done, held, notaryVars, toC>>

NotaryCrash ==
  /\ ~NotaryOver
  /\ npc' = "error"
  /\ UNCHANGED <<hostVars, hdr, records, bundle, keyed, toN, toC>>

HostStep == ReadTag \/ SendCommit \/ ReadBundle \/ HostGivesUp
NotaryStep == ReadHeader \/ GcmRun \/ ReadCommit \/ Finish \/ NotaryEof
Choice == StartFinish \/ AnnounceHkdf \/ \E o \in RecordOp, b \in Body : StartRecord(o, b)
Failure == HostCrash \/ NotaryCrash

\* A finished session stays as it is.
Over == HostOver /\ NotaryOver /\ UNCHANGED vars

Next == HostStep \/ NotaryStep \/ Choice \/ Failure \/ Over

\* Neither program pauses between two steps of a call; what to do next, and
\* failures, are nobody's obligation.
Fairness == WF_vars(HostStep) /\ WF_vars(NotaryStep)

Spec == Init /\ [][Next]_vars
FairSpec == Spec /\ Fairness

-----------------------------------------------------------------------------
\* What the notary signs is exactly the list of records the host completed,
\* in order, and the host only ever holds what the notary signed
\* (run_notary_worker_inner's log against the host's own session).
BundleAttestsSession ==
  /\ bundle # None => bundle = done
  /\ held # None => held = bundle

\* A record whose tag the host rejected is never committed to: decrypt_one
\* returns before it writes the commit, and read_commit then has nothing.
RejectedNeverLogged == \A i \in 1..Len(records) : ~TagRejected(records[i])

\* No two runs under one key share a sequence number, hence a GCM nonce.
NonceNeverReused ==
  /\ \A i, j \in 1..Len(done) :
        i # j /\ done[i].op = done[j].op => done[i].seq # done[j].seq
  /\ hpc \in {"run", "commit"} =>
        \A i \in 1..Len(done) : done[i].op = cur.op => done[i].seq # cur.seq

\* A notary thread never outlives its host: once the host is gone the worker
\* drains the channel and returns.
NotaryReleased == hpc = "closed" ~> NotaryOver

\* A host waiting for its bundle gets it or learns that the notary is gone.
FinishAnswered == hpc = "finish" ~> HostOver

Abstract == INSTANCE AttestLog WITH log <- done, attested <- bundle
ImplementsAttestLog == Abstract!Spec

-----------------------------------------------------------------------------
(* The inductive invariant behind BundleAttestsSession and                 *)
(* RejectedNeverLogged: what is in flight, related to both parties.        *)

IsHeader(m, ops) == m.kind = "hdr" /\ m.op \in ops

\* 1 while a commit waits at the head of the channel.
Pending == IF toN # <<>> /\ toN[1].kind = "commit" THEN 1 ELSE 0

ServingCur == hdr.op = cur.op /\ hdr.seq = cur.seq

LogIsPrefix ==
  /\ Len(records) <= Len(done)
  /\ Len(done) <= Len(records) + 1
  /\ \A i \in 1..Len(records) : records[i] = done[i]

\* A commit is alone in flight, and is the last record the host completed.
CommitInFlight == \A j \in 1..Len(toN) :
  toN[j].kind = "commit" =>
    /\ j = 1
    /\ npc \in {"commit", "error"}
    /\ Len(done) = Len(records) + 1
    /\ done[Len(done)] = [op |-> hdr.op, seq |-> hdr.seq, body |-> toN[j].body]

\* A record header is the last thing its host has sent.
HeaderInFlight == \A j \in 1..Len(toN) :
  IsHeader(toN[j], RecordOp) =>
    /\ j = Len(toN)
    /\ hpc \in {"run", "closed"}
    /\ hpc = "run" => toC = <<>> /\ toN[j].op = cur.op /\ toN[j].seq = cur.seq

FinInFlight == \E j \in 1..Len(toN) : IsHeader(toN[j], {"fin"})

\* Only a crashing host loses a record, and then it loses its finish too.
CaughtUp ==
  hpc # "closed" \/ npc = "finish" \/ FinInFlight => Len(done) = Len(records) + Pending

FinishIsLast ==
  /\ npc \in {"finish", "signed"} \/ FinInFlight => hpc \in {"finish", "attested", "closed"}
  /\ npc = "signed" => Len(done) = Len(records) /\ bundle = records
  /\ npc # "signed" => bundle = None

HostReplies ==
  /\ hpc \in {"idle", "commit", "rejected", "hkdf"} => toC = <<>>
  /\ hpc = "run" /\ toC # <<>> =>
       /\ toN = <<>> /\ npc \in {"commit", "error"}
       /\ ServingCur /\ Len(done) = Len(records)
       /\ Len(toC) = 1
  /\ hpc = "commit" =>
       /\ toN = <<>> /\ npc \in {"commit", "error"}
       /\ ServingCur /\ Len(done) = Len(records)
       /\ ~TagRejected(cur)
  /\ npc = "run" => hpc \in {"run", "closed"}
  /\ npc = "run" /\ hpc = "run" => toC = <<>> /\ toN = <<>> /\ ServingCur

BundleInFlight ==
  /\ \A j \in 1..Len(toC) : toC[j].kind = "bundle" => npc = "signed" /\ toC[j].recs = bundle
  /\ held # None => npc = "signed" /\ held = bundle

NoneRejected == \A i \in 1..Len(done) : ~TagRejected(done[i])

IInv ==
  /\ TypeOK
  /\ LogIsPrefix
  /\ CommitInFlight
  /\ HeaderInFlight
  /\ CaughtUp
  /\ FinishIsLast
  /\ HostReplies
  /\ BundleInFlight
  /\ NoneRejected

\* The strengthening of NonceNeverReused: sequence numbers in use are below
\* the next one of their direction.
NonceInv ==
  /\ TypeOK
  /\ \A i \in 1..Len(done) : done[i].seq < nextSeq[done[i].op]
  /\ \A i, j \in 1..Len(done) :
        i # j /\ done[i].op = done[j].op => done[i].seq # done[j].seq
  /\ hpc \in {"run", "commit"} => cur.seq = nextSeq[cur.op]

=============================================================================
