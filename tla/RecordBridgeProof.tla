-------------------------- MODULE RecordBridgeProof --------------------------
(***************************************************************************)
(* Theorems about RecordBridge for every set of bodies and every bound:    *)
(* type correctness, the attestation invariant, nonce freshness and the    *)
(* implementation of AttestLog.                                            *)
(***************************************************************************)
EXTENDS RecordBridge, TLAPS

\* Reading takes the oldest message and leaves a well-formed channel.
LEMMA ReadsMessage ==
  ASSUME NEW kind, toN \in Seq(ToNotary), NotaryReads(kind)
  PROVE  Head(toN) \in ToNotary /\ Head(toN).kind = kind /\ toN' \in Seq(ToNotary)
  BY DEF NotaryReads

\* The kind of a message says which of the three it is.
LEMMA KindOfMessage ==
  ASSUME NEW m \in ToNotary
  PROVE  /\ m.kind = "hdr" => m \in Header
         /\ m.kind = "commit" => m \in Commit
         /\ m.kind = "names" => m \in Names
  BY DEF ToNotary, Header, Commit, Names

\* Every variable keeps its type: the frame, log and channel contents of
\* notary/src/tls.rs.
THEOREM TypeCorrect == Spec => []TypeOK
<1>1. Init => TypeOK
  BY DEF Init, TypeOK, HostPc, NotaryPc, RecordOp, Header, NoHeader
<1>2. TypeOK /\ [Next]_vars => TypeOK'
  <2> SUFFICES ASSUME TypeOK, [Next]_vars PROVE TypeOK'
    OBVIOUS
  <2> USE DEF TypeOK, hostVars, notaryVars
  <2>1. ASSUME NEW o \in RecordOp, NEW b \in Body, StartRecord(o, b) PROVE TypeOK'
    <3>1. cur' \in Record
      BY <2>1 DEF StartRecord, Record
    <3>2. toN' \in Seq(ToNotary)
      BY <2>1 DEF StartRecord, WriteHeader, ToNotary, Header
    <3> QED
      BY <2>1, <3>1, <3>2 DEF StartRecord, HostPc
  <2>2. CASE ReadTag
    BY <2>2 DEF ReadTag, HostPc
  <2>3. CASE SendCommit
    <3>1. cur \in Record
      BY <2>3 DEF SendCommit
    <3>2. [kind |-> "commit", body |-> cur.body] \in ToNotary
      BY <3>1 DEF ToNotary, Commit, Record
    <3>3. nextSeq' \in [RecordOp -> Nat]
      BY <2>3, <3>1 DEF SendCommit, Record
    <3> QED
      BY <2>3, <3>1, <3>2, <3>3 DEF SendCommit, HostPc
  <2>4. CASE AnnounceHkdf
    BY <2>4 DEF AnnounceHkdf, WriteHeader, HostPc, ToNotary, Header
  <2>5. CASE StartFinish
    BY <2>5 DEF StartFinish, HostPc, ToNotary, Header, Names
  <2>6. CASE ReadBundle
    BY <2>6 DEF ReadBundle, HostPc, ToHost
  <2>7. CASE HostGivesUp
    BY <2>7 DEF HostGivesUp, HostPc
  <2>8. CASE ReadHeader
    <3>1. Head(toN) \in Header /\ toN' \in Seq(ToNotary)
      BY <2>8, ReadsMessage, KindOfMessage DEF ReadHeader
    <3> QED
      BY <2>8, <3>1 DEF ReadHeader, NotaryPc
  <2>9. CASE GcmRun
    BY <2>9 DEF GcmRun, NotaryPc, ToHost
  <2>10. CASE ReadCommit
    <3>1. Head(toN) \in Commit /\ toN' \in Seq(ToNotary)
      BY <2>10, ReadsMessage, KindOfMessage DEF ReadCommit
    <3>2. [op |-> hdr.op, seq |-> hdr.seq, body |-> Head(toN).body] \in Record
      BY <2>10, <3>1 DEF ReadCommit, Commit, Header, Record
    <3> QED
      BY <2>10, <3>1, <3>2 DEF ReadCommit, NotaryPc
  <2>11. CASE Finish
    <3>1. toN' \in Seq(ToNotary)
      BY <2>11, ReadsMessage DEF Finish
    <3>2. [kind |-> "bundle", recs |-> records] \in ToHost
      BY DEF ToHost
    <3>3. CASE keyed
      <4>1. /\ bundle' = records /\ npc' = "signed"
            /\ toC' = Append(toC, [kind |-> "bundle", recs |-> records])
            /\ UNCHANGED <<hpc, cur, nextSeq, done, held, hdr, records, keyed>>
        BY <2>11, <3>3 DEF Finish
      <4>2. toC' \in Seq(ToHost) /\ bundle' \in Seq(Record)
        BY <3>2, <4>1
      <4> QED
        BY <3>1, <4>1, <4>2 DEF NotaryPc
    <3>4. CASE ~keyed
      BY <2>11, <3>1, <3>4 DEF Finish, NotaryPc
    <3> QED
      BY <3>3, <3>4
  <2>12. CASE NotaryEof
    BY <2>12 DEF NotaryEof, NotaryPc
  <2>13. CASE HostCrash
    BY <2>13 DEF HostCrash, HostPc
  <2>14. CASE NotaryCrash
    BY <2>14 DEF NotaryCrash, NotaryPc
  <2>15. CASE UNCHANGED vars
    BY <2>15 DEF vars
  <2> QED
    BY <2>1, <2>2, <2>3, <2>4, <2>5, <2>6, <2>7, <2>8, <2>9, <2>10, <2>11, <2>12,
       <2>13, <2>14, <2>15
    DEF Next, HostStep, NotaryStep, Choice, Failure, Over
<1> QED
  BY <1>1, <1>2, PTL DEF Spec

-----------------------------------------------------------------------------
\* Sequence numbers in use stay below the next one of their direction.
LEMMA NonceInvStep ==
  ASSUME NonceInv, TypeOK', [Next]_vars PROVE NonceInv'
<1> USE DEF NonceInv, TypeOK, hostVars, notaryVars
<1>1. ASSUME NEW o \in RecordOp, NEW b \in Body, StartRecord(o, b) PROVE NonceInv'
  BY <1>1 DEF StartRecord, Record
<1>2. CASE SendCommit
  <2>1. cur \in Record /\ cur.seq = nextSeq[cur.op]
    BY <1>2 DEF SendCommit
  <2>2. \A i \in 1..Len(done) : done[i] \in Record /\ done'[i] = done[i]
    BY <1>2 DEF SendCommit
  <2>3. Len(done') = Len(done) + 1 /\ done'[Len(done')] = cur
    BY <1>2, <2>1 DEF SendCommit
  <2>4. \A i \in 1..Len(done) : done[i].op = cur.op => done[i].seq < cur.seq
    BY <2>1
  <2>5. /\ nextSeq'[cur.op] = nextSeq[cur.op] + 1
        /\ \A o \in RecordOp : nextSeq'[o] >= nextSeq[o]
    BY <1>2, <2>1 DEF SendCommit, Record
  <2>6. \A i \in 1..Len(done') : done'[i].seq < nextSeq'[done'[i].op]
    <3> TAKE i \in 1..Len(done')
    <3>1. CASE i \in 1..Len(done)
      <4>1. done'[i] = done[i] /\ done[i].op \in RecordOp /\ done[i].seq \in Nat
        BY <3>1, <2>2 DEF Record
      <4>2. nextSeq'[done[i].op] \in Nat /\ nextSeq[done[i].op] \in Nat
        BY <4>1
      <4>3. done[i].seq < nextSeq[done[i].op]
        BY <3>1
      <4>4. nextSeq'[done[i].op] >= nextSeq[done[i].op]
        BY <4>1, <2>5
      <4> HIDE DEF NonceInv, TypeOK
      <4> QED
        BY <4>1, <4>2, <4>3, <4>4
    <3>2. CASE i = Len(done')
      BY <3>2, <2>1, <2>3, <2>5 DEF Record
    <3> QED
      BY <3>1, <3>2, <2>3
  <2>7. \A i, j \in 1..Len(done') :
          i # j /\ done'[i].op = done'[j].op => done'[i].seq # done'[j].seq
    <3> TAKE i, j \in 1..Len(done')
    <3>0. ASSUME NEW k \in 1..Len(done)
          PROVE  /\ done'[k].seq \in Nat /\ done'[Len(done')].seq \in Nat
                 /\ done'[k].op = done'[Len(done')].op => done'[k].seq < done'[Len(done')].seq
      BY <2>1, <2>2, <2>3, <2>4 DEF Record
    <3> HIDE DEF NonceInv, TypeOK
    <3>1. i \in 1..Len(done) \/ i = Len(done')
      BY <2>3
    <3>2. j \in 1..Len(done) \/ j = Len(done')
      BY <2>3
    <3>3. CASE i \in 1..Len(done) /\ j \in 1..Len(done)
      BY <3>3, <2>2 DEF NonceInv
    <3>4. CASE i \in 1..Len(done) /\ j = Len(done')
      BY <3>4, <3>0
    <3>5. CASE i = Len(done') /\ j \in 1..Len(done)
      BY <3>5, <3>0
    <3> QED
      BY <3>1, <3>2, <3>3, <3>4, <3>5
  <2> QED
    BY <1>2, <2>6, <2>7 DEF SendCommit
<1>3. CASE ReadTag
  BY <1>3 DEF ReadTag
<1>4. CASE AnnounceHkdf \/ StartFinish \/ ReadBundle \/ HostGivesUp \/ HostCrash
  BY <1>4 DEF AnnounceHkdf, StartFinish, ReadBundle, HostGivesUp, HostCrash
<1>5. CASE NotaryStep \/ NotaryCrash \/ UNCHANGED vars
  BY <1>5 DEF NotaryStep, ReadHeader, GcmRun, ReadCommit, Finish, NotaryEof, NotaryCrash, vars
<1> QED
  BY <1>1, <1>2, <1>3, <1>4, <1>5 DEF Next, HostStep, Choice, Failure, Over

\* client_encrypt_gcm and client_decrypt_gcm_2pc never run twice under one
\* nonce of one direction.
THEOREM NonceFresh == Spec => []NonceNeverReused
<1>1. Init => NonceInv
  BY DEF Init, NonceInv, TypeOK, HostPc, NotaryPc, RecordOp, Header, NoHeader
<1>2. NonceInv /\ TypeOK' /\ [Next]_vars => NonceInv'
  BY NonceInvStep
<1>3. NonceInv => NonceNeverReused
  <2> SUFFICES ASSUME NonceInv PROVE NonceNeverReused
    OBVIOUS
  <2>1. ASSUME hpc \in {"run", "commit"}, NEW i \in 1..Len(done), done[i].op = cur.op
        PROVE  done[i].seq # cur.seq
    <3>1. done[i] \in Record /\ done[i].seq < nextSeq[done[i].op]
      BY DEF NonceInv, TypeOK
    <3>2. cur.seq = nextSeq[cur.op]
      BY <2>1 DEF NonceInv
    <3> QED
      BY <2>1, <3>1, <3>2 DEF Record
  <2> QED
    BY <2>1 DEF NonceInv, NonceNeverReused
<1> QED
  BY <1>1, <1>2, <1>3, TypeCorrect, PTL DEF Spec

-----------------------------------------------------------------------------
(* The attestation invariant IInv.  First what the channel operations do   *)
(* to positions, then one lemma per action.                                *)

\* Append keeps the old positions and adds one at the end.
LEMMA AppendAt ==
  ASSUME NEW S, NEW s \in Seq(S), NEW m \in S
  PROVE  /\ Len(Append(s, m)) = Len(s) + 1
         /\ Append(s, m)[Len(s) + 1] = m
         /\ \A j \in 1..Len(s) : Append(s, m)[j] = s[j]
  OBVIOUS

\* Tail shifts every remaining position down by one.
LEMMA TailAt ==
  ASSUME NEW S, NEW s \in Seq(S), s # <<>>
  PROVE  /\ Len(s) \in Nat \ {0} /\ Len(Tail(s)) = Len(s) - 1
         /\ Head(s) = s[1]
         /\ \A j \in 1..Len(Tail(s)) : j + 1 \in 1..Len(s) /\ Tail(s)[j] = s[j + 1]
  OBVIOUS

\* A prefix keeps the positions it has.
LEMMA PrefixAt ==
  ASSUME NEW S, NEW s \in Seq(S), NEW k \in 0..Len(s)
  PROVE  /\ Len(SubSeq(s, 1, k)) = k
         /\ \A j \in 1..k : SubSeq(s, 1, k)[j] = s[j]
  OBVIOUS

\* Only a program counter moves: an error, an end of stream, a notary crash.
LEMMA IInvGivesUp ==
  ASSUME IInv, TypeOK', HostGivesUp \/ NotaryEof \/ NotaryCrash PROVE IInv'
<1> USE DEF IInv, hostVars, notaryVars
<1>1. /\ UNCHANGED <<cur, nextSeq, done, held, hdr, records, bundle, toN, toC>>
      /\ hpc' \in {hpc, "closed"} /\ npc' \in {npc, "closed", "error"}
      /\ npc' # npc => npc' # "signed" /\ npc # "signed"
  BY DEF HostGivesUp, NotaryEof, NotaryCrash, NotaryOver
<1>2. npc' # npc => npc' = "error" \/ (npc = "header" /\ toN = <<>>)
  BY DEF HostGivesUp, NotaryEof, NotaryCrash
<1>3. hpc' # hpc => hpc \in {"rejected", "run", "hkdf", "finish"}
  BY DEF HostGivesUp, NotaryEof, NotaryCrash
<1>4. LogIsPrefix' /\ NoneRejected'
  BY <1>1 DEF LogIsPrefix, NoneRejected, TagRejected
<1>5. CommitInFlight'
  BY <1>1, <1>2 DEF CommitInFlight
<1>6. HeaderInFlight'
  BY <1>1 DEF HeaderInFlight, IsHeader
<1>7. CaughtUp'
  BY <1>1, <1>2 DEF CaughtUp, FinInFlight, Pending, IsHeader
<1>8. FinishIsLast'
  BY <1>1, <1>2, <1>3 DEF FinishIsLast, FinInFlight, IsHeader
<1>9. HostReplies'
  BY <1>1, <1>2 DEF HostReplies, ServingCur, TagRejected
<1>10. BundleInFlight'
  BY <1>1 DEF BundleInFlight
<1> QED
  BY <1>4, <1>5, <1>6, <1>7, <1>8, <1>9, <1>10

\* A record header or an hkdf header is the last message, from an idle host.
LEMMA IInvHeaderSent ==
  ASSUME IInv, TypeOK',
         AnnounceHkdf \/ \E o \in RecordOp, b \in Body : StartRecord(o, b)
  PROVE  IInv'
<1> USE DEF IInv, hostVars, notaryVars
<1>1. /\ UNCHANGED <<nextSeq, done, held, npc, hdr, records, bundle, toC>>
      /\ hpc = "idle" /\ hpc' \in {"run", "hkdf"}
  BY DEF StartRecord, AnnounceHkdf
<1>2. PICK m \in Header :
        /\ toN' = Append(toN, m) /\ m.kind = "hdr" /\ m.op # "fin"
        /\ m.op \in RecordOp => hpc' = "run" /\ m.op = cur'.op /\ m.seq = cur'.seq
  <2>1. CASE AnnounceHkdf
    <3>1. [kind |-> "hdr", op |-> "hkdf", seq |-> 0] \in Header /\ "hkdf" \notin RecordOp
      BY DEF Header, RecordOp
    <3> QED
      BY <2>1, <3>1 DEF AnnounceHkdf, WriteHeader
  <2>2. ASSUME NEW o \in RecordOp, NEW b \in Body, StartRecord(o, b)
        PROVE  /\ hpc' = "run" /\ cur'.op = o /\ cur'.seq = nextSeq[o]
               /\ toN' = Append(toN, [kind |-> "hdr", op |-> o, seq |-> nextSeq[o]])
               /\ [kind |-> "hdr", op |-> o, seq |-> nextSeq[o]] \in Header
               /\ o # "fin"
    BY <2>2 DEF StartRecord, WriteHeader, Header, TypeOK, RecordOp
  <2> QED
    BY <2>1, <2>2
<1>3. /\ Len(toN') = Len(toN) + 1 /\ toN'[Len(toN) + 1] = m /\ Len(toN) \in Nat
      /\ \A j \in 1..Len(toN) : toN'[j] = toN[j]
  BY <1>2, AppendAt DEF TypeOK, ToNotary
<1>4. \A j \in 1..Len(toN') : j \in 1..Len(toN) \/ (j = Len(toN') /\ toN'[j] = m)
  BY <1>3
<1>5. toC = <<>>
  BY <1>1 DEF HostReplies
<1>6. LogIsPrefix' /\ NoneRejected'
  BY <1>1 DEF LogIsPrefix, NoneRejected, TagRejected
<1>7. CommitInFlight'
  BY <1>1, <1>2, <1>3, <1>4 DEF CommitInFlight
<1>8. HeaderInFlight'
  <2>1. \A j \in 1..Len(toN) : ~IsHeader(toN[j], RecordOp)
    BY <1>1 DEF HeaderInFlight
  <2> QED
    BY <2>1, <1>1, <1>2, <1>3, <1>4, <1>5 DEF HeaderInFlight, IsHeader
<1>9. Pending' = Pending /\ (FinInFlight' => FinInFlight)
  <2>1. FinInFlight' => FinInFlight
    BY <1>2, <1>3, <1>4 DEF FinInFlight, IsHeader
  <2>2. toN # <<>> => 1 \in 1..Len(toN) /\ toN' # <<>> /\ toN'[1] = toN[1]
    BY <1>3 DEF TypeOK
  <2>3. toN = <<>> => toN'[1] = m
    BY <1>3
  <2>4. Pending' = Pending
    BY <2>2, <2>3, <1>2 DEF Pending
  <2> QED
    BY <2>1, <2>4
<1>10. CaughtUp'
  BY <1>1, <1>9 DEF CaughtUp
<1>11. FinishIsLast'
  BY <1>1, <1>9 DEF FinishIsLast
<1>12. HostReplies'
  BY <1>1, <1>5 DEF HostReplies
<1>13. BundleInFlight'
  BY <1>1 DEF BundleInFlight
<1> QED
  BY <1>6, <1>7, <1>8, <1>10, <1>11, <1>12, <1>13

\* The finish header and the names follow whatever commit is still in flight.
LEMMA IInvFinishSent ==
  ASSUME IInv, TypeOK', StartFinish PROVE IInv'
<1> USE DEF IInv, hostVars, notaryVars
<1> DEFINE f == [kind |-> "hdr", op |-> "fin", seq |-> 0]
           n == [kind |-> "names"]
<1>1. /\ UNCHANGED <<cur, nextSeq, done, held, npc, hdr, records, bundle, toC>>
      /\ hpc = "idle" /\ hpc' = "finish" /\ toN' = toN \o <<f, n>>
  BY DEF StartFinish
<1>2. /\ Len(toN) \in Nat /\ Len(toN') = Len(toN) + 2
      /\ toN'[Len(toN) + 1] = f /\ toN'[Len(toN) + 2] = n
      /\ \A j \in 1..Len(toN) : toN'[j] = toN[j]
  BY <1>1 DEF TypeOK
<1>3. \A j \in 1..Len(toN') :
        j \in 1..Len(toN) \/ (toN'[j] = f /\ j = Len(toN) + 1) \/ toN'[j] = n
  BY <1>2
<1>4. \A j \in 1..Len(toN) : ~IsHeader(toN[j], RecordOp)
  BY <1>1 DEF HeaderInFlight
<1>5. f.kind # "commit" /\ n.kind # "commit" /\ n.kind # "hdr" /\ f.op \notin RecordOp
  BY DEF RecordOp
<1> HIDE DEF f, n
<1>6. LogIsPrefix' /\ NoneRejected'
  BY <1>1 DEF LogIsPrefix, NoneRejected, TagRejected
<1>7. CommitInFlight'
  BY <1>1, <1>2, <1>3, <1>5 DEF CommitInFlight
<1>8. HeaderInFlight'
  BY <1>2, <1>3, <1>4, <1>5 DEF HeaderInFlight, IsHeader
<1>9. Pending' = Pending
  <2>1. toN # <<>> => 1 \in 1..Len(toN) /\ toN' # <<>> /\ toN'[1] = toN[1]
    BY <1>2 DEF TypeOK
  <2>2. toN = <<>> => toN'[1] = f
    BY <1>2
  <2> QED
    BY <2>1, <2>2, <1>5 DEF Pending
<1>10. CaughtUp'
  BY <1>1, <1>9 DEF CaughtUp
<1>11. FinishIsLast'
  BY <1>1 DEF FinishIsLast
<1>12. HostReplies'
  BY <1>1 DEF HostReplies
<1>13. BundleInFlight'
  BY <1>1 DEF BundleInFlight
<1> QED
  BY <1>6, <1>7, <1>8, <1>10, <1>11, <1>12, <1>13

\* The commit of the record the notary has just run travels alone.
LEMMA IInvCommitSent ==
  ASSUME IInv, TypeOK', SendCommit PROVE IInv'
<1> USE DEF IInv, hostVars, notaryVars
<1> DEFINE m == [kind |-> "commit", body |-> cur.body]
<1>1. /\ UNCHANGED <<cur, held, npc, hdr, records, bundle, toC>>
      /\ hpc = "commit" /\ hpc' = "idle" /\ done' = Append(done, cur)
      /\ toN' = Append(toN, m)
  BY DEF SendCommit
<1>2. /\ toN = <<>> /\ toC = <<>> /\ npc \in {"commit", "error"}
      /\ ServingCur /\ Len(done) = Len(records) /\ ~TagRejected(cur) /\ cur \in Record
  BY <1>1 DEF HostReplies, TypeOK
<1>3. /\ Len(done) \in Nat /\ Len(done') = Len(done) + 1 /\ done'[Len(done')] = cur
      /\ \A i \in 1..Len(done) : done'[i] = done[i]
  BY <1>1, <1>2, AppendAt DEF TypeOK
<1>4. toN' = <<m>> /\ Len(toN') = 1 /\ toN'[1] = m
  BY <1>1, <1>2
<1>5. m.kind = "commit" /\ m.kind # "hdr"
  OBVIOUS
<1>6. cur = [op |-> hdr.op, seq |-> hdr.seq, body |-> m.body]
  BY <1>2 DEF ServingCur, Record
<1> HIDE DEF m
<1>7. LogIsPrefix'
  BY <1>1, <1>2, <1>3 DEF LogIsPrefix
<1>8. NoneRejected'
  BY <1>2, <1>3 DEF NoneRejected, TagRejected
<1>9. CommitInFlight'
  BY <1>1, <1>2, <1>3, <1>4, <1>6 DEF CommitInFlight
<1>10. HeaderInFlight' /\ ~FinInFlight'
  BY <1>4, <1>5 DEF HeaderInFlight, FinInFlight, IsHeader
<1>11. CaughtUp'
  BY <1>1, <1>2, <1>3, <1>4, <1>5 DEF CaughtUp, Pending
<1>12. FinishIsLast'
  BY <1>1, <1>2, <1>10 DEF FinishIsLast
<1>13. HostReplies'
  BY <1>1, <1>2 DEF HostReplies
<1>14. BundleInFlight'
  BY <1>1 DEF BundleInFlight
<1> QED
  BY <1>7, <1>8, <1>9, <1>10, <1>11, <1>12, <1>13, <1>14

\* The host reads the only message it is owed: a tag share or a bundle.
LEMMA IInvHostReads ==
  ASSUME IInv, TypeOK', ReadTag \/ ReadBundle PROVE IInv'
<1> USE DEF IInv, hostVars, notaryVars
<1>1. /\ UNCHANGED <<cur, nextSeq, done, npc, hdr, records, bundle, toN>>
      /\ toC # <<>> /\ toC' = Tail(toC)
      /\ \/ hpc = "run" /\ hpc' \in {"rejected", "commit"} /\ UNCHANGED held
         \/ hpc = "finish" /\ hpc' = "attested" /\ toC[1].kind = "bundle"
            /\ held' = toC[1].recs
      /\ hpc' = "commit" => ~TagRejected(cur)
  BY TailAt DEF ReadTag, ReadBundle, TypeOK
<1>2. /\ 1 \in 1..Len(toC)
      /\ \A j \in 1..Len(toC') : j + 1 \in 1..Len(toC) /\ toC'[j] = toC[j + 1]
  BY <1>1, TailAt DEF TypeOK
<1>3. hpc = "run" => /\ Len(toC) = 1 /\ toC' = <<>> /\ toN = <<>>
                     /\ npc \in {"commit", "error"} /\ ServingCur
                     /\ Len(done) = Len(records)
  <2>1. hpc = "run" => Len(toC) = 1
    BY <1>1 DEF HostReplies
  <2>2. Len(toC) = 1 => toC' = <<>>
    BY <1>1 DEF TypeOK
  <2> QED
    BY <2>1, <2>2, <1>1 DEF HostReplies
<1>4. LogIsPrefix' /\ NoneRejected'
  BY <1>1 DEF LogIsPrefix, NoneRejected, TagRejected
<1>5. CommitInFlight'
  BY <1>1 DEF CommitInFlight
<1>6. HeaderInFlight'
  <2>1. \A j \in 1..Len(toN) : ~IsHeader(toN[j], RecordOp)
    BY <1>1 DEF HeaderInFlight
  <2> QED
    BY <2>1, <1>1 DEF HeaderInFlight, IsHeader
<1>7. CaughtUp'
  BY <1>1 DEF CaughtUp, FinInFlight, Pending, IsHeader
<1>8. FinishIsLast'
  BY <1>1 DEF FinishIsLast, FinInFlight, IsHeader
<1>9. HostReplies'
  BY <1>1, <1>3 DEF HostReplies, ServingCur, TagRejected
<1>10. BundleInFlight'
  BY <1>1, <1>2 DEF BundleInFlight
<1> QED
  BY <1>4, <1>5, <1>6, <1>7, <1>8, <1>9, <1>10

\* The notary takes a header; a record header leaves the channel empty.
LEMMA IInvHeaderRead ==
  ASSUME IInv, TypeOK', ReadHeader PROVE IInv'
<1> USE DEF IInv, hostVars, notaryVars
<1>1. /\ UNCHANGED <<hpc, cur, nextSeq, done, held, records, bundle, toC>>
      /\ npc = "header" /\ toN # <<>> /\ toN' = Tail(toN)
      /\ hdr' = toN[1] /\ toN[1].kind = "hdr"
      /\ \/ toN[1].op \in RecordOp /\ npc' = "run"
         \/ toN[1].op = "fin" /\ npc' = "finish"
         \/ toN[1].op = "hkdf" /\ npc' = "error"
  BY TailAt DEF ReadHeader, NotaryReads, TypeOK
<1>2. /\ Len(toN) \in Nat \ {0} /\ Len(toN') = Len(toN) - 1 /\ 1 \in 1..Len(toN)
      /\ \A j \in 1..Len(toN') : j + 1 \in 1..Len(toN) /\ toN'[j] = toN[j + 1]
  BY <1>1, TailAt DEF TypeOK
<1>3. \A j \in 1..Len(toN) : toN[j].kind # "commit"
  BY <1>1 DEF CommitInFlight
<1>4. Pending = 0 /\ Pending' = 0
  <2>1. toN' # <<>> => 1 \in 1..Len(toN')
    BY DEF TypeOK
  <2> QED
    BY <2>1, <1>1, <1>2, <1>3 DEF Pending
<1>5. LogIsPrefix' /\ NoneRejected'
  BY <1>1 DEF LogIsPrefix, NoneRejected, TagRejected
<1>6. CommitInFlight'
  BY <1>2, <1>3 DEF CommitInFlight
<1>7. HeaderInFlight'
  <2> SUFFICES ASSUME NEW j \in 1..Len(toN'), IsHeader(toN'[j], RecordOp)
               PROVE  /\ j = Len(toN') /\ hpc \in {"run", "closed"}
                      /\ hpc = "run" => /\ toC = <<>> /\ toN'[j].op = cur.op
                                        /\ toN'[j].seq = cur.seq
    BY <1>1 DEF HeaderInFlight, IsHeader
  <2>1. j + 1 \in 1..Len(toN) /\ IsHeader(toN[j + 1], RecordOp) /\ toN'[j] = toN[j + 1]
    BY <1>2 DEF IsHeader
  <2> QED
    BY <2>1, <1>2 DEF HeaderInFlight
<1>8. FinInFlight' \/ npc' = "finish" => FinInFlight
  BY <1>1, <1>2 DEF FinInFlight, IsHeader
<1>9. CaughtUp'
  BY <1>1, <1>4, <1>8 DEF CaughtUp
<1>10. FinishIsLast'
  BY <1>1, <1>8 DEF FinishIsLast
<1>11. HostReplies'
  <2>1. CASE toN[1].op \in RecordOp
    <3>1. /\ Len(toN) = 1 /\ hpc \in {"run", "closed"}
          /\ hpc = "run" => toC = <<>> /\ toN[1].op = cur.op /\ toN[1].seq = cur.seq
      BY <2>1, <1>1, <1>2 DEF HeaderInFlight, IsHeader
    <3>2. toN' = <<>>
      <4>1. Len(toN') = 0 /\ toN' \in Seq(ToNotary)
        BY <3>1, <1>2 DEF TypeOK
      <4> QED
        BY <4>1
    <3> QED
      BY <3>1, <3>2, <1>1 DEF HostReplies, ServingCur
  <2>2. CASE toN[1].op \notin RecordOp
    BY <2>2, <1>1 DEF HostReplies, RecordOp
  <2> QED
    BY <2>1, <2>2
<1>12. BundleInFlight'
  BY <1>1 DEF BundleInFlight
<1> QED
  BY <1>5, <1>6, <1>7, <1>9, <1>10, <1>11, <1>12

\* Both parties leave the two-party run: one tag share, nothing else in flight.
LEMMA IInvRun ==
  ASSUME IInv, TypeOK', GcmRun PROVE IInv'
<1> USE DEF IInv, hostVars, notaryVars
<1> DEFINE m == [kind |-> "tag"]
<1>1. /\ UNCHANGED <<hpc, cur, nextSeq, done, held, hdr, records, bundle, toN>>
      /\ npc = "run" /\ hpc = "run" /\ npc' = "commit" /\ toC' = Append(toC, m)
  BY DEF GcmRun
<1>2. toC = <<>> /\ toN = <<>> /\ ServingCur
  BY <1>1 DEF HostReplies
<1>3. toC' = <<m>> /\ Len(toC') = 1 /\ toC'[1] = m /\ m.kind # "bundle"
  BY <1>1, <1>2
<1>4. Len(done) = Len(records)
  BY <1>1, <1>2 DEF CaughtUp, Pending, TypeOK
<1> HIDE DEF m
<1>5. LogIsPrefix' /\ NoneRejected'
  BY <1>1 DEF LogIsPrefix, NoneRejected, TagRejected
<1>6. CommitInFlight' /\ HeaderInFlight'
  BY <1>1, <1>2 DEF CommitInFlight, HeaderInFlight
<1>7. CaughtUp'
  BY <1>1 DEF CaughtUp, FinInFlight, Pending, IsHeader
<1>8. FinishIsLast'
  BY <1>1 DEF FinishIsLast, FinInFlight, IsHeader
<1>9. HostReplies'
  BY <1>1, <1>2, <1>3, <1>4 DEF HostReplies, ServingCur
<1>10. BundleInFlight'
  BY <1>1, <1>3 DEF BundleInFlight
<1> QED
  BY <1>5, <1>6, <1>7, <1>8, <1>9, <1>10

\* The commit in flight is the one record the host is ahead of the log.
LEMMA IInvCommitRead ==
  ASSUME IInv, TypeOK', ReadCommit PROVE IInv'
<1> USE DEF IInv, hostVars, notaryVars
<1> DEFINE r == [op |-> hdr.op, seq |-> hdr.seq, body |-> toN[1].body]
<1>1. /\ UNCHANGED <<hpc, cur, nextSeq, done, held, hdr, bundle, toC>>
      /\ npc = "commit" /\ npc' = "header"
      /\ toN # <<>> /\ toN[1].kind = "commit" /\ toN' = Tail(toN)
      /\ records' = Append(records, r)
  BY TailAt DEF ReadCommit, NotaryReads, TypeOK
<1>2. /\ Len(toN) \in Nat \ {0} /\ Len(toN') = Len(toN) - 1 /\ 1 \in 1..Len(toN)
      /\ \A j \in 1..Len(toN') : j + 1 \in 1..Len(toN) /\ toN'[j] = toN[j + 1] /\ j + 1 # 1
  BY <1>1, TailAt DEF TypeOK
<1>3. Len(done) = Len(records) + 1 /\ done[Len(done)] = r
  BY <1>1, <1>2 DEF CommitInFlight
<1>4. /\ Len(records) \in Nat /\ Len(records') = Len(records) + 1
      /\ records'[Len(records')] = r
      /\ \A i \in 1..Len(records) : records'[i] = records[i]
  BY <1>1 DEF TypeOK
<1> HIDE DEF r
<1>5. \A j \in 1..Len(toN') : toN'[j].kind # "commit"
  <2> TAKE j \in 1..Len(toN')
  <2>1. j + 1 \in 1..Len(toN) /\ j + 1 # 1 /\ toN'[j] = toN[j + 1]
    BY <1>2
  <2> QED
    BY <2>1 DEF CommitInFlight
<1>6. Pending = 1 /\ Pending' = 0
  <2>1. toN' # <<>> => 1 \in 1..Len(toN')
    BY DEF TypeOK
  <2> QED
    BY <2>1, <1>1, <1>5 DEF Pending
<1>7. LogIsPrefix'
  BY <1>1, <1>3, <1>4 DEF LogIsPrefix
<1>8. NoneRejected'
  BY <1>1 DEF NoneRejected, TagRejected
<1>9. CommitInFlight'
  BY <1>5 DEF CommitInFlight
<1>10. HeaderInFlight'
  <2> SUFFICES ASSUME NEW j \in 1..Len(toN'), IsHeader(toN'[j], RecordOp)
               PROVE  /\ j = Len(toN') /\ hpc \in {"run", "closed"}
                      /\ hpc = "run" => /\ toC = <<>> /\ toN'[j].op = cur.op
                                        /\ toN'[j].seq = cur.seq
    BY <1>1 DEF HeaderInFlight, IsHeader
  <2>1. j + 1 \in 1..Len(toN) /\ IsHeader(toN[j + 1], RecordOp) /\ toN'[j] = toN[j + 1]
    BY <1>2 DEF IsHeader
  <2> QED
    BY <2>1, <1>2 DEF HeaderInFlight
<1>11. CaughtUp'
  BY <1>1, <1>3, <1>4, <1>6 DEF CaughtUp
<1>12. FinInFlight' => FinInFlight
  BY <1>2 DEF FinInFlight, IsHeader
<1>13. FinishIsLast'
  BY <1>1, <1>12 DEF FinishIsLast
<1>14. HostReplies'
  BY <1>1 DEF HostReplies
<1>15. BundleInFlight'
  BY <1>1 DEF BundleInFlight
<1> QED
  BY <1>7, <1>8, <1>9, <1>10, <1>11, <1>13, <1>14, <1>15

\* A notary that reaches the signature has the whole session in its log.
LEMMA FinishFindsAll ==
  ASSUME IInv, npc = "finish", toN # <<>>, toN[1].kind = "names"
  PROVE  records = done /\ bundle = None
<1> USE DEF IInv
<1>1. Len(done) = Len(records)
  BY DEF CaughtUp, Pending, TypeOK
<1>2. \A i \in 1..Len(records) : records[i] = done[i]
  BY DEF LogIsPrefix
<1>3. records \in Seq(Record) /\ done \in Seq(Record)
  BY DEF TypeOK
<1> QED
  BY <1>1, <1>2, <1>3 DEF FinishIsLast

\* OP_FINISH: the log is signed, or the missing key ends the worker.
LEMMA IInvFinish ==
  ASSUME IInv, TypeOK', Finish PROVE IInv'
<1> USE DEF IInv, hostVars, notaryVars
<1> DEFINE m == [kind |-> "bundle", recs |-> records]
<1>1. /\ UNCHANGED <<hpc, cur, nextSeq, done, held, hdr, records>>
      /\ npc = "finish" /\ npc' \in {"signed", "error"}
      /\ toN # <<>> /\ toN[1].kind = "names" /\ toN' = Tail(toN)
      /\ npc' = "signed" => bundle' = records /\ toC' = Append(toC, m)
      /\ npc' = "error" => bundle' = bundle /\ toC' = toC
  BY TailAt DEF Finish, NotaryReads, TypeOK
<1>2. /\ Len(toN) \in Nat \ {0} /\ Len(toN') = Len(toN) - 1 /\ 1 \in 1..Len(toN)
      /\ \A j \in 1..Len(toN') : j + 1 \in 1..Len(toN) /\ toN'[j] = toN[j + 1]
  BY <1>1, TailAt DEF TypeOK
<1>3. \A j \in 1..Len(toN) : toN[j].kind # "commit"
  BY <1>1 DEF CommitInFlight
<1>4. hpc \in {"finish", "attested", "closed"}
  BY <1>1 DEF FinishIsLast
<1>5. records = done /\ bundle = None
  BY <1>1, FinishFindsAll
<1>6. held = None /\ \A j \in 1..Len(toC) : toC[j].kind # "bundle"
  BY <1>1 DEF BundleInFlight
<1>7. LogIsPrefix' /\ NoneRejected'
  BY <1>1 DEF LogIsPrefix, NoneRejected, TagRejected
<1>8. CommitInFlight'
  BY <1>2, <1>3 DEF CommitInFlight
<1>9. HeaderInFlight'
  <2> SUFFICES ASSUME NEW j \in 1..Len(toN'), IsHeader(toN'[j], RecordOp)
               PROVE  j = Len(toN') /\ hpc = "closed"
    BY <1>1 DEF HeaderInFlight, IsHeader
  <2>1. j + 1 \in 1..Len(toN) /\ IsHeader(toN[j + 1], RecordOp)
    BY <1>2 DEF IsHeader
  <2> QED
    BY <2>1, <1>2, <1>4 DEF HeaderInFlight
<1>10. CaughtUp'
  <2>1. toN' # <<>> => 1 \in 1..Len(toN')
    BY DEF TypeOK
  <2>2. Pending' = 0
    BY <2>1, <1>2, <1>3 DEF Pending
  <2> QED
    BY <2>2, <1>1, <1>5 DEF CaughtUp, TypeOK
<1>11. FinishIsLast'
  BY <1>1, <1>4, <1>5 DEF FinishIsLast
<1>12. HostReplies'
  BY <1>1, <1>4 DEF HostReplies
<1>13. BundleInFlight'
  <2>1. CASE npc' = "error"
    BY <2>1, <1>1, <1>6 DEF BundleInFlight
  <2>2. CASE npc' = "signed"
    <3>1. \A j \in 1..Len(toC') : toC'[j] = m \/ (j \in 1..Len(toC) /\ toC'[j] = toC[j])
      <4>1. m \in ToHost /\ toC \in Seq(ToHost) /\ toC' = Append(toC, m)
        BY <2>2, <1>1 DEF TypeOK, ToHost
      <4> QED
        BY <4>1, AppendAt
    <3> QED
      BY <3>1, <2>2, <1>1, <1>6 DEF BundleInFlight
  <2> QED
    BY <2>1, <2>2, <1>1
<1> QED
  BY <1>7, <1>8, <1>9, <1>10, <1>11, <1>12, <1>13

\* A crash cuts the end of what was sent: never a record without its finish.
LEMMA IInvHostCrash ==
  ASSUME IInv, TypeOK', HostCrash PROVE IInv'
<1> USE DEF IInv, hostVars, notaryVars
<1>1. /\ UNCHANGED <<cur, nextSeq, done, held, npc, hdr, records, bundle, toC>>
      /\ hpc' = "closed"
  BY DEF HostCrash
<1>2. PICK k \in 0..Len(toN) : toN' = SubSeq(toN, 1, k)
  BY DEF HostCrash
<1>3. /\ Len(toN) \in Nat /\ Len(toN') = k
      /\ \A j \in 1..k : j \in 1..Len(toN) /\ toN'[j] = toN[j]
  BY <1>2, PrefixAt DEF TypeOK
<1>4. LogIsPrefix' /\ NoneRejected'
  BY <1>1 DEF LogIsPrefix, NoneRejected, TagRejected
<1>5. CommitInFlight'
  BY <1>1, <1>3 DEF CommitInFlight
<1>6. HeaderInFlight'
  BY <1>1, <1>3 DEF HeaderInFlight, IsHeader
<1>7. FinInFlight' => FinInFlight /\ Pending' = Pending
  <2> SUFFICES ASSUME FinInFlight' PROVE FinInFlight /\ Pending' = Pending
    OBVIOUS
  <2>1. k # 0 /\ FinInFlight
    BY <1>3 DEF FinInFlight, IsHeader
  <2>2. toN # <<>> /\ toN' # <<>> /\ toN'[1] = toN[1]
    BY <2>1, <1>3 DEF TypeOK
  <2> QED
    BY <2>1, <2>2 DEF Pending
<1>8. npc = "finish" => Pending = 0 /\ Pending' = 0
  <2>1. /\ toN # <<>> => 1 \in 1..Len(toN)
        /\ toN' # <<>> => 1 \in 1..Len(toN')
    BY DEF TypeOK
  <2> QED
    BY <2>1, <1>1, <1>5 DEF Pending, CommitInFlight
<1>9. CaughtUp'
  BY <1>1, <1>7, <1>8 DEF CaughtUp
<1>10. FinishIsLast'
  BY <1>1, <1>7 DEF FinishIsLast
<1>11. HostReplies'
  BY <1>1 DEF HostReplies
<1>12. BundleInFlight'
  BY <1>1 DEF BundleInFlight
<1> QED
  BY <1>4, <1>5, <1>6, <1>9, <1>10, <1>11, <1>12

-----------------------------------------------------------------------------

\* A step that changes nothing keeps the invariant.
LEMMA IInvStutter == ASSUME IInv, UNCHANGED vars PROVE IInv'
  BY DEF IInv, vars, hostVars, notaryVars, TypeOK, LogIsPrefix, CommitInFlight,
         HeaderInFlight, IsHeader, CaughtUp, FinInFlight, Pending, FinishIsLast,
         HostReplies, ServingCur, TagRejected, BundleInFlight, NoneRejected

\* Every step of the bridge keeps IInv: one action at a time.
LEMMA IInvStep == ASSUME IInv, TypeOK', [Next]_vars PROVE IInv'
<1>1. ASSUME NEW o \in RecordOp, NEW b \in Body, StartRecord(o, b) PROVE IInv'
  BY <1>1, IInvHeaderSent
<1>2. CASE AnnounceHkdf
  BY <1>2, IInvHeaderSent
<1>3. CASE StartFinish
  BY <1>3, IInvFinishSent
<1>4. CASE SendCommit
  BY <1>4, IInvCommitSent
<1>5. CASE ReadTag \/ ReadBundle
  BY <1>5, IInvHostReads
<1>6. CASE HostGivesUp \/ NotaryEof \/ NotaryCrash
  BY <1>6, IInvGivesUp
<1>7. CASE ReadHeader
  BY <1>7, IInvHeaderRead
<1>8. CASE GcmRun
  BY <1>8, IInvRun
<1>9. CASE ReadCommit
  BY <1>9, IInvCommitRead
<1>10. CASE Finish
  BY <1>10, IInvFinish
<1>11. CASE HostCrash
  BY <1>11, IInvHostCrash
<1>12. CASE UNCHANGED vars
  BY <1>12, IInvStutter
<1> QED
  BY <1>1, <1>2, <1>3, <1>4, <1>5, <1>6, <1>7, <1>8, <1>9, <1>10, <1>11, <1>12
  DEF Next, HostStep, NotaryStep, Choice, Failure, Over

\* IInv holds of every reachable state.
LEMMA Inductive == Spec => []IInv
<1>1. Init => IInv
  <2> SUFFICES ASSUME Init PROVE IInv
    OBVIOUS
  <2>1. TypeOK
    BY DEF Init, TypeOK, HostPc, NotaryPc, RecordOp, Header, NoHeader
  <2> QED
    BY <2>1 DEF Init, IInv, LogIsPrefix, CommitInFlight, HeaderInFlight, CaughtUp,
         Pending, FinInFlight, FinishIsLast, HostReplies, BundleInFlight, NoneRejected
<1>2. IInv /\ TypeOK' /\ [Next]_vars => IInv'
  BY IInvStep
<1> QED
  BY <1>1, <1>2, TypeCorrect, PTL DEF Spec

\* run_notary_worker_inner signs exactly what the host completed, and
\* client_finish_session returns exactly what was signed.
THEOREM BundleAttests == Spec => []BundleAttestsSession
<1>1. IInv => BundleAttestsSession
  <2> SUFFICES ASSUME IInv PROVE BundleAttestsSession
    OBVIOUS
  <2>1. npc = "signed" => records = done
    BY DEF IInv, TypeOK, LogIsPrefix, FinishIsLast
  <2> QED
    BY <2>1 DEF IInv, FinishIsLast, BundleInFlight, BundleAttestsSession
<1> QED
  BY <1>1, Inductive, PTL

\* decrypt_one returns before its commit when the tag is wrong, so the notary
\* logs no such record.
THEOREM RejectedStaysOut == Spec => []RejectedNeverLogged
<1>1. IInv => RejectedNeverLogged
  BY DEF IInv, TypeOK, LogIsPrefix, NoneRejected, RejectedNeverLogged, TagRejected
<1> QED
  BY <1>1, Inductive, PTL

-----------------------------------------------------------------------------
(* The bridge implements AttestLog: SendCommit completes a record, Finish  *)
(* attests the log, and everything else is a stutter.                      *)

\* Every step of the bridge is a step of the abstract log or none.
LEMMA StepImplements ==
  ASSUME IInv, TypeOK', [Next]_vars PROVE [Abstract!Next]_(Abstract!vars)
<1> USE DEF hostVars, notaryVars
<1>1. CASE SendCommit
  <2>1. /\ done' = Append(done, cur) /\ UNCHANGED bundle /\ hpc = "commit"
        /\ cur \in Record /\ done \in Seq(Record)
    BY <1>1 DEF SendCommit, IInv, TypeOK
  <2>2. bundle = None
    BY <2>1 DEF IInv, HostReplies, FinishIsLast
  <2>3. done' \in Seq(Record) /\ Len(done') = Len(done) + 1
    BY <2>1
  <2>4. SubSeq(done', 1, Len(done)) = done
    BY <2>1
  <2> QED
    BY <2>1, <2>2, <2>3, <2>4 DEF Abstract!Next, Abstract!Complete
<1>2. CASE Finish
  <2>1. records = done /\ bundle = None
    BY <1>2, FinishFindsAll, TailAt DEF Finish, NotaryReads, IInv, TypeOK
  <2> QED
    BY <1>2, <2>1 DEF Finish, Abstract!Next, Abstract!Attest, Abstract!vars
<1>3. CASE ~SendCommit /\ ~Finish
  BY <1>3 DEF Next, HostStep, NotaryStep, Choice, Failure, Over, vars, StartRecord,
       AnnounceHkdf, StartFinish, ReadTag, ReadBundle, HostGivesUp, ReadHeader, GcmRun,
       ReadCommit, NotaryEof, HostCrash, NotaryCrash, Abstract!vars
<1> QED
  BY <1>1, <1>2, <1>3

\* The detailed bridge of notary/src/tls.rs implements the abstract promise.
THEOREM Implements == Spec => ImplementsAttestLog
<1>1. Init => Abstract!Init
  BY DEF Init, Abstract!Init
<1>2. IInv /\ TypeOK' /\ [Next]_vars => [Abstract!Next]_(Abstract!vars)
  BY StepImplements
<1> QED
  BY <1>1, <1>2, TypeCorrect, Inductive, PTL DEF Spec, ImplementsAttestLog, Abstract!Spec

=============================================================================
