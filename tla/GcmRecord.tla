----------------------------- MODULE GcmRecord -----------------------------
(***************************************************************************)
(* The split-key AES-GCM of notary/src/aes.rs as share algebra: a record   *)
(* is encrypted by both parties, travels, and is decrypted by both.        *)
(*                                                                         *)
(* A byte is the set of symbols it is the XOR of, so that XOR is symmetric *)
(* difference and two values are equal exactly when they are for every     *)
(* key and mask.  One two-party AES run gives the notary a fresh mask and  *)
(* the client the masked cipher block; a two-party GHASH run is a hash of  *)
(* the blocks that the two parties' shares add up to.  In which order the  *)
(* messages of a run are exchanged is the subject of GcmOrder.             *)
(***************************************************************************)
EXTENDS Naturals, Sequences

CONSTANTS
  BlockBytes,  \* bytes of a block: 16 in the code
  MaxAad,      \* bound: bytes of additional data
  MaxLen,      \* bound: bytes of payload
  Seqs         \* sequence numbers of the TLS record

ASSUME GcmAssumption ==
  BlockBytes \in Nat \ {0} /\ MaxAad \in Nat /\ MaxLen \in Nat /\ Seqs \subseteq Nat

VARIABLES
  stage,   \* plain, sealed, opened, rejected
  sent,    \* the record as encrypted: seq, aad, ct, tag and its plaintext
  got,     \* the record as it arrives
  output   \* what the client's decryption returned

vars == <<stage, sent, got, output>>

(* Symbols: name, sequence number, position or counter, byte of the block. *)
Sym(name, seq, k) == [j \in 1..BlockBytes |-> {<<name, seq, k, j>>}]
Zero == [j \in 1..BlockBytes |-> {}]
Plus(x, y) == (x \ y) \cup (y \ x)
Xor(a, b) == [j \in 1..BlockBytes |-> Plus(a[j], b[j])]

Blocks(n) == (n + BlockBytes - 1) \div BlockBytes
Valid(n, k) == IF k = Blocks(n) THEN ((n - 1) % BlockBytes) + 1 ELSE BlockBytes
ZeroPad(b, n, k) == [j \in 1..BlockBytes |-> IF j <= Valid(n, k) THEN b[j] ELSE {}]

\* The k-th block of a byte string, padded with zeros, and back.
Block(s, k) == [j \in 1..BlockBytes |->
  LET i == (k - 1) * BlockBytes + j IN IF i <= Len(s) THEN s[i] ELSE {}]
Chop(s) == [k \in 1..Blocks(Len(s)) |-> Block(s, k)]
Join(bs, n) == [i \in 1..n |-> bs[((i - 1) \div BlockBytes) + 1][((i - 1) % BlockBytes) + 1]]

LenBlock(a, n) == [j \in 1..BlockBytes |-> {<<"len", a, n, j>>}]

-----------------------------------------------------------------------------
(* One two-party run: notary's and client's shares of a result.            *)

\* AES of the notary's block; the client's block is zero in every call.
Aes(name, seq, ctr) ==
  LET mask == Sym("mask " \o name, seq, ctr)
  IN [n |-> mask, c |-> Xor(mask, Sym(name, seq, ctr))]

HashKey == Aes("H", 0, 0)
Counter(seq, ctr) == Aes("E", seq, ctr)

\* GHASH of shared blocks under the shared hash key, folded into a tag.
Tag(bn, bc, seq) ==
  LET s == Counter(seq, 1)
  IN [key    |-> Xor(HashKey.n, HashKey.c),
      blocks |-> [k \in 1..Len(bn) |-> Xor(bn[k], bc[k])],
      mix    |-> Xor(s.n, s.c)]

Zeros(k) == [i \in 1..k |-> Zero]

-----------------------------------------------------------------------------
(* Encryption: notary_encrypt_gcm and client_encrypt_gcm.                  *)

\* Mutant: the notary hashes its whole keystream share of a short block.
SealUnpadded(seq, aad, pt) ==
  LET n == Len(pt)
      ks == [k \in 1..Blocks(n) |-> Counter(seq, k + 1)]
      ctC == [k \in 1..Blocks(n) |-> Xor(Block(pt, k), ks[k].c)]
      ct == [k \in 1..Blocks(n) |-> Xor(ctC[k], ks[k].n)]
      bn == Chop(aad) \o [k \in 1..Blocks(n) |-> ks[k].n] \o << LenBlock(Len(aad), n) >>
      bc == Zeros(Blocks(Len(aad))) \o [k \in 1..Blocks(n) |-> ZeroPad(ctC[k], n, k)] \o << Zero >>
  IN [seq |-> seq, aad |-> aad, ct |-> Join(ct, n), tag |-> Tag(bn, bc, seq)]

\* The client adds its plaintext to its share, the notary sends its own; each
\* hashes its share of the ciphertext, the notary the additional data and
\* the lengths.
Seal(seq, aad, pt) ==
  LET n == Len(pt)
      ks == [k \in 1..Blocks(n) |-> Counter(seq, k + 1)]
      ctC == [k \in 1..Blocks(n) |-> Xor(Block(pt, k), ks[k].c)]
      ct == [k \in 1..Blocks(n) |-> Xor(ctC[k], ks[k].n)]
      bn == Chop(aad) \o [k \in 1..Blocks(n) |-> ZeroPad(ks[k].n, n, k)] \o << LenBlock(Len(aad), n) >>
      bc == Zeros(Blocks(Len(aad))) \o [k \in 1..Blocks(n) |-> ZeroPad(ctC[k], n, k)] \o << Zero >>
  IN [seq |-> seq, aad |-> aad, ct |-> Join(ct, n), tag |-> Tag(bn, bc, seq)]

-----------------------------------------------------------------------------
(* Decryption: notary_decrypt_gcm and client_decrypt_gcm_2pc.              *)

\* Mutant: the additional data is hashed by neither party.
ExpectedTagNoAad(r) ==
  LET n == Len(r.ct)
      bn == Zeros(Blocks(Len(r.aad)) + Blocks(n)) \o << LenBlock(Len(r.aad), n) >>
      bc == Zeros(Blocks(Len(r.aad))) \o Chop(r.ct) \o << Zero >>
  IN Tag(bn, bc, r.seq)

\* The notary knows the lengths only; all the bytes are in the client's share.
ExpectedTag(r) ==
  LET n == Len(r.ct)
      bn == Zeros(Blocks(Len(r.aad)) + Blocks(n)) \o << LenBlock(Len(r.aad), n) >>
      bc == Chop(r.aad) \o Chop(r.ct) \o << Zero >>
  IN Tag(bn, bc, r.seq)

\* Both parties add their keystream share to the block the client sent.
Recovered(r) ==
  LET n == Len(r.ct)
      ptN(k) == Xor(Block(r.ct, k), Counter(r.seq, k + 1).n)
      ptC(k) == Xor(Block(r.ct, k), Counter(r.seq, k + 1).c)
  IN Join([k \in 1..Blocks(n) |-> Xor(ptN(k), ptC(k))], n)

-----------------------------------------------------------------------------

Bytes(name, n) == [i \in 1..n |-> {<<name, 0, i, 0>>}]
NoOutput == <<>>
Records == [seq : Seqs, alen : 0..MaxAad, plen : 0..MaxLen]

Encrypted(r) == Seal(r.seq, Bytes("aad", r.alen), Bytes("pt", r.plen))

Init ==
  /\ stage = "sealed" /\ output = NoOutput
  /\ \E r \in Records : sent = Encrypted(r)
  /\ got = sent

\* One change on the way: a byte flipped, a record replayed under another
\* sequence number, a byte cut off.
Flip(s, i) == [s EXCEPT ![i] = Plus(@, {<<"flip", 0, 0, 0>>})]
Tamper ==
  /\ stage = "sealed" /\ got = sent
  /\ \/ \E i \in 1..Len(got.ct)  : got' = [got EXCEPT !.ct = Flip(@, i)]
     \/ \E i \in 1..Len(got.aad) : got' = [got EXCEPT !.aad = Flip(@, i)]
     \/ \E s \in Seqs : got' = [got EXCEPT !.seq = s]
     \/ \E j \in 1..BlockBytes : got' = [got EXCEPT !.tag.mix = Flip(@, j)]
     \/ got.ct # <<>> /\ got' = [got EXCEPT !.ct = SubSeq(@, 1, Len(@) - 1)]
  /\ UNCHANGED <<stage, sent, output>>

Decrypt ==
  /\ stage = "sealed"
  /\ IF ExpectedTag(got) = got.tag
       THEN stage' = "opened" /\ output' = Recovered(got)
       ELSE stage' = "rejected" /\ UNCHANGED output
  /\ UNCHANGED <<sent, got>>

Next == Tamper \/ Decrypt \/ (stage # "sealed" /\ UNCHANGED vars)

Spec == Init /\ [][Next]_vars

-----------------------------------------------------------------------------
\* What encryption yields is AES-GCM: payload block k under counter k + 1,
\* and a tag over padded additional data, padded ciphertext and the lengths,
\* with no mask left in it (notary_encrypt_gcm, client_encrypt_gcm).
IsGcm ==
  /\ \A i \in 1..Len(sent.ct) :
       sent.ct[i] = {<<"pt", 0, i, 0>>,
         <<"E", sent.seq, ((i - 1) \div BlockBytes) + 2, ((i - 1) % BlockBytes) + 1>>}
  /\ sent.tag = [key    |-> Sym("H", 0, 0),
                 blocks |-> Chop(sent.aad) \o Chop(sent.ct) \o
                              << LenBlock(Len(sent.aad), Len(sent.ct)) >>,
                 mix    |-> Sym("E", sent.seq, 1)]

\* The tag that the decrypting halves recompute, from shares that are split
\* differently, accepts a record exactly when it is the one encrypted, and nothing
\* is handed out of one it rejects.
OpensExactlyIntact ==
  /\ stage = "opened" => got = sent
  /\ stage = "rejected" => got # sent /\ output = NoOutput

\* Decryption returns what was encrypted.
RoundTrip == stage = "opened" => output = Bytes("pt", Len(sent.ct))

-----------------------------------------------------------------------------
(* The inductive invariant of the theorems in GcmRecordProof.              *)

Names == {"H", "E", "len", "pt", "aad", "flip", "mask " \o "H", "mask " \o "E"}
Byte == SUBSET (Names \X Nat \X Nat \X Nat)

\* A record is sealed once and stays as it was sealed.
SealedRecord == \E r \in Records : sent = Encrypted(r)

\* What arrives has the form of a record, and a changed tag is its only change.
Arrived ==
  /\ got = [seq |-> got.seq, aad |-> got.aad, ct |-> got.ct, tag |-> got.tag]
  /\ got.seq \in Seqs /\ got.aad \in Seq(Byte) /\ got.ct \in Seq(Byte)
  /\ got.tag = sent.tag \/ [got EXCEPT !.tag = sent.tag] = sent

\* The verdict is the comparison of tags, and only a match is recovered.
Judged ==
  /\ stage \in {"sealed", "opened", "rejected"}
  /\ stage = "opened" => got.tag = ExpectedTag(got) /\ output = Recovered(got)
  /\ stage = "rejected" => got.tag # ExpectedTag(got)
  /\ stage # "opened" => output = NoOutput

GcmInv == SealedRecord /\ Arrived /\ Judged

=============================================================================
