-------------------------- MODULE CompressCircuit --------------------------
(***************************************************************************)
(* The circuit of the SHA-256 compression function that                    *)
(* notary/src/bin/gen_sha256_compress.rs generates, for words of WordBits  *)
(* bits.  A wire stands for the bit it carries: the builder allocates each *)
(* wire once and its gates are evaluated in the order they were made.  A   *)
(* word is the sequence of its bits, the highest first.                    *)
(***************************************************************************)
EXTENDS Naturals, Sequences, SequencesExt, Bitwise

CONSTANTS
  WordBits,   \* bits of a word (32)
  Rounds,     \* rounds, and words of the message schedule (64)
  K           \* the round constants, numbers below 2^WordBits

ASSUME CompressAssumption ==
  /\ WordBits \in Nat /\ WordBits > 3
  /\ Rounds \in Nat /\ Rounds >= 16
  /\ K \in [1..Rounds -> 0..(2^WordBits - 1)]

Bits == 1..WordBits

\* One gate for every bit of a word.
XorBits(x, y) == [i \in DOMAIN x |-> (x[i] + y[i]) % 2]
AndBits(x, y) == [i \in DOMAIN x |-> x[i] * y[i]]
NotBits(x) == [i \in DOMAIN x |-> 1 - x[i]]

\* Rotation and shift rename wires; a shift and a constant use the wires that are
\* always 0 and always 1.
Rotr(x, n) == [i \in Bits |-> x[((i - 1 + WordBits - (n % WordBits)) % WordBits) + 1]]
Shr(x, n) == [i \in Bits |-> IF i > n THEN x[i - n] ELSE 0]
Constant(value) == [i \in Bits |-> (value \div 2^(WordBits - i)) % 2]

\* Mutant: the carry out of a full adder forgets the carry into it.
AddForgetsCarry(x, y) ==
  [i \in Bits |-> (x[i] + y[i] + (IF i = WordBits THEN 0 ELSE x[i + 1] * y[i + 1])) % 2]

\* add_u32: a half adder for the lowest bit, a full adder for each bit above it.
\* from[i] holds the sum's bits from i on and the carry out of bit i.
Add(x, y) ==
  LET from[i \in Bits] ==
        LET t1 == (x[i] + y[i]) % 2
            low == from[i + 1]
        IN IF i = WordBits THEN [word |-> <<t1>>, carry |-> x[i] * y[i]]
           ELSE [word |-> <<(t1 + low.carry) % 2>> \o low.word,
                 carry |-> (x[i] * y[i] + t1 * low.carry) % 2]
  IN from[1].word

Xor3(x, y, z) == XorBits(XorBits(x, y), z)
BigSigma0(x) == Xor3(Rotr(x, 2), Rotr(x, 13), Rotr(x, 22))
BigSigma1(x) == Xor3(Rotr(x, 6), Rotr(x, 11), Rotr(x, 25))
SmallSigma0(x) == Xor3(Rotr(x, 7), Rotr(x, 18), Shr(x, 3))
SmallSigma1(x) == Xor3(Rotr(x, 17), Rotr(x, 19), Shr(x, 10))
Ch(x, y, z) == XorBits(AndBits(x, y), AndBits(NotBits(x), z))
Maj(x, y, z) == Xor3(AndBits(x, y), AndBits(x, z), AndBits(y, z))

\* build_compression: the next word of the message schedule ...
ScheduleWord(w) ==
  LET i == Len(w) + 1 IN
  Add(Add(SmallSigma1(w[i - 2]), w[i - 7]), Add(SmallSigma0(w[i - 15]), w[i - 16]))

\* ... one round over the working variables a .. h ...
Round(v, k, w) ==
  LET t1 == Add(Add(Add(Add(v[8], BigSigma1(v[5])), Ch(v[5], v[6], v[7])), Constant(k)), w)
      t2 == Add(BigSigma0(v[1]), Maj(v[1], v[2], v[3]))
  IN <<Add(t1, t2), v[1], v[2], v[3], Add(v[4], t1), v[5], v[6], v[7]>>

\* ... and the output wires, again at the end of the file, where its readers look
\* for them.
FinalWords(v, h) == FlattenSeq([j \in 1..8 |-> Add(v[j], h[j])])

-----------------------------------------------------------------------------
(* FIPS 180-4, sections 4.1.2 and 6.2.2, over numbers.                     *)

Mod == 2^WordBits
RotrNat(x, n) == LET m == 2^(n % WordBits) IN x \div m + (x % m) * (Mod \div m)
ShrNat(x, n) == x \div 2^n
Sum(s) == FoldLeft(LAMBDA n, x : (n + x) % Mod, 0, s)

\* The rounds t = lo .. hi: the range is halved, so that no evaluation goes deep.
Fips180(iv, block) ==
  LET round(s, t) ==
        LET a == s.v
            W == IF t <= 16 THEN block[t] ELSE Sum(<<
                   (RotrNat(s.w[t - 2], 17) ^^ RotrNat(s.w[t - 2], 19)) ^^ ShrNat(s.w[t - 2], 10),
                   s.w[t - 7],
                   (RotrNat(s.w[t - 15], 7) ^^ RotrNat(s.w[t - 15], 18)) ^^ ShrNat(s.w[t - 15], 3),
                   s.w[t - 16] >>)
            T1 == Sum(<< a[8], (RotrNat(a[5], 6) ^^ RotrNat(a[5], 11)) ^^ RotrNat(a[5], 25),
                         (a[5] & a[6]) ^^ ((Mod - 1 - a[5]) & a[7]), K[t], W >>)
            T2 == Sum(<< (RotrNat(a[1], 2) ^^ RotrNat(a[1], 13)) ^^ RotrNat(a[1], 22),
                         ((a[1] & a[2]) ^^ (a[1] & a[3])) ^^ (a[2] & a[3]) >>)
        IN [v |-> <<Sum(<<T1, T2>>), a[1], a[2], a[3], Sum(<<a[4], T1>>), a[5], a[6], a[7]>>,
            w |-> Append(s.w, W)]
      run[s \in [v : Seq(Nat), w : Seq(Nat)], lo \in 1..Rounds, hi \in 1..Rounds] ==
        LET mid == (lo + hi) \div 2 IN
        IF lo = hi THEN round(s, lo) ELSE run[run[s, lo, mid], mid + 1, hi]
      end == run[[v |-> iv, w |-> <<>>], 1, Rounds].v
  IN [j \in 1..8 |-> Sum(<<iv[j], end[j]>>)]
=============================================================================
