-------------------------- MODULE GcmRecordProof --------------------------
(***************************************************************************)
(* Theorems about GcmRecord for every block size, every length of payload  *)
(* and additional data, and every set of sequence numbers.                 *)
(***************************************************************************)
EXTENDS GcmRecord, SequenceTheorems, TLAPS

-----------------------------------------------------------------------------
(* Positions: byte i of a string is byte j of block k.                     *)

\* A larger quotient is larger by a whole block.
LEMMA NextBlock ==
  ASSUME NEW b \in Nat, NEW x \in Nat, NEW y \in Nat, x < y
  PROVE  /\ x * b \in Nat /\ y * b \in Nat
         /\ (x * b) + b <= y * b
<1>1. PICK d \in Nat : y = x + 1 + d
  <2>1. y = x + 1 + (y - x - 1) /\ y - x - 1 \in Nat
    OBVIOUS
  <2> QED
    BY <2>1
<1>2. (x + 1 + d) * b = (x * b) + b + (d * b)
  OBVIOUS
<1>3. x * b \in Nat /\ d * b \in Nat /\ y * b \in Nat
  OBVIOUS
<1> QED
  BY <1>1, <1>2, <1>3

\* Quotient and remainder, as the block loops of aes.rs use them.
LEMMA DivMod ==
  ASSUME NEW a \in Nat, NEW b \in Nat \ {0}
  PROVE  /\ a \div b \in Nat
         /\ (a % b) \in 0..(b - 1)
         /\ a = ((a \div b) * b) + (a % b)
<1>1. a \div b \in Nat
  OBVIOUS
<1>2. (a % b) \in 0..(b - 1)
  OBVIOUS
<1>3. a = (b * (a \div b)) + (a % b)
  OBVIOUS
<1>4. b * (a \div b) = (a \div b) * b
  BY <1>1
<1> QED
  BY <1>1, <1>2, <1>3, <1>4

\* They are the only ones.
LEMMA DivModUnique ==
  ASSUME NEW b \in Nat \ {0}, NEW q \in Nat, NEW r \in 0..(b - 1)
  PROVE  ((q * b) + r) \div b = q /\ ((q * b) + r) % b = r
<1> DEFINE a == (q * b) + r
           p == a \div b
           s == a % b
<1>1. q * b \in Nat /\ a \in Nat
  OBVIOUS
<1>2. p \in Nat /\ s \in 0..(b - 1) /\ a = (p * b) + s
  <2> HIDE DEF a
  <2> QED
    BY <1>1, DivMod
<1>3. p * b \in Nat
  <2> HIDE DEF p, a
  <2> QED
    BY <1>2
<1> HIDE DEF p, s
<1>4. ~(q < p)
  <2> SUFFICES ASSUME q < p PROVE FALSE
    OBVIOUS
  <2>1. (q * b) + b <= p * b
    BY <1>2, NextBlock
  <2> QED
    BY <2>1, <1>1, <1>2, <1>3
<1>5. ~(p < q)
  <2> SUFFICES ASSUME p < q PROVE FALSE
    OBVIOUS
  <2>1. (p * b) + b <= q * b
    BY <1>2, NextBlock
  <2> QED
    BY <2>1, <1>1, <1>2, <1>3
<1>6. p = q
  BY <1>2, <1>4, <1>5
<1>7. s = r
  BY <1>1, <1>2, <1>3, <1>6
<1> QED
  BY <1>6, <1>7 DEF p, s

\* As many blocks as the last byte's block has number, none for nothing.
LEMMA BlockCount ==
  /\ Blocks(0) = 0
  /\ \A n \in Nat \ {0} : Blocks(n) = ((n - 1) \div BlockBytes) + 1
<1> BlockBytes \in Nat \ {0}
  BY GcmAssumption
<1>1. Blocks(0) = 0
  <2>1. 0 * BlockBytes = 0 /\ BlockBytes - 1 \in 0..(BlockBytes - 1)
    OBVIOUS
  <2>2. ((0 * BlockBytes) + (BlockBytes - 1)) \div BlockBytes = 0
    BY <2>1, DivModUnique
  <2>3. (0 * BlockBytes) + (BlockBytes - 1) = 0 + BlockBytes - 1
    BY <2>1
  <2> QED
    BY <2>2, <2>3 DEF Blocks
<1>2. ASSUME NEW n \in Nat \ {0}
      PROVE  Blocks(n) = ((n - 1) \div BlockBytes) + 1
  <2> DEFINE q == (n - 1) \div BlockBytes
             r == (n - 1) % BlockBytes
  <2>1. q \in Nat /\ r \in 0..(BlockBytes - 1) /\ n - 1 = (q * BlockBytes) + r
    <3>1. n - 1 \in Nat
      OBVIOUS
    <3> QED
      BY <3>1, DivMod
  <2> HIDE DEF q, r
  <2>2. (q + 1) * BlockBytes = (q * BlockBytes) + BlockBytes /\ q * BlockBytes \in Nat
    BY <2>1
  <2>3. n + BlockBytes - 1 = ((q + 1) * BlockBytes) + r
    BY <2>1, <2>2
  <2>4. (((q + 1) * BlockBytes) + r) \div BlockBytes = q + 1
    BY <2>1, DivModUnique
  <2> QED
    BY <2>3, <2>4 DEF Blocks, q
<1> QED
  BY <1>1, <1>2

LEMMA BlocksNat == \A n \in Nat : Blocks(n) \in Nat
<1> BlockBytes \in Nat \ {0}
  BY GcmAssumption
<1> TAKE n \in Nat
<1>1. CASE n = 0
  BY <1>1, BlockCount
<1>2. CASE n # 0
  <2>1. n - 1 \in Nat
    BY <1>2
  <2>2. (n - 1) \div BlockBytes \in Nat
    BY <2>1, DivMod
  <2> QED
    BY <1>2, <2>2, BlockCount
<1> QED
  BY <1>1, <1>2

\* Position i of n lies in byte j of block k.
LEMMA PositionBlock ==
  ASSUME NEW n \in Nat, NEW i \in 1..n
  PROVE  LET k == ((i - 1) \div BlockBytes) + 1
             j == ((i - 1) % BlockBytes) + 1
         IN  k \in 1..Blocks(n) /\ j \in 1..BlockBytes /\ ((k - 1) * BlockBytes) + j = i
<1> BlockBytes \in Nat \ {0}
  BY GcmAssumption
<1> DEFINE q == (i - 1) \div BlockBytes
           r == (i - 1) % BlockBytes
           p == (n - 1) \div BlockBytes
           s == (n - 1) % BlockBytes
<1>1. i - 1 \in Nat /\ n - 1 \in Nat /\ n # 0
  OBVIOUS
<1>2. q \in Nat /\ r \in 0..(BlockBytes - 1) /\ i - 1 = (q * BlockBytes) + r
  BY <1>1, DivMod
<1>3. p \in Nat /\ s \in 0..(BlockBytes - 1) /\ n - 1 = (p * BlockBytes) + s
  BY <1>1, DivMod
<1>4. Blocks(n) = p + 1
  BY <1>1, BlockCount
<1> HIDE DEF q, r, p, s
<1>5. q * BlockBytes \in Nat /\ p * BlockBytes \in Nat
  BY <1>2, <1>3
<1>6. ~(p < q)
  <2> SUFFICES ASSUME p < q PROVE FALSE
    OBVIOUS
  <2>1. (p * BlockBytes) + BlockBytes <= q * BlockBytes
    BY <1>2, <1>3, NextBlock
  <2> QED
    BY <2>1, <1>2, <1>3, <1>5
<1>7. q + 1 \in 1..Blocks(n) /\ r + 1 \in 1..BlockBytes
  BY <1>2, <1>3, <1>4, <1>6
<1>8. (((q + 1) - 1) * BlockBytes) + (r + 1) = i
  <2>1. (q + 1) - 1 = q
    BY <1>2
  <2> QED
    BY <2>1, <1>2, <1>5
<1> QED
  BY <1>7, <1>8 DEF q, r

\* Byte j of block k is position (k - 1) * BlockBytes + j, and no other.
LEMMA BlockPosition ==
  ASSUME NEW k \in Nat \ {0}, NEW j \in 1..BlockBytes
  PROVE  LET i == ((k - 1) * BlockBytes) + j
         IN  /\ i \in Nat \ {0}
             /\ ((i - 1) \div BlockBytes) + 1 = k
             /\ ((i - 1) % BlockBytes) + 1 = j
<1> BlockBytes \in Nat \ {0}
  BY GcmAssumption
<1> DEFINE m == k - 1
           i == (m * BlockBytes) + j
<1>1. m \in Nat /\ k = m + 1 /\ j - 1 \in 0..(BlockBytes - 1)
  OBVIOUS
<1> HIDE DEF m
<1>2. m * BlockBytes \in Nat
  BY <1>1
<1>3. i \in Nat \ {0} /\ i - 1 = (m * BlockBytes) + (j - 1)
  BY <1>2
<1>4. ((m * BlockBytes) + (j - 1)) \div BlockBytes = m
      /\ ((m * BlockBytes) + (j - 1)) % BlockBytes = j - 1
  BY <1>1, DivModUnique
<1>5. (i - 1) \div BlockBytes = m /\ (i - 1) % BlockBytes = j - 1
  BY <1>3, <1>4
<1> HIDE DEF i
<1>6. (((i - 1) \div BlockBytes) + 1) = k /\ (((i - 1) % BlockBytes) + 1) = j
  BY <1>1, <1>5
<1> QED
  BY <1>3, <1>6 DEF i, m

\* The bytes of a padded block that are in the string (valid_bytes of aes.rs).
LEMMA ValidBytes ==
  ASSUME NEW n \in Nat, NEW k \in 1..Blocks(n), NEW j \in 1..BlockBytes
  PROVE  j <= Valid(n, k) <=> ((k - 1) * BlockBytes) + j <= n
<1> BlockBytes \in Nat \ {0}
  BY GcmAssumption
<1>1. n # 0
  BY BlockCount
<1> DEFINE p == (n - 1) \div BlockBytes
           s == (n - 1) % BlockBytes
           m == k - 1
<1>2. p \in Nat /\ s \in 0..(BlockBytes - 1) /\ n - 1 = (p * BlockBytes) + s
  <2>1. n - 1 \in Nat
    BY <1>1
  <2> QED
    BY <2>1, DivMod
<1>3. Blocks(n) = p + 1
  BY <1>1, BlockCount
<1>4. m \in Nat /\ k = m + 1
  BY <1>2, <1>3
<1>5. Valid(n, k) = IF k = p + 1 THEN s + 1 ELSE BlockBytes
  BY <1>3 DEF Valid
<1> HIDE DEF p, s, m
<1>6. m * BlockBytes \in Nat /\ p * BlockBytes \in Nat
  BY <1>2, <1>4
<1>7. CASE k = p + 1
  <2>1. m = p
    BY <1>7, <1>2, <1>4
  <2>2. j <= s + 1 <=> (p * BlockBytes) + j <= n
    BY <1>2, <1>6
  <2> QED
    BY <2>1, <2>2, <1>5, <1>7 DEF m
<1>8. CASE k # p + 1
  <2>1. m < p
    BY <1>8, <1>2, <1>3, <1>4
  <2>2. (m * BlockBytes) + BlockBytes <= p * BlockBytes
    BY <2>1, <1>2, <1>4, NextBlock
  <2>3. (m * BlockBytes) + j <= n
    BY <2>2, <1>2, <1>6
  <2>4. j <= BlockBytes
    OBVIOUS
  <2> QED
    BY <2>3, <2>4, <1>5, <1>8 DEF m
<1> QED
  BY <1>7, <1>8

-----------------------------------------------------------------------------
(* Shares: what the parties' shares of a byte and of a block add up to.    *)

BlockSet == [1..BlockBytes -> Byte]

\* A mask that is added twice is gone.
LEMMA MasksCancel ==
  ASSUME NEW x, NEW m, NEW e
  PROVE  /\ Plus(x, {}) = x /\ Plus({}, x) = x
         /\ Plus(m, Plus(m, e)) = e
         /\ Plus(Plus(x, Plus(m, e)), m) = Plus(x, e)
<1>1. Plus(x, {}) = x /\ Plus({}, x) = x
  BY DEF Plus
<1>2. Plus(m, Plus(m, e)) = e
  BY DEF Plus
<1>3. Plus(Plus(x, Plus(m, e)), m) = Plus(x, e)
  BY DEF Plus
<1> QED
  BY <1>1, <1>2, <1>3

\* Adding two blocks yields a block; adding zeros changes nothing.
LEMMA BlockSums ==
  /\ Zero \in BlockSet
  /\ \A a, b \in BlockSet : Xor(a, b) \in BlockSet
  /\ \A a \in BlockSet : Xor(a, Zero) = a /\ Xor(Zero, a) = a
<1>1. Zero \in BlockSet
  BY DEF Zero, BlockSet, Byte
<1>2. ASSUME NEW a \in BlockSet, NEW b \in BlockSet PROVE Xor(a, b) \in BlockSet
  <2>1. ASSUME NEW j \in 1..BlockBytes PROVE Plus(a[j], b[j]) \in Byte
    <3>1. a[j] \in Byte /\ b[j] \in Byte
      BY DEF BlockSet
    <3> QED
      BY <3>1 DEF Plus, Byte
  <2> QED
    BY <2>1 DEF Xor, BlockSet
<1>3. ASSUME NEW a \in BlockSet PROVE Xor(a, Zero) = a /\ Xor(Zero, a) = a
  <2>1. a = [j \in 1..BlockBytes |-> a[j]]
    BY DEF BlockSet
  <2>2. \A j \in 1..BlockBytes : Plus(a[j], {}) = a[j] /\ Plus({}, a[j]) = a[j]
    BY MasksCancel
  <2>3. Xor(a, Zero) = [j \in 1..BlockBytes |-> a[j]]
    BY <2>2 DEF Xor, Zero
  <2>4. Xor(Zero, a) = [j \in 1..BlockBytes |-> a[j]]
    BY <2>2 DEF Xor, Zero
  <2> QED
    BY <2>1, <2>3, <2>4
<1> QED
  BY <1>1, <1>2, <1>3

\* Symbols are blocks.
LEMMA SymBlock ==
  ASSUME NEW name \in Names, NEW seq \in Nat, NEW k \in Nat
  PROVE  Sym(name, seq, k) \in BlockSet
<1> BlockBytes \in Nat
  BY GcmAssumption
<1>1. ASSUME NEW j \in 1..BlockBytes PROVE {<<name, seq, k, j>>} \in Byte
  BY DEF Byte
<1> QED
  BY <1>1 DEF Sym, BlockSet

\* A two-party AES run leaves each party a block, and the two add up to the cipher.
LEMMA AesShares ==
  ASSUME NEW name \in {"H", "E"}, NEW seq \in Nat, NEW k \in Nat
  PROVE  /\ Aes(name, seq, k).n \in BlockSet
         /\ Aes(name, seq, k).c = Xor(Aes(name, seq, k).n, Sym(name, seq, k))
         /\ Aes(name, seq, k).c \in BlockSet
         /\ Xor(Aes(name, seq, k).n, Aes(name, seq, k).c) = Sym(name, seq, k)
<1> DEFINE m == Sym("mask " \o name, seq, k)
           e == Sym(name, seq, k)
<1>1. m \in BlockSet
  <2>1. "mask " \o name \in Names
    BY DEF Names
  <2> QED
    BY <2>1, SymBlock
<1>2. e \in BlockSet
  <2>1. name \in Names
    BY DEF Names
  <2> QED
    BY <2>1, SymBlock
<1>3. Aes(name, seq, k).n = m /\ Aes(name, seq, k).c = Xor(m, e)
  BY DEF Aes
<1> HIDE DEF m, e
<1>4. Xor(m, Xor(m, e)) = e
  <2>1. \A j \in 1..BlockBytes : Plus(m[j], Plus(m[j], e[j])) = e[j]
    BY MasksCancel
  <2>2. e = [j \in 1..BlockBytes |-> e[j]]
    BY <1>2 DEF BlockSet
  <2>3. Xor(m, Xor(m, e)) = [j \in 1..BlockBytes |-> e[j]]
    BY <2>1 DEF Xor
  <2> QED
    BY <2>2, <2>3
<1>5. Xor(m, e) \in BlockSet
  BY <1>1, <1>2, BlockSums
<1> QED
  BY <1>1, <1>3, <1>4, <1>5 DEF e

-----------------------------------------------------------------------------
(* Strings of blocks.                                                      *)

\* Additional data, payload and lengths, one behind the other.
Strung(a, b, l) == a \o b \o <<l>>

\* a is at the places up to p of t, b at the q behind them, l comes last.
Placed(t, a, p, b, q, l) ==
  /\ t \in Seq(BlockSet) /\ Len(t) = p + q + 1
  /\ \A k \in 1..p : t[k] = a[k]
  /\ \A k \in 1..q : t[p + k] = b[k]
  /\ t[p + q + 1] = l

\* What is at which place of two strings and a last block.
LEMMA Parts ==
  ASSUME NEW a \in Seq(BlockSet), NEW b \in Seq(BlockSet), NEW l \in BlockSet
  PROVE  Placed(Strung(a, b, l), a, Len(a), b, Len(b), l)
<1> DEFINE c == a \o b
           last == <<l>>
           t == c \o last
<1>1. c \in Seq(BlockSet) /\ Len(c) = Len(a) + Len(b)
      /\ \A k \in 1..(Len(a) + Len(b)) : c[k] = IF k <= Len(a) THEN a[k] ELSE b[k - Len(a)]
  BY ConcatProperties
<1>2. Len(a) \in Nat /\ Len(b) \in Nat
  OBVIOUS
<1>3. last \in Seq(BlockSet) /\ Len(last) = 1 /\ last[1] = l
  OBVIOUS
<1> HIDE DEF c, last
<1>4. t \in Seq(BlockSet) /\ Len(t) = Len(c) + Len(last)
      /\ \A k \in 1..(Len(c) + Len(last)) : t[k] = IF k <= Len(c) THEN c[k] ELSE last[k - Len(c)]
  <2>1. c \in Seq(BlockSet) /\ last \in Seq(BlockSet)
    BY <1>1, <1>3
  <2> QED
    BY <2>1, ConcatProperties
<1> HIDE DEF t
<1>5. Len(t) = Len(a) + Len(b) + 1
  BY <1>1, <1>3, <1>4
<1>6. \A k \in 1..(Len(a) + Len(b)) : t[k] = c[k]
  BY <1>1, <1>2, <1>3, <1>4
<1>7. ASSUME NEW k \in 1..Len(a) PROVE t[k] = a[k]
  BY <1>1, <1>2, <1>6
<1>8. ASSUME NEW k \in 1..Len(b) PROVE t[Len(a) + k] = b[k]
  <2>1. Len(a) + k \in 1..(Len(a) + Len(b)) /\ ~(Len(a) + k <= Len(a)) /\ (Len(a) + k) - Len(a) = k
    BY <1>2
  <2> QED
    BY <2>1, <1>1, <1>6
<1>9. t[Len(a) + Len(b) + 1] = l
  <2> DEFINE i == Len(a) + Len(b) + 1
  <2>1. i \in 1..(Len(c) + Len(last)) /\ ~(i <= Len(c)) /\ i - Len(c) = 1
    BY <1>1, <1>2, <1>3
  <2> QED
    BY <2>1, <1>3, <1>4
<1> QED
  BY <1>4, <1>5, <1>7, <1>8, <1>9 DEF t, c, last, Strung, Placed

\* A function on 1..n with values in S is a string of length n.
LEMMA Tabulated ==
  ASSUME NEW S, NEW n \in Nat, NEW f, f = [k \in 1..n |-> f[k]], \A k \in 1..n : f[k] \in S
  PROVE  f \in Seq(S) /\ Len(f) = n
<1>1. f \in [1..n -> S]
  OBVIOUS
<1>2. f \in Seq(S)
  BY <1>1
<1>3. DOMAIN f = 1..n
  BY <1>1
<1> QED
  BY <1>2, <1>3, LenProperties

\* A number of zero blocks.
LEMMA ZerosAre ==
  \A n \in Nat : Zeros(n) \in Seq(BlockSet) /\ Len(Zeros(n)) = n
                 /\ \A k \in 1..n : Zeros(n)[k] = Zero
<1> TAKE n \in Nat
<1> DEFINE z == Zeros(n)
<1>1. z = [k \in 1..n |-> z[k]] /\ \A k \in 1..n : z[k] = Zero
  BY DEF Zeros
<1>2. Zero \in BlockSet
  BY BlockSums
<1> HIDE DEF z
<1>3. z \in Seq(BlockSet) /\ Len(z) = n
  BY <1>1, <1>2, Tabulated
<1> QED
  BY <1>1, <1>3 DEF z

\* Zeros for two strings are the zeros for both.
LEMMA ZerosSplit ==
  ASSUME NEW p \in Nat, NEW q \in Nat
  PROVE  Zeros(p + q) = Zeros(p) \o Zeros(q)
<1>1. \A n \in Nat : Zeros(n) \in Seq(BlockSet) /\ Len(Zeros(n)) = n
                     /\ \A k \in 1..n : Zeros(n)[k] = Zero
  BY ZerosAre
<1> DEFINE a == Zeros(p)
           b == Zeros(q)
           c == Zeros(p + q)
<1>2. p + q \in Nat
  OBVIOUS
<1>3. a \in Seq(BlockSet) /\ Len(a) = p /\ \A k \in 1..p : a[k] = Zero
  BY <1>1
<1>4. b \in Seq(BlockSet) /\ Len(b) = q /\ \A k \in 1..q : b[k] = Zero
  BY <1>1
<1>5. c \in Seq(BlockSet) /\ Len(c) = p + q /\ \A k \in 1..(p + q) : c[k] = Zero
  BY <1>1, <1>2
<1> HIDE DEF a, b, c
<1>6. a \o b \in Seq(BlockSet) /\ Len(a \o b) = Len(a) + Len(b)
      /\ \A k \in 1..(Len(a) + Len(b)) : (a \o b)[k] = IF k <= Len(a) THEN a[k] ELSE b[k - Len(a)]
  BY <1>3, <1>4, ConcatProperties
<1>7. \A k \in 1..(p + q) : (a \o b)[k] = Zero
  <2> TAKE k \in 1..(p + q)
  <2>1. CASE k <= p
    <3>1. k \in 1..p
      BY <2>1
    <3> QED
      BY <3>1, <2>1, <1>3, <1>4, <1>6
  <2>2. CASE ~(k <= p)
    <3>1. k - p \in 1..q
      BY <2>2
    <3> QED
      BY <3>1, <2>2, <1>3, <1>4, <1>6
  <2> QED
    BY <2>1, <2>2
<1> DEFINE d == a \o b
<1>8. d \in Seq(BlockSet) /\ Len(d) = p + q /\ \A k \in 1..(p + q) : d[k] = Zero
  BY <1>3, <1>4, <1>6, <1>7
<1> HIDE DEF d
<1>9. c = d
  BY <1>5, <1>8, SeqEqual
<1> QED
  BY <1>9 DEF a, b, c, d

\* The lengths are one block.
LEMMA LenBlockType ==
  ASSUME NEW a \in Nat, NEW n \in Nat
  PROVE  LenBlock(a, n) \in BlockSet
<1>1. "len" \in Names
  BY DEF Names
<1>2. LenBlock(a, n) = Sym("len", a, n)
  BY DEF LenBlock, Sym
<1> QED
  BY <1>1, <1>2, SymBlock

\* A byte string cut into padded blocks.
LEMMA ChopTypes ==
  ASSUME NEW s \in Seq(Byte)
  PROVE  /\ Chop(s) \in Seq(BlockSet)
         /\ Len(Chop(s)) = Blocks(Len(s))
         /\ \A k \in 1..Blocks(Len(s)) : Chop(s)[k] = Block(s, k) /\ Block(s, k) \in BlockSet
<1> BlockBytes \in Nat \ {0}
  BY GcmAssumption
<1> DEFINE n == Len(s)
           f == Chop(s)
<1>1. n \in Nat /\ s \in [1..n -> Byte]
  BY LenProperties
<1>2. Blocks(n) \in Nat
  BY <1>1, BlocksNat
<1>3. ASSUME NEW k \in 1..Blocks(n) PROVE Block(s, k) \in BlockSet
  <2>1. ASSUME NEW j \in 1..BlockBytes
        PROVE  (IF ((k - 1) * BlockBytes) + j <= n THEN s[((k - 1) * BlockBytes) + j] ELSE {}) \in Byte
    <3> DEFINE i == ((k - 1) * BlockBytes) + j
    <3>1. i \in Nat \ {0}
      <4>1. k \in Nat \ {0}
        BY <1>2
      <4> QED
        BY <4>1, BlockPosition
    <3>2. {} \in Byte
      BY DEF Byte
    <3> HIDE DEF i, n
    <3>3. i <= n => i \in 1..n
      BY <3>1, <1>1
    <3> SUFFICES (IF i <= n THEN s[i] ELSE {}) \in Byte
      BY DEF i
    <3> QED
      BY <3>2, <3>3, <1>1
  <2>2. Block(s, k) = [j \in 1..BlockBytes |->
          IF ((k - 1) * BlockBytes) + j <= n THEN s[((k - 1) * BlockBytes) + j] ELSE {}]
    BY DEF Block
  <2> QED
    BY <2>1, <2>2 DEF BlockSet
<1>4. f = [k \in 1..Blocks(n) |-> f[k]] /\ \A k \in 1..Blocks(n) : f[k] = Block(s, k)
  BY DEF Chop
<1> HIDE DEF f, n
<1>5. f \in Seq(BlockSet) /\ Len(f) = Blocks(n)
  BY <1>2, <1>3, <1>4, Tabulated
<1> QED
  BY <1>3, <1>4, <1>5 DEF f, n

\* x and y are shares of the blocks z.
AddUp(x, y, z) ==
  /\ x \in Seq(BlockSet) /\ y \in Seq(BlockSet) /\ z \in Seq(BlockSet)
  /\ Len(x) = Len(z) /\ Len(y) = Len(z) /\ \A k \in 1..Len(z) : Xor(x[k], y[k]) = z[k]

\* A tag is over the blocks that the shares add up to, under keys without masks.
LEMMA TagFolds ==
  ASSUME NEW seq \in Nat,
         NEW a1, NEW a2, NEW a, NEW b1, NEW b2, NEW b,
         NEW l1 \in BlockSet, NEW l2 \in BlockSet, NEW l \in BlockSet,
         AddUp(a1, a2, a), AddUp(b1, b2, b), Xor(l1, l2) = l
  PROVE  Tag(Strung(a1, b1, l1), Strung(a2, b2, l2), seq)
           = [key |-> Sym("H", 0, 0), blocks |-> Strung(a, b, l), mix |-> Sym("E", seq, 1)]
<1> DEFINE p == Len(a)
           q == Len(b)
           u == Strung(a1, b1, l1)
           v == Strung(a2, b2, l2)
           t == Strung(a, b, l)
           f == [k \in 1..Len(u) |-> Xor(u[k], v[k])]
<1>. /\ a1 \in Seq(BlockSet) /\ a2 \in Seq(BlockSet) /\ a \in Seq(BlockSet)
     /\ b1 \in Seq(BlockSet) /\ b2 \in Seq(BlockSet) /\ b \in Seq(BlockSet)
  BY DEF AddUp
<1>0. /\ Len(a1) = p /\ Len(a2) = p /\ \A k \in 1..p : Xor(a1[k], a2[k]) = a[k]
      /\ Len(b1) = q /\ Len(b2) = q /\ \A k \in 1..q : Xor(b1[k], b2[k]) = b[k]
  BY DEF AddUp
<1>1. p \in Nat /\ q \in Nat
  OBVIOUS
<1>2. Placed(u, a1, p, b1, q, l1)
  BY <1>0, Parts
<1>3. Placed(v, a2, p, b2, q, l2)
  BY <1>0, Parts
<1>4. Placed(t, a, p, b, q, l)
  BY Parts
<1>5. Tag(u, v, seq) = [key |-> Sym("H", 0, 0), blocks |-> f, mix |-> Sym("E", seq, 1)]
  <2>1. Xor(HashKey.n, HashKey.c) = Sym("H", 0, 0)
    BY AesShares DEF HashKey
  <2>2. Xor(Counter(seq, 1).n, Counter(seq, 1).c) = Sym("E", seq, 1)
    BY AesShares DEF Counter
  <2> HIDE DEF u, v
  <2> QED
    BY <2>1, <2>2 DEF Tag
<1> HIDE DEF u, v, t, p, q
<1>6. Len(u) = p + q + 1 /\ Len(v) = p + q + 1 /\ Len(t) = p + q + 1
  BY <1>0, <1>2, <1>3, <1>4 DEF Placed
<1>7. ASSUME NEW k \in 1..(p + q + 1) PROVE Xor(u[k], v[k]) = t[k]
  <2>1. CASE k \in 1..p
    BY <2>1, <1>0, <1>2, <1>3, <1>4 DEF Placed
  <2>2. CASE k \notin 1..p /\ k # p + q + 1
    <3>1. PICK i \in 1..q : k = p + i
      <4>1. k - p \in 1..q /\ k = p + (k - p)
        BY <2>2, <1>1
      <4> QED
        BY <4>1
    <3>2. u[p + i] = b1[i] /\ v[p + i] = b2[i] /\ t[p + i] = b[i]
      BY <1>0, <1>2, <1>3, <1>4 DEF Placed
    <3> QED
      BY <3>1, <3>2, <1>0
  <2>3. CASE k = p + q + 1
    <3>1. u[p + q + 1] = l1 /\ v[p + q + 1] = l2 /\ t[p + q + 1] = l
      BY <1>0, <1>2, <1>3, <1>4 DEF Placed
    <3> QED
      BY <3>1, <2>3
  <2> QED
    BY <2>1, <2>2, <2>3
<1>8. f = t
  <2> DEFINE m == p + q + 1
  <2>1. m \in Nat
    BY <1>1
  <2>2. Len(u) = m /\ Len(t) = m /\ \A k \in 1..m : Xor(u[k], v[k]) = t[k]
    BY <1>6, <1>7
  <2> HIDE DEF m
  <2>3. f = [k \in 1..m |-> t[k]]
    BY <2>2
  <2>4. t \in [1..m -> BlockSet]
    BY <1>4, <2>2, LenProperties DEF Placed
  <2> QED
    BY <2>3, <2>4
<1> HIDE DEF f
<1> QED
  BY <1>5, <1>8 DEF u, v, t

\* What GHASH runs over: padded additional data, padded ciphertext, lengths.
Hashed(aad, ct) == Strung(Chop(aad), Chop(ct), LenBlock(Len(aad), Len(ct)))
GcmTag(seq, aad, ct) ==
  [key |-> Sym("H", 0, 0), blocks |-> Hashed(aad, ct), mix |-> Sym("E", seq, 1)]

\* Decrypting, the notary puts in zeros and the lengths, the client all the
\* bytes, and the tag is GCM's.
LEMMA OpenedTag ==
  ASSUME NEW r, r.seq \in Nat, r.aad \in Seq(Byte), r.ct \in Seq(Byte)
  PROVE  ExpectedTag(r) = GcmTag(r.seq, r.aad, r.ct)
<1> DEFINE s == r.seq
           aad == r.aad
           ct == r.ct
           p == Blocks(Len(aad))
           q == Blocks(Len(ct))
           len == LenBlock(Len(aad), Len(ct))
           a == Chop(aad)
           b == Chop(ct)
<1>1. Len(aad) \in Nat /\ Len(ct) \in Nat
  OBVIOUS
<1>2. p \in Nat /\ q \in Nat
  BY <1>1, BlocksNat
<1>3. a \in Seq(BlockSet) /\ Len(a) = p /\ b \in Seq(BlockSet) /\ Len(b) = q
  BY ChopTypes
<1>4. len \in BlockSet /\ Zero \in BlockSet /\ Xor(len, Zero) = len
  BY <1>1, LenBlockType, BlockSums
<1>5. ExpectedTag(r) = Tag(Zeros(p + q) \o <<len>>, Strung(a, b, Zero), s)
  BY DEF ExpectedTag, Strung
<1>6. Zeros(p + q) = Zeros(p) \o Zeros(q)
  BY <1>2, ZerosSplit
<1>7. GcmTag(s, aad, ct) = [key |-> Sym("H", 0, 0), blocks |-> Strung(a, b, len), mix |-> Sym("E", s, 1)]
  BY DEF GcmTag, Hashed
<1>8. \A n \in Nat : Zeros(n) \in Seq(BlockSet) /\ Len(Zeros(n)) = n
                     /\ \A k \in 1..n : Zeros(n)[k] = Zero
  BY ZerosAre
<1> HIDE DEF p, q, len, a, b
<1> DEFINE za == Zeros(p)
           zb == Zeros(q)
<1>9. /\ za \in Seq(BlockSet) /\ Len(za) = Len(a) /\ \A k \in 1..Len(a) : za[k] = Zero
      /\ zb \in Seq(BlockSet) /\ Len(zb) = Len(b) /\ \A k \in 1..Len(b) : zb[k] = Zero
  BY <1>2, <1>3, <1>8
<1> HIDE DEF za, zb
<1>10. AddUp(za, a, a) /\ AddUp(zb, b, b)
  <2>1. \A k \in 1..Len(a) : a[k] \in BlockSet
    BY <1>3
  <2>2. \A k \in 1..Len(b) : b[k] \in BlockSet
    BY <1>3
  <2> QED
    BY <2>1, <2>2, <1>3, <1>9, BlockSums DEF AddUp
<1>11. Tag(Strung(za, zb, len), Strung(a, b, Zero), s)
         = [key |-> Sym("H", 0, 0), blocks |-> Strung(a, b, len), mix |-> Sym("E", s, 1)]
  BY <1>4, <1>10, TagFolds
<1> QED
  BY <1>5, <1>6, <1>7, <1>11 DEF za, zb, Strung

-----------------------------------------------------------------------------
(* Strings of bytes and their blocks.                                      *)

\* Byte i of a string is in the block and at the place that Join looks it up.
LEMMA ByteInBlock ==
  ASSUME NEW s \in Seq(Byte), NEW i \in 1..Len(s)
  PROVE  /\ ((i - 1) \div BlockBytes) + 1 \in 1..Blocks(Len(s))
         /\ ((i - 1) % BlockBytes) + 1 \in 1..BlockBytes
         /\ Block(s, ((i - 1) \div BlockBytes) + 1)[((i - 1) % BlockBytes) + 1] = s[i]
<1> DEFINE k == ((i - 1) \div BlockBytes) + 1
           j == ((i - 1) % BlockBytes) + 1
           n == Len(s)
<1>1. n \in Nat
  OBVIOUS
<1>2. k \in 1..Blocks(n) /\ j \in 1..BlockBytes /\ ((k - 1) * BlockBytes) + j = i
  BY <1>1, PositionBlock
<1> HIDE DEF k, j
<1>3. Block(s, k)[j] = IF ((k - 1) * BlockBytes) + j <= Len(s)
                         THEN s[((k - 1) * BlockBytes) + j] ELSE {}
  BY <1>2 DEF Block
<1>4. Block(s, k)[j] = s[i]
  BY <1>1, <1>2, <1>3
<1> QED
  BY <1>2, <1>4 DEF k, j

\* Two strings of one length with the same blocks are the same.
LEMMA ChopTells ==
  ASSUME NEW s \in Seq(Byte), NEW t \in Seq(Byte), Len(s) = Len(t), Chop(s) = Chop(t)
  PROVE  s = t
<1>1. ASSUME NEW i \in 1..Len(s) PROVE s[i] = t[i]
  <2> DEFINE k == ((i - 1) \div BlockBytes) + 1
             j == ((i - 1) % BlockBytes) + 1
  <2>1. k \in 1..Blocks(Len(s)) /\ Block(s, k)[j] = s[i] /\ Block(t, k)[j] = t[i]
    BY ByteInBlock
  <2> HIDE DEF k, j
  <2>2. Chop(s)[k] = Block(s, k) /\ Chop(t)[k] = Block(t, k)
    BY <2>1 DEF Chop
  <2> QED
    BY <2>1, <2>2
<1> QED
  BY <1>1, SeqEqual

\* Bytes joined from blocks and cut again are the blocks, padded with zeros.
LEMMA ChopJoin ==
  ASSUME NEW n \in Nat, NEW bs \in [1..Blocks(n) -> BlockSet]
  PROVE  /\ Join(bs, n) \in Seq(Byte)
         /\ Len(Join(bs, n)) = n
         /\ \A k \in 1..Blocks(n) : Chop(Join(bs, n))[k] = ZeroPad(bs[k], n, k)
<1> DEFINE s == Join(bs, n)
<1>1. s = [i \in 1..n |-> s[i]]
      /\ \A i \in 1..n : s[i] = bs[((i - 1) \div BlockBytes) + 1][((i - 1) % BlockBytes) + 1]
  BY DEF Join
<1>2. ASSUME NEW i \in 1..n PROVE s[i] \in Byte
  <2> DEFINE k == ((i - 1) \div BlockBytes) + 1
             j == ((i - 1) % BlockBytes) + 1
  <2>1. k \in 1..Blocks(n) /\ j \in 1..BlockBytes
    BY PositionBlock
  <2>2. s[i] = bs[k][j]
    BY <1>1
  <2> HIDE DEF k, j, s
  <2> QED
    BY <2>1, <2>2 DEF BlockSet
<1> HIDE DEF s
<1>3. s \in Seq(Byte) /\ Len(s) = n
  BY <1>1, <1>2, Tabulated
<1>4. ASSUME NEW k \in 1..Blocks(n) PROVE Chop(s)[k] = ZeroPad(bs[k], n, k)
  <2>1. k \in Nat \ {0}
    BY BlocksNat
  <2>2. ASSUME NEW j \in 1..BlockBytes
        PROVE  (IF ((k - 1) * BlockBytes) + j <= n THEN s[((k - 1) * BlockBytes) + j] ELSE {})
                 = (IF j <= Valid(n, k) THEN bs[k][j] ELSE {})
    <3> DEFINE i == ((k - 1) * BlockBytes) + j
    <3>1. i \in Nat \ {0} /\ ((i - 1) \div BlockBytes) + 1 = k /\ ((i - 1) % BlockBytes) + 1 = j
      BY <2>1, BlockPosition
    <3>2. j <= Valid(n, k) <=> i <= n
      BY ValidBytes
    <3> HIDE DEF i
    <3>3. i <= n => i \in 1..n
      BY <3>1
    <3>4. i <= n => s[i] = bs[k][j]
      BY <3>1, <3>3, <1>1
    <3> SUFFICES (IF i <= n THEN s[i] ELSE {}) = (IF j <= Valid(n, k) THEN bs[k][j] ELSE {})
      BY DEF i
    <3> QED
      BY <3>2, <3>4
  <2>3. Chop(s)[k] = Block(s, k)
    BY <1>3, ChopTypes
  <2>4. Block(s, k) = [j \in 1..BlockBytes |->
          IF ((k - 1) * BlockBytes) + j <= n THEN s[((k - 1) * BlockBytes) + j] ELSE {}]
    BY <1>3 DEF Block
  <2> QED
    BY <2>2, <2>3, <2>4 DEF ZeroPad
<1> QED
  BY <1>3, <1>4 DEF s

-----------------------------------------------------------------------------
(* Sealing: what notary_encrypt_gcm and client_encrypt_gcm yield together. *)

\* Of a payload block x and its keystream block e, the shares m and y add up
\* to the ciphertext block, and padded to what GHASH is given.
CounterMode(x, e, m, y, n, k) ==
  /\ Xor(y, m) = Xor(x, e)
  /\ Xor(y, m) \in BlockSet
  /\ ZeroPad(m, n, k) \in BlockSet /\ ZeroPad(y, n, k) \in BlockSet
  /\ Xor(ZeroPad(m, n, k), ZeroPad(y, n, k)) = ZeroPad(Xor(y, m), n, k)

\* They do whatever the notary's mask m is.
LEMMA BlockSealed ==
  ASSUME NEW x \in BlockSet, NEW m \in BlockSet, NEW e \in BlockSet,
         NEW n \in Nat, NEW k \in Nat
  PROVE  CounterMode(x, e, m, Xor(x, Xor(m, e)), n, k)
<1> DEFINE y == Xor(x, Xor(m, e))
<1>1. \A j \in 1..BlockBytes : y[j] = Plus(x[j], Plus(m[j], e[j]))
  BY DEF Xor
<1>2. y \in BlockSet /\ Xor(y, m) \in BlockSet
  BY BlockSums
<1> HIDE DEF y
<1>3. Xor(y, m) = Xor(x, e)
  <2>1. \A j \in 1..BlockBytes : Plus(Plus(x[j], Plus(m[j], e[j])), m[j]) = Plus(x[j], e[j])
    BY MasksCancel
  <2>2. Xor(y, m) = [j \in 1..BlockBytes |-> Plus(y[j], m[j])]
        /\ Xor(x, e) = [j \in 1..BlockBytes |-> Plus(x[j], e[j])]
    BY DEF Xor
  <2> QED
    BY <1>1, <2>1, <2>2
<1>4. ASSUME NEW z \in BlockSet PROVE ZeroPad(z, n, k) \in BlockSet
  <2>1. \A j \in 1..BlockBytes : z[j] \in Byte /\ {} \in Byte
    BY DEF BlockSet, Byte
  <2> QED
    BY <2>1 DEF ZeroPad, BlockSet
<1>5. Xor(ZeroPad(m, n, k), ZeroPad(y, n, k)) = ZeroPad(Xor(y, m), n, k)
  <2>1. \A j \in 1..BlockBytes : Plus(m[j], y[j]) = Plus(y[j], m[j]) /\ Plus({}, {}) = {}
    BY DEF Plus
  <2>2. \A j \in 1..BlockBytes : Xor(y, m)[j] = Plus(y[j], m[j])
    BY DEF Xor
  <2>3. Xor(ZeroPad(m, n, k), ZeroPad(y, n, k))
          = [j \in 1..BlockBytes |-> Plus(IF j <= Valid(n, k) THEN m[j] ELSE {},
                                          IF j <= Valid(n, k) THEN y[j] ELSE {})]
    BY DEF Xor, ZeroPad
  <2>4. ZeroPad(Xor(y, m), n, k)
          = [j \in 1..BlockBytes |-> IF j <= Valid(n, k) THEN Xor(y, m)[j] ELSE {}]
    BY DEF ZeroPad
  <2> QED
    BY <2>1, <2>2, <2>3, <2>4
<1> QED
  BY <1>2, <1>3, <1>4, <1>5 DEF CounterMode, y

\* r is the payload under counters 2, 3, ... with GCM's tag over additional data
\* and ciphertext.
IsSealed(r, seq, aad, pt) ==
  /\ r = [seq |-> seq, aad |-> aad, ct |-> r.ct, tag |-> GcmTag(seq, aad, r.ct)]
  /\ r.ct \in Seq(Byte) /\ Len(r.ct) = Len(pt)
  /\ \A i \in 1..Len(pt) : r.ct[i] =
       Plus(pt[i], {<<"E", seq, ((i - 1) \div BlockBytes) + 2, ((i - 1) % BlockBytes) + 1>>})

\* The two halves of encryption yield such a record.
LEMMA SealIsGcm ==
  ASSUME NEW seq \in Nat, NEW aad \in Seq(Byte), NEW pt \in Seq(Byte)
  PROVE  IsSealed(Seal(seq, aad, pt), seq, aad, pt)
<1> DEFINE n == Len(pt)
           p == Blocks(Len(aad))
           q == Blocks(n)
           len == LenBlock(Len(aad), n)
           ks == [k \in 1..q |-> Counter(seq, k + 1)]
           ctC == [k \in 1..q |-> Xor(Block(pt, k), ks[k].c)]
           ct == [k \in 1..q |-> Xor(ctC[k], ks[k].n)]
           dn == [k \in 1..q |-> ZeroPad(ks[k].n, n, k)]
           dc == [k \in 1..q |-> ZeroPad(ctC[k], n, k)]
           text == Join(ct, n)
           a == Chop(aad)
           b == Chop(text)
           za == Zeros(p)
<1>1. n \in Nat /\ Len(aad) \in Nat
  OBVIOUS
<1>2. p \in Nat /\ q \in Nat
  BY <1>1, BlocksNat
<1>3. len \in BlockSet /\ Zero \in BlockSet /\ Xor(len, Zero) = len
  BY <1>1, LenBlockType, BlockSums
<1>4. Seal(seq, aad, pt) = [seq |-> seq, aad |-> aad, ct |-> text,
                            tag |-> Tag(Strung(a, dn, len), Strung(za, dc, Zero), seq)]
  BY DEF Seal, Strung
<1>5. ASSUME NEW k \in 1..q
      PROVE  /\ ct[k] = Xor(Block(pt, k), Sym("E", seq, k + 1)) /\ ct[k] \in BlockSet
             /\ dn[k] \in BlockSet /\ dc[k] \in BlockSet
             /\ Xor(dn[k], dc[k]) = ZeroPad(ct[k], n, k)
  <2>1. Block(pt, k) \in BlockSet
    BY ChopTypes
  <2>2. k \in Nat
    BY <1>2
  <2>3. ks[k] = Counter(seq, k + 1)
    OBVIOUS
  <2>4. ctC[k] = Xor(Block(pt, k), Counter(seq, k + 1).c)
    BY <2>3
  <2>5. /\ ct[k] = Xor(ctC[k], Counter(seq, k + 1).n)
        /\ dn[k] = ZeroPad(Counter(seq, k + 1).n, n, k)
        /\ dc[k] = ZeroPad(ctC[k], n, k)
    BY <2>3
  <2> DEFINE x == Block(pt, k)
             m == Counter(seq, k + 1).n
             c == Counter(seq, k + 1).c
             e == Sym("E", seq, k + 1)
  <2>6. m \in BlockSet /\ c = Xor(m, e) /\ e \in BlockSet
    <3>1. k + 1 \in Nat /\ "E" \in Names
      BY <2>2 DEF Names
    <3> QED
      BY <3>1, AesShares, SymBlock DEF Counter
  <2>7. ct[k] = Xor(Xor(x, c), m) /\ dn[k] = ZeroPad(m, n, k) /\ dc[k] = ZeroPad(Xor(x, c), n, k)
    BY <2>4, <2>5
  <2> HIDE DEF ks, ctC, ct, dn, dc, n, x, m, c, e
  <2>8. CounterMode(x, e, m, Xor(x, c), n, k)
    <3>1. x \in BlockSet
      BY <2>1 DEF x
    <3> QED
      BY <3>1, <1>1, <2>2, <2>6, BlockSealed
  <2>9. /\ ct[k] = Xor(x, e) /\ ct[k] \in BlockSet
        /\ dn[k] \in BlockSet /\ dc[k] \in BlockSet
        /\ Xor(dn[k], dc[k]) = ZeroPad(ct[k], n, k)
    BY <2>7, <2>8 DEF CounterMode
  <2> QED
    BY <2>9 DEF x, e
<1>6. ct \in [1..q -> BlockSet]
  BY <1>5
<1>7. dn = [k \in 1..q |-> dn[k]] /\ dc = [k \in 1..q |-> dc[k]]
  OBVIOUS
<1> HIDE DEF ks, ctC, ct, dn, dc
<1>8. /\ text \in Seq(Byte) /\ Len(text) = n
      /\ \A k \in 1..q : b[k] = ZeroPad(ct[k], n, k)
  <2> HIDE DEF n
  <2> QED
    BY <1>1, <1>6, ChopJoin
<1>9. ASSUME NEW i \in 1..n
      PROVE  text[i] = Plus(pt[i], {<<"E", seq, ((i - 1) \div BlockBytes) + 2,
                                       ((i - 1) % BlockBytes) + 1>>})
  <2> DEFINE k == ((i - 1) \div BlockBytes) + 1
             j == ((i - 1) % BlockBytes) + 1
  <2>1. k \in 1..q /\ j \in 1..BlockBytes /\ Block(pt, k)[j] = pt[i]
    BY ByteInBlock
  <2>2. text[i] = ct[k][j]
    BY DEF Join
  <2>3. ((i - 1) \div BlockBytes) + 2 = k + 1
    <3>1. i - 1 \in Nat /\ BlockBytes \in Nat \ {0}
      BY GcmAssumption
    <3>2. (i - 1) \div BlockBytes \in Nat
      BY <3>1, DivMod
    <3> QED
      BY <3>2
  <2> HIDE DEF k, j, text, n, q
  <2>4. ct[k] = Xor(Block(pt, k), Sym("E", seq, k + 1))
    BY <2>1, <1>5
  <2>5. Xor(Block(pt, k), Sym("E", seq, k + 1))[j] = Plus(pt[i], {<<"E", seq, k + 1, j>>})
    BY <2>1 DEF Xor, Sym
  <2>6. text[i] = Plus(pt[i], {<<"E", seq, k + 1, j>>})
    BY <2>2, <2>4, <2>5
  <2> QED
    BY <2>3, <2>6 DEF j
<1> HIDE DEF text
<1>10. a \in Seq(BlockSet) /\ Len(a) = p /\ b \in Seq(BlockSet) /\ Len(b) = q
  BY <1>8, ChopTypes
<1>11. /\ dn \in Seq(BlockSet) /\ Len(dn) = q /\ dc \in Seq(BlockSet) /\ Len(dc) = q
  BY <1>2, <1>5, <1>7, Tabulated
<1>12. za \in Seq(BlockSet) /\ Len(za) = p /\ \A k \in 1..p : za[k] = Zero
  BY <1>2, ZerosAre
<1>13. GcmTag(seq, aad, text)
         = [key |-> Sym("H", 0, 0), blocks |-> Strung(a, b, len), mix |-> Sym("E", seq, 1)]
  BY <1>8 DEF GcmTag, Hashed
<1> HIDE DEF n, p, q, len, a, b, za
<1>14. AddUp(a, za, a)
  <2>1. \A k \in 1..p : a[k] \in BlockSet
    BY <1>10
  <2> QED
    BY <2>1, <1>10, <1>12, BlockSums DEF AddUp
<1>15. AddUp(dn, dc, b)
  BY <1>5, <1>8, <1>10, <1>11 DEF AddUp
<1>16. Tag(Strung(a, dn, len), Strung(za, dc, Zero), seq)
         = [key |-> Sym("H", 0, 0), blocks |-> Strung(a, b, len), mix |-> Sym("E", seq, 1)]
  BY <1>3, <1>14, <1>15, TagFolds
<1> DEFINE r == Seal(seq, aad, pt)
<1>17. r.ct = text /\ r = [seq |-> seq, aad |-> aad, ct |-> text, tag |-> GcmTag(seq, aad, text)]
  BY <1>4, <1>13, <1>16
<1> QED
  BY <1>8, <1>9, <1>17 DEF n, IsSealed

-----------------------------------------------------------------------------
(* What a tag tells of a record, and what decryption yields.               *)

\* The tag is of one sequence number, one string of additional data and one
\* ciphertext: with any other the comparison in client_decrypt_gcm_2pc fails.
LEMMA TagTells ==
  ASSUME NEW s1, NEW s2,
         NEW a1 \in Seq(Byte), NEW c1 \in Seq(Byte),
         NEW a2 \in Seq(Byte), NEW c2 \in Seq(Byte),
         GcmTag(s1, a1, c1) = GcmTag(s2, a2, c2)
  PROVE  s1 = s2 /\ a1 = a2 /\ c1 = c2
<1> BlockBytes \in Nat \ {0}
  BY GcmAssumption
<1>1. Hashed(a1, c1) = Hashed(a2, c2) /\ Sym("E", s1, 1) = Sym("E", s2, 1)
  BY DEF GcmTag
<1>2. s1 = s2
  <2>1. 1 \in 1..BlockBytes
    OBVIOUS
  <2>2. Sym("E", s1, 1)[1] = {<<"E", s1, 1, 1>>} /\ Sym("E", s2, 1)[1] = {<<"E", s2, 1, 1>>}
    BY <2>1 DEF Sym
  <2>3. <<"E", s1, 1, 1>> = <<"E", s2, 1, 1>>
    BY <1>1, <2>2
  <2> QED
    BY <2>3
<1> DEFINE t == Hashed(a1, c1)
           x1 == Chop(a1)
           y1 == Chop(c1)
           l1 == LenBlock(Len(a1), Len(c1))
           x2 == Chop(a2)
           y2 == Chop(c2)
           l2 == LenBlock(Len(a2), Len(c2))
<1>3. /\ x1 \in Seq(BlockSet) /\ y1 \in Seq(BlockSet) /\ l1 \in BlockSet
      /\ x2 \in Seq(BlockSet) /\ y2 \in Seq(BlockSet) /\ l2 \in BlockSet
  BY ChopTypes, LenBlockType
<1>4. Len(x1) = Blocks(Len(a1)) /\ Len(y1) = Blocks(Len(c1))
      /\ Len(x2) = Blocks(Len(a2)) /\ Len(y2) = Blocks(Len(c2))
  BY ChopTypes
<1>5. t = Strung(x1, y1, l1) /\ t = Strung(x2, y2, l2)
  BY <1>1 DEF Hashed
<1> HIDE DEF t, x1, y1, x2, y2, l1, l2
<1>6. Placed(t, x1, Len(x1), y1, Len(y1), l1) /\ Placed(t, x2, Len(x2), y2, Len(y2), l2)
  BY <1>3, <1>5, Parts
<1>7. Len(x1) + Len(y1) = Len(x2) + Len(y2)
  <2> DEFINE p1 == Len(x1)
             q1 == Len(y1)
             p2 == Len(x2)
             q2 == Len(y2)
             n == Len(t)
  <2>1. n = p1 + q1 + 1 /\ n = p2 + q2 + 1
    BY <1>6 DEF Placed
  <2>2. p1 \in Nat /\ q1 \in Nat /\ p2 \in Nat /\ q2 \in Nat
    BY <1>3
  <2> HIDE DEF p1, q1, p2, q2, n
  <2>3. p1 + q1 = p2 + q2
    BY <2>1, <2>2
  <2> QED
    BY <2>3 DEF p1, q1, p2, q2
<1>8. l1 = l2
  BY <1>6, <1>7 DEF Placed
<1>9. Len(a1) = Len(a2) /\ Len(c1) = Len(c2)
  <2>1. 1 \in 1..BlockBytes
    OBVIOUS
  <2>2. l1[1] = {<<"len", Len(a1), Len(c1), 1>>} /\ l2[1] = {<<"len", Len(a2), Len(c2), 1>>}
    BY <2>1 DEF LenBlock, l1, l2
  <2>3. <<"len", Len(a1), Len(c1), 1>> = <<"len", Len(a2), Len(c2), 1>>
    BY <1>8, <2>2
  <2> QED
    BY <2>3
<1>10. x1 = x2
  <2>1. Len(x1) = Len(x2)
    BY <1>4, <1>9
  <2>2. \A k \in 1..Len(x1) : x1[k] = x2[k]
    BY <2>1, <1>6 DEF Placed
  <2> QED
    BY <2>1, <2>2, <1>3, SeqEqual
<1>11. y1 = y2
  <2>1. Len(x1) = Len(x2) /\ Len(y1) = Len(y2)
    BY <1>4, <1>9
  <2>2. \A k \in 1..Len(y1) : y1[k] = y2[k]
    BY <2>1, <1>6 DEF Placed
  <2> QED
    BY <2>1, <2>2, <1>3, SeqEqual
<1>12. a1 = a2
  BY <1>9, <1>10, ChopTells DEF x1, x2
<1>13. c1 = c2
  BY <1>9, <1>11, ChopTells DEF y1, y2
<1> QED
  BY <1>2, <1>12, <1>13

\* The strings that are sealed are byte strings.
LEMMA BytesTypes ==
  ASSUME NEW name \in {"pt", "aad"}, NEW n \in Nat
  PROVE  /\ Bytes(name, n) \in Seq(Byte) /\ Len(Bytes(name, n)) = n
         /\ \A i \in 1..n : Bytes(name, n)[i] = {<<name, 0, i, 0>>}
<1> DEFINE f == Bytes(name, n)
<1>1. f = [i \in 1..n |-> f[i]] /\ \A i \in 1..n : f[i] = {<<name, 0, i, 0>>}
  BY DEF Bytes
<1>2. name \in Names
  BY DEF Names
<1>3. ASSUME NEW i \in 1..n PROVE {<<name, 0, i, 0>>} \in Byte
  BY <1>2 DEF Byte
<1> HIDE DEF f
<1>4. f \in Seq(Byte) /\ Len(f) = n
  BY <1>1, <1>3, Tabulated
<1> QED
  BY <1>1, <1>4 DEF f

\* What is known of a record as it was sealed.
LEMMA SentIs ==
  ASSUME SealedRecord
  PROVE  /\ sent = [seq |-> sent.seq, aad |-> sent.aad, ct |-> sent.ct,
                    tag |-> GcmTag(sent.seq, sent.aad, sent.ct)]
         /\ sent.seq \in Seqs /\ sent.seq \in Nat
         /\ sent.aad \in Seq(Byte) /\ sent.ct \in Seq(Byte)
         /\ \A i \in 1..Len(sent.ct) : sent.ct[i] =
              {<<"pt", 0, i, 0>>,
               <<"E", sent.seq, ((i - 1) \div BlockBytes) + 2, ((i - 1) % BlockBytes) + 1>>}
<1>1. PICK r \in Records : sent = Seal(r.seq, Bytes("aad", r.alen), Bytes("pt", r.plen))
  BY DEF SealedRecord, Encrypted
<1> DEFINE seq == r.seq
           aad == Bytes("aad", r.alen)
           pt == Bytes("pt", r.plen)
<1>2. seq \in Seqs /\ seq \in Nat /\ r.alen \in Nat /\ r.plen \in Nat
  <2>1. r.seq \in Seqs /\ r.alen \in 0..MaxAad /\ r.plen \in 0..MaxLen
    BY DEF Records
  <2>2. MaxAad \in Nat /\ MaxLen \in Nat /\ Seqs \subseteq Nat
    BY GcmAssumption
  <2>3. r.alen \in Nat
    BY <2>1, <2>2
  <2>4. r.plen \in Nat
    BY <2>1, <2>2
  <2> QED
    BY <2>1, <2>2, <2>3, <2>4
<1>3. aad \in Seq(Byte) /\ pt \in Seq(Byte) /\ Len(pt) = r.plen
      /\ \A i \in 1..r.plen : pt[i] = {<<"pt", 0, i, 0>>}
  BY <1>2, BytesTypes
<1> HIDE DEF aad, pt
<1> DEFINE s == Seal(seq, aad, pt)
<1>4. IsSealed(s, seq, aad, pt)
  <2> HIDE DEF seq
  <2> QED
    BY <1>2, <1>3, SealIsGcm
<1>5. sent = s
  BY <1>1 DEF aad, pt
<1> HIDE DEF s, seq
<1>6. s = [seq |-> seq, aad |-> aad, ct |-> s.ct, tag |-> GcmTag(seq, aad, s.ct)]
      /\ s.seq = seq /\ s.aad = aad /\ s.ct \in Seq(Byte) /\ Len(s.ct) = r.plen
  <2>1. s = [seq |-> seq, aad |-> aad, ct |-> s.ct, tag |-> GcmTag(seq, aad, s.ct)]
    BY <1>4 DEF IsSealed
  <2>2. s.seq = seq /\ s.aad = aad
    BY <2>1
  <2> QED
    BY <2>1, <2>2, <1>3, <1>4 DEF IsSealed
<1>7. ASSUME NEW i \in 1..Len(s.ct)
      PROVE  s.ct[i] = {<<"pt", 0, i, 0>>,
               <<"E", seq, ((i - 1) \div BlockBytes) + 2, ((i - 1) % BlockBytes) + 1>>}
  <2> DEFINE k == ((i - 1) \div BlockBytes) + 2
             j == ((i - 1) % BlockBytes) + 1
  <2>1. s.ct[i] = Plus({<<"pt", 0, i, 0>>}, {<<"E", seq, k, j>>})
    <3>1. i \in 1..Len(pt) /\ pt[i] = {<<"pt", 0, i, 0>>}
      BY <1>3, <1>6
    <3>2. s.ct[i] = Plus(pt[i], {<<"E", seq, k, j>>})
      BY <3>1, <1>4 DEF IsSealed
    <3> QED
      BY <3>1, <3>2
  <2> HIDE DEF k, j
  <2>2. <<"pt", 0, i, 0>> # <<"E", seq, k, j>>
    OBVIOUS
  <2>3. s.ct[i] = {<<"pt", 0, i, 0>>, <<"E", seq, k, j>>}
    BY <2>1, <2>2 DEF Plus
  <2> QED
    BY <2>3 DEF k, j
<1> QED
  BY <1>2, <1>3, <1>5, <1>6, <1>7 DEF seq

\* Decryption as it is written yields the keystream: both parties have added the
\* ciphertext, which cancels like a mask (client_decrypt_gcm_2pc).
LEMMA RecoveredIsKeystream ==
  ASSUME NEW r, r.seq \in Nat, r.ct \in Seq(Byte), NEW i \in 1..Len(r.ct)
  PROVE  Recovered(r)[i] =
           {<<"E", r.seq, ((i - 1) \div BlockBytes) + 2, ((i - 1) % BlockBytes) + 1>>}
<1> DEFINE ct == r.ct
           n == Len(ct)
           q == (i - 1) \div BlockBytes
           k == q + 1
           j == ((i - 1) % BlockBytes) + 1
<1>1. n \in Nat /\ i \in 1..n
  OBVIOUS
<1>2. k \in 1..Blocks(n) /\ j \in 1..BlockBytes
  <2> HIDE DEF n
  <2> QED
    BY <1>1, PositionBlock
<1>3. q \in Nat /\ k \in Nat /\ k + 1 \in Nat /\ k + 1 = q + 2
  <2>1. i - 1 \in Nat /\ BlockBytes \in Nat \ {0}
    BY GcmAssumption
  <2>2. q \in Nat
    BY <2>1, DivMod
  <2> HIDE DEF q
  <2> QED
    BY <2>2
<1> DEFINE b == Block(ct, k)
           m == Counter(r.seq, k + 1).n
           c == Counter(r.seq, k + 1).c
           e == Sym("E", r.seq, k + 1)
<1>4. Recovered(r)[i] = Xor(Xor(b, m), Xor(b, c))[j]
  <2>1. Recovered(r) = Join([x \in 1..Blocks(n) |->
          Xor(Xor(Block(ct, x), Counter(r.seq, x + 1).n), Xor(Block(ct, x), Counter(r.seq, x + 1).c))], n)
    BY DEF Recovered
  <2> HIDE DEF n
  <2>2. Recovered(r)[i] = [x \in 1..Blocks(n) |->
          Xor(Xor(Block(ct, x), Counter(r.seq, x + 1).n), Xor(Block(ct, x), Counter(r.seq, x + 1).c))][k][j]
    BY <2>1, <1>1 DEF Join
  <2> HIDE DEF k
  <2> QED
    BY <2>2, <1>2
<1>5. c = Xor(m, e)
  <2> HIDE DEF k
  <2> QED
    BY <1>3, AesShares DEF Counter
<1>6. e[j] = {<<"E", r.seq, k + 1, j>>}
  BY <1>2 DEF Sym
<1> HIDE DEF b, m, c, e, q, j, k
<1>7. Xor(Xor(b, m), Xor(b, c))[j] = Plus(Plus(b[j], m[j]), Plus(b[j], Plus(m[j], e[j])))
  BY <1>2, <1>5 DEF Xor
<1>8. Plus(Plus(b[j], m[j]), Plus(b[j], Plus(m[j], e[j]))) = e[j]
  BY DEF Plus
<1>9. Recovered(r)[i] = {<<"E", r.seq, q + 2, j>>}
  BY <1>3, <1>4, <1>6, <1>7, <1>8
<1> QED
  BY <1>9 DEF q, j

-----------------------------------------------------------------------------
(* The inductive invariant.                                                *)

\* A byte flipped is a byte.
LEMMA FlipTypes ==
  ASSUME NEW s \in Seq(Byte), NEW i \in 1..Len(s)
  PROVE  Flip(s, i) \in Seq(Byte)
<1> DEFINE f == {<<"flip", 0, 0, 0>>}
<1>1. "flip" \in Names
  BY DEF Names
<1>2. f \in Byte
  BY <1>1 DEF Byte
<1>3. s[i] \in Byte
  OBVIOUS
<1> HIDE DEF f
<1>4. Plus(s[i], f) \in Byte
  BY <1>2, <1>3 DEF Plus, Byte
<1>5. Flip(s, i) = [s EXCEPT ![i] = Plus(s[i], f)]
  BY DEF Flip, f
<1> QED
  BY <1>4, <1>5

\* Sealing puts the record on its way as it is.
LEMMA InitGcm == Init => GcmInv
<1> SUFFICES ASSUME Init PROVE GcmInv
  OBVIOUS
<1>1. SealedRecord /\ got = sent /\ stage = "sealed" /\ output = NoOutput
  BY DEF Init, SealedRecord
<1>2. /\ sent = [seq |-> sent.seq, aad |-> sent.aad, ct |-> sent.ct, tag |-> sent.tag]
      /\ sent.seq \in Seqs /\ sent.aad \in Seq(Byte) /\ sent.ct \in Seq(Byte)
  <2>1. sent = [seq |-> sent.seq, aad |-> sent.aad, ct |-> sent.ct,
                tag |-> GcmTag(sent.seq, sent.aad, sent.ct)]
    BY <1>1, SentIs
  <2>2. sent.tag = GcmTag(sent.seq, sent.aad, sent.ct)
    BY <2>1
  <2>3. sent.seq \in Seqs /\ sent.aad \in Seq(Byte) /\ sent.ct \in Seq(Byte)
    BY <1>1, SentIs
  <2> QED
    BY <2>1, <2>2, <2>3
<1>3. Arrived
  BY <1>1, <1>2 DEF Arrived
<1>4. Judged
  BY <1>1 DEF Judged
<1> QED
  BY <1>1, <1>3, <1>4 DEF GcmInv

\* One change on the way leaves a record, and a tag only if nothing else changed.
LEMMA TamperKeeps == GcmInv /\ Tamper => GcmInv'
<1> SUFFICES ASSUME GcmInv, Tamper PROVE GcmInv'
  OBVIOUS
<1>1. SealedRecord /\ Arrived /\ Judged
  BY DEF GcmInv
<1>2. stage = "sealed" /\ got = sent /\ stage' = stage /\ sent' = sent /\ output' = output
  BY DEF Tamper
<1>3. /\ got = [seq |-> got.seq, aad |-> got.aad, ct |-> got.ct, tag |-> got.tag]
      /\ got.seq \in Seqs /\ got.aad \in Seq(Byte) /\ got.ct \in Seq(Byte)
  BY <1>1 DEF Arrived
<1>4. SealedRecord'
  BY <1>1, <1>2 DEF SealedRecord
<1>5. Judged'
  BY <1>1, <1>2 DEF Judged
<1>6. ASSUME NEW s \in Seq(Byte), got' = [got EXCEPT !.ct = s] PROVE Arrived'
  <2>1. got' = [seq |-> got.seq, aad |-> got.aad, ct |-> s, tag |-> got.tag]
    BY <1>3, <1>6
  <2> QED
    BY <2>1, <1>2, <1>3 DEF Arrived
<1>7. ASSUME NEW s \in Seq(Byte), got' = [got EXCEPT !.aad = s] PROVE Arrived'
  <2>1. got' = [seq |-> got.seq, aad |-> s, ct |-> got.ct, tag |-> got.tag]
    BY <1>3, <1>7
  <2> QED
    BY <2>1, <1>2, <1>3 DEF Arrived
<1>8. ASSUME \E i \in 1..Len(got.ct) : got' = [got EXCEPT !.ct = Flip(@, i)]
      PROVE  Arrived'
  BY <1>8, <1>3, <1>6, FlipTypes
<1>9. ASSUME \E i \in 1..Len(got.aad) : got' = [got EXCEPT !.aad = Flip(@, i)]
      PROVE  Arrived'
  BY <1>9, <1>3, <1>7, FlipTypes
<1>10. ASSUME \E s \in Seqs : got' = [got EXCEPT !.seq = s]
       PROVE  Arrived'
  <2>1. PICK s \in Seqs : got' = [got EXCEPT !.seq = s]
    BY <1>10
  <2>2. got' = [seq |-> s, aad |-> got.aad, ct |-> got.ct, tag |-> got.tag]
    BY <2>1, <1>3
  <2> QED
    BY <2>2, <1>2, <1>3 DEF Arrived
<1>11. ASSUME \E j \in 1..BlockBytes : got' = [got EXCEPT !.tag.mix = Flip(@, j)]
      PROVE  Arrived'
  <2>1. PICK t : got' = [got EXCEPT !.tag = t]
    BY <1>11
  <2>2. got' = [seq |-> got.seq, aad |-> got.aad, ct |-> got.ct, tag |-> t]
    BY <2>1, <1>3
  <2>3. [got' EXCEPT !.tag = sent'.tag] = sent'
    BY <2>2, <1>2, <1>3
  <2> QED
    BY <2>2, <2>3, <1>2, <1>3 DEF Arrived
<1>12. ASSUME got.ct # <<>> /\ got' = [got EXCEPT !.ct = SubSeq(@, 1, Len(@) - 1)]
      PROVE  Arrived'
  <2>1. SubSeq(got.ct, 1, Len(got.ct) - 1) \in Seq(Byte)
    <3>1. Len(got.ct) - 1 <= Len(got.ct)
      BY <1>3
    <3> QED
      BY <3>1, <1>3, SubSeqProperties
  <2> QED
    BY <2>1, <1>6, <1>12
<1>13. Arrived'
  BY <1>8, <1>9, <1>10, <1>11, <1>12 DEF Tamper
<1> QED
  BY <1>4, <1>5, <1>13 DEF GcmInv

\* The verdict of the comparison is kept with the record it was made of.
LEMMA DecryptKeeps == GcmInv /\ Decrypt => GcmInv'
<1> SUFFICES ASSUME GcmInv, Decrypt PROVE GcmInv'
  OBVIOUS
<1>1. SealedRecord /\ Arrived /\ Judged
  BY DEF GcmInv
<1>2. sent' = sent /\ got' = got
  BY DEF Decrypt
<1>3. SealedRecord' /\ Arrived'
  BY <1>1, <1>2 DEF SealedRecord, Arrived
<1>4. CASE ExpectedTag(got) = got.tag
  <2>1. stage' = "opened" /\ output' = Recovered(got)
    BY <1>4 DEF Decrypt
  <2> QED
    BY <2>1, <1>2, <1>3, <1>4 DEF GcmInv, Judged
<1>5. CASE ExpectedTag(got) # got.tag
  <2>1. stage = "sealed" /\ stage' = "rejected" /\ output' = output
    BY <1>5 DEF Decrypt
  <2> QED
    BY <2>1, <1>1, <1>2, <1>3, <1>5 DEF GcmInv, Judged
<1> QED
  BY <1>4, <1>5

\* What seal (aes.rs) fixes about the record, what may become of it on its way and what
\* open makes of it, kept by every step; the theorems below rest on it.
LEMMA GcmInductive == Spec => []GcmInv
<1>1. GcmInv /\ [Next]_vars => GcmInv'
  <2> SUFFICES ASSUME GcmInv, [Next]_vars PROVE GcmInv'
    OBVIOUS
  <2>1. CASE UNCHANGED vars
    BY <2>1 DEF GcmInv, SealedRecord, Arrived, Judged, vars
  <2> QED
    BY <2>1, TamperKeeps, DecryptKeeps DEF Next
<1> QED
  BY <1>1, InitGcm, PTL DEF Spec

-----------------------------------------------------------------------------
(* The theorems.                                                           *)

\* What the two halves of encryption yield is AES-GCM, for every block size,
\* payload, additional data and sequence number, with no mask left in it.
THEOREM SealsGcm == Spec => []IsGcm
<1>1. GcmInv => IsGcm
  <2> SUFFICES ASSUME GcmInv PROVE IsGcm
    OBVIOUS
  <2>1. SealedRecord
    BY DEF GcmInv
  <2>2. sent = [seq |-> sent.seq, aad |-> sent.aad, ct |-> sent.ct,
                tag |-> GcmTag(sent.seq, sent.aad, sent.ct)]
    BY <2>1, SentIs
  <2>3. sent.tag = GcmTag(sent.seq, sent.aad, sent.ct)
    BY <2>2
  <2>4. \A i \in 1..Len(sent.ct) : sent.ct[i] =
          {<<"pt", 0, i, 0>>,
           <<"E", sent.seq, ((i - 1) \div BlockBytes) + 2, ((i - 1) % BlockBytes) + 1>>}
    BY <2>1, SentIs
  <2> QED
    BY <2>3, <2>4 DEF IsGcm, GcmTag, Hashed, Strung
<1> QED
  BY <1>1, GcmInductive, PTL

\* The decrypting halves accept the record that was sealed and no other that
\* Tamper can make of it, and hand nothing out of one they reject.
THEOREM OpensIntact == Spec => []OpensExactlyIntact
<1>1. GcmInv => OpensExactlyIntact
  <2> SUFFICES ASSUME GcmInv PROVE OpensExactlyIntact
    OBVIOUS
  <2>1. SealedRecord /\ Arrived /\ Judged
    BY DEF GcmInv
  <2>2. sent = [seq |-> sent.seq, aad |-> sent.aad, ct |-> sent.ct,
                tag |-> GcmTag(sent.seq, sent.aad, sent.ct)]
    BY <2>1, SentIs
  <2>3. sent.tag = GcmTag(sent.seq, sent.aad, sent.ct)
    BY <2>2
  <2>4. sent.seq \in Nat /\ sent.aad \in Seq(Byte) /\ sent.ct \in Seq(Byte)
    BY <2>1, SentIs
  <2>5. /\ got = [seq |-> got.seq, aad |-> got.aad, ct |-> got.ct, tag |-> got.tag]
        /\ got.seq \in Nat /\ got.aad \in Seq(Byte) /\ got.ct \in Seq(Byte)
    BY <2>1, GcmAssumption DEF Arrived
  <2>6. ExpectedTag(got) = GcmTag(got.seq, got.aad, got.ct)
    BY <2>5, OpenedTag
  <2>7. ExpectedTag(sent) = sent.tag
    BY <2>3, <2>4, OpenedTag
  <2>8. ASSUME got.tag = ExpectedTag(got) PROVE got = sent
    <3>1. CASE got.tag = sent.tag
      <4>1. got.seq = sent.seq /\ got.aad = sent.aad /\ got.ct = sent.ct
        BY <3>1, <2>3, <2>4, <2>5, <2>6, <2>8, TagTells
      <4> QED
        BY <4>1, <3>1, <2>2, <2>3, <2>5
    <3>2. CASE [got EXCEPT !.tag = sent.tag] = sent
      <4>1. [got EXCEPT !.tag = sent.tag] = [seq |-> got.seq, aad |-> got.aad, ct |-> got.ct, tag |-> sent.tag]
        BY <2>5
      <4>2. got.seq = sent.seq /\ got.aad = sent.aad /\ got.ct = sent.ct
        BY <4>1, <3>2
      <4>3. got.tag = sent.tag
        BY <4>2, <2>3, <2>6, <2>8
      <4> QED
        BY <4>2, <4>3, <2>2, <2>3, <2>5
    <3> QED
      BY <3>1, <3>2, <2>1 DEF Arrived
  <2>9. stage = "opened" => got = sent
    BY <2>1, <2>8 DEF Judged
  <2>10. stage = "rejected" => got # sent /\ output = NoOutput
    BY <2>1, <2>7 DEF Judged
  <2> QED
    BY <2>9, <2>10 DEF OpensExactlyIntact
<1> QED
  BY <1>1, GcmInductive, PTL

\* What the client gets of an accepted record is the keystream and nothing of the
\* payload, for every record: why RoundTrip does not hold (aes.rs).
THEOREM OpensToKeystream ==
  Spec => [](stage = "opened" =>
    \A i \in 1..Len(sent.ct) : output[i] =
      {<<"E", sent.seq, ((i - 1) \div BlockBytes) + 2, ((i - 1) % BlockBytes) + 1>>})
<1> DEFINE Keystream == stage = "opened" =>
      \A i \in 1..Len(sent.ct) : output[i] =
        {<<"E", sent.seq, ((i - 1) \div BlockBytes) + 2, ((i - 1) % BlockBytes) + 1>>}
<1>1. GcmInv /\ OpensExactlyIntact => Keystream
  <2> SUFFICES ASSUME GcmInv, OpensExactlyIntact, stage = "opened",
                      NEW i \in 1..Len(sent.ct)
               PROVE  output[i] =
        {<<"E", sent.seq, ((i - 1) \div BlockBytes) + 2, ((i - 1) % BlockBytes) + 1>>}
    OBVIOUS
  <2>1. output = Recovered(sent)
    BY DEF GcmInv, Judged, OpensExactlyIntact
  <2>2. sent.seq \in Nat /\ sent.ct \in Seq(Byte)
    <3>1. SealedRecord
      BY DEF GcmInv
    <3> QED
      BY <3>1, SentIs
  <2> QED
    BY <2>1, <2>2, RecoveredIsKeystream
<1> HIDE DEF Keystream
<1>2. Spec => []Keystream
  BY <1>1, GcmInductive, OpensIntact, PTL
<1> QED
  BY <1>2 DEF Keystream

=============================================================================
