------------------------ MODULE GuestResponseProof ------------------------
(***************************************************************************)
(* Theorems about GuestResponse for every set of objects, every number of  *)
(* chunks and of records, and everything the host may hand over.           *)
(***************************************************************************)
EXTENDS GuestResponse, SequenceTheorems, WellFoundedInduction, TLAPS

\* Induction over the numbers, for a set of them.
LEMMA CountUp ==
  ASSUME NEW T, 0 \in T, \A n \in Nat : n \in T => n + 1 \in T
  PROVE  \A n \in Nat : n \in T
<1> DEFINE R == OpToRel(<, Nat)
           F == Nat \ T
<1> SUFFICES ASSUME F # {} PROVE FALSE
  OBVIOUS
<1>1. IsWellFoundedOn(R, Nat)
  BY NatLessThanWellFounded
<1>2. \E x \in F : \A y \in F : ~(<<y, x>> \in R)
  <2>1. F \subseteq Nat
    OBVIOUS
  <2> HIDE DEF R, F
  <2> QED
    BY <1>1, <2>1, WFMin
<1>3. PICK x \in F : \A y \in F : ~(y < x)
  BY <1>2 DEF OpToRel
<1>4. x - 1 \in Nat /\ x - 1 \notin F
  BY <1>3
<1> QED
  BY <1>4

-----------------------------------------------------------------------------
(* The bytes of an answer.                                                 *)

Bytes == Seq(Byte)

\* Concatenation, under a name of its own.
Cat(s, t) == s \o t

\* Two strings of bytes make one.
LEMMA CatTypes ==
  ASSUME NEW s \in Bytes, NEW t \in Bytes
  PROVE  Cat(s, t) \in Bytes
BY ConcatProperties DEF Bytes, Cat

\* So do three, however they are put together.
LEMMA CatAssociates ==
  ASSUME NEW s \in Bytes, NEW t \in Bytes, NEW u \in Bytes
  PROVE  Cat(Cat(s, t), u) = Cat(s, Cat(t, u))
BY ConcatAssociative DEF Bytes, Cat

\* A string with another behind it begins with it.
LEMMA CatBegins ==
  ASSUME NEW s \in Bytes, NEW t \in Bytes
  PROVE  IsPrefix(s, Cat(s, t))
<1>1. /\ Cat(s, t) \in Bytes /\ Len(Cat(s, t)) = Len(s) + Len(t)
      /\ \A i \in 1..(Len(s) + Len(t)) : Cat(s, t)[i] = IF i <= Len(s) THEN s[i] ELSE t[i - Len(s)]
  BY ConcatProperties DEF Bytes, Cat
<1>2. Len(s) \in Nat /\ Len(t) \in Nat
  BY DEF Bytes
<1> DEFINE c == Cat(s, t)
<1>3. Len(s) <= Len(c) /\ \A i \in 1..Len(s) : c[i] = s[i]
  BY <1>1, <1>2
<1>4. c \in Bytes
  BY <1>1
<1> HIDE DEF c
<1>5. SubSeq(s, 1, Len(s)) = SubSeq(c, 1, Len(s))
  BY <1>2, <1>3, <1>4 DEF Bytes
<1> QED
  BY <1>3, <1>5 DEF IsPrefix, c

\* The marks of the framing are bytes.
LEMMA MarksAreBytes ==
  /\ Crlf \in Bytes /\ <<>> \in Bytes /\ <<";">> \in Bytes /\ <<"0">> \in Bytes
  /\ <<"t">> \in Bytes /\ <<"c">> \in Bytes
<1>1. /\ "CR" \in Byte /\ "LF" \in Byte /\ ";" \in Byte /\ "t" \in Byte /\ "c" \in Byte
  BY DEF Byte
<1>2. "0" \in Byte
  <2>1. Numeral[1] = "0" /\ 1 \in 1..8
    BY DEF Numeral
  <2> QED
    BY <2>1 DEF Byte
<1>3. Crlf \in Bytes
  <2>1. \A x \in Byte, y \in Byte : <<x, y>> \in Seq(Byte)
    OBVIOUS
  <2> QED
    BY <1>1, <2>1 DEF Crlf, Bytes
<1>4. \A x \in Byte : <<x>> \in Seq(Byte)
  OBVIOUS
<1>5. <<>> \in Bytes
  BY EmptySeq DEF Bytes
<1>6. <<";">> \in Bytes /\ <<"0">> \in Bytes
  BY <1>1, <1>2, <1>4 DEF Bytes
<1>7. <<"t">> \in Bytes /\ <<"c">> \in Bytes
  BY <1>1, <1>4 DEF Bytes
<1> QED
  BY <1>3, <1>5, <1>6, <1>7

\* A chunk of at most seven bytes is framed in bytes.
LEMMA ChunkTypes ==
  ASSUME NEW d \in Bytes, Len(d) \in 0..7, NEW e \in BOOLEAN
  PROVE  Chunk(d, e) \in Bytes
<1>0. ASSUME NEW n \in 0..7 PROVE n + 1 \in 1..8
  OBVIOUS
<1> DEFINE size == <<Numeral[Len(d) + 1]>>
           ext == IF e THEN <<";">> ELSE <<>>
<1>1. size \in Bytes
  <2>1. Len(d) + 1 \in 1..8
    BY <1>0
  <2>2. Numeral[Len(d) + 1] \in Byte
    BY <2>1 DEF Byte
  <2> QED
    BY <2>2 DEF Bytes
<1>2. ext \in Bytes
  BY MarksAreBytes
<1>3. Chunk(d, e) = Cat(Cat(Cat(Cat(size, ext), Crlf), d), Crlf)
  BY DEF Chunk, Cat
<1> HIDE DEF size, ext
<1>4. Cat(size, ext) \in Bytes
  BY <1>1, <1>2, CatTypes
<1>5. Cat(Cat(size, ext), Crlf) \in Bytes
  BY <1>4, MarksAreBytes, CatTypes
<1>6. Cat(Cat(Cat(size, ext), Crlf), d) \in Bytes
  BY <1>5, CatTypes
<1> QED
  BY <1>3, <1>6, MarksAreBytes, CatTypes

\* f lists what FlattenSeq has joined after each of the first n strings of s.
JoinsUpTo(f, s, n) == f = [i \in 1..n |-> IF i = 1 THEN s[i] ELSE f[i - 1] \o s[i]]

\* There is such a list, for any number of strings.
LEMMA JoinsExist ==
  ASSUME NEW s, NEW n \in Nat
  PROVE  \E f : JoinsUpTo(f, s, n)
<1> DEFINE T == {m \in Nat : \E f : JoinsUpTo(f, s, m)}
<1>1. 0 \in T
  <2>1. JoinsUpTo([i \in 1..0 |-> s[i]], s, 0)
    BY DEF JoinsUpTo
  <2> QED
    BY <2>1
<1>2. ASSUME NEW m \in Nat, m \in T PROVE m + 1 \in T
  <2>1. PICK f : JoinsUpTo(f, s, m)
    BY <1>2
  <2> DEFINE last == IF m + 1 = 1 THEN s[m + 1] ELSE f[m] \o s[m + 1]
             g == [i \in 1..(m + 1) |-> IF i = m + 1 THEN last ELSE f[i]]
  <2>2. \A i \in 1..(m + 1) : g[i] = IF i = 1 THEN s[i] ELSE g[i - 1] \o s[i]
    <3> TAKE i \in 1..(m + 1)
    <3>1. CASE i = m + 1
      <4>1. i # 1 => m \in 1..(m + 1) /\ m # m + 1 /\ g[m] = f[m] /\ i - 1 = m
        BY <3>1
      <4> QED
        BY <3>1, <4>1
    <3>2. CASE i # m + 1
      <4>1. i \in 1..m /\ g[i] = f[i]
        BY <3>2
      <4>2. f[i] = IF i = 1 THEN s[i] ELSE f[i - 1] \o s[i]
        BY <4>1, <2>1 DEF JoinsUpTo
      <4>3. i # 1 => g[i - 1] = f[i - 1]
        BY <4>1
      <4> QED
        BY <4>1, <4>2, <4>3
    <3> QED
      BY <3>1, <3>2
  <2>3. JoinsUpTo(g, s, m + 1)
    BY <2>2 DEF JoinsUpTo
  <2> QED
    BY <2>3
<1> HIDE DEF T
<1>3. n \in T
  BY <1>1, <1>2, CountUp
<1> QED
  BY <1>3 DEF T

\* What is joined of strings, one after the other.
LEMMA FlattenStep ==
  ASSUME NEW s, Len(s) \in Nat \ {0}, \A i \in 1..Len(s) : s[i] \in Bytes
  PROVE  \E z \in [0..Len(s) -> Bytes] :
           /\ z[0] = <<>> /\ z[Len(s)] = FlattenSeq(s)
           /\ \A i \in 1..Len(s) : z[i] = Cat(z[i - 1], s[i])
<1> DEFINE N == Len(s)
           h == CHOOSE f : f = [i \in 1..N |-> IF i = 1 THEN s[i] ELSE f[i - 1] \o s[i]]
           z == [i \in 0..N |-> IF i = 0 THEN <<>> ELSE h[i]]
<1>1. \E f : f = [i \in 1..N |-> IF i = 1 THEN s[i] ELSE f[i - 1] \o s[i]]
  BY JoinsExist DEF JoinsUpTo
<1>2. h = [i \in 1..N |-> IF i = 1 THEN s[i] ELSE h[i - 1] \o s[i]]
  BY <1>1
<1>3. FlattenSeq(s) = h[N]
  BY DEF FlattenSeq
<1> HIDE DEF h
<1>4. N \in Nat \ {0}
  OBVIOUS
<1> HIDE DEF N
<1>5. z[0] = <<>> /\ \A i \in 1..N : z[i] = h[i]
  BY <1>4
<1>6. z[N] = FlattenSeq(s)
  BY <1>3, <1>4, <1>5
<1>7. ASSUME NEW i \in 1..N PROVE z[i] = Cat(z[i - 1], s[i])
  <2>1. h[i] = IF i = 1 THEN s[i] ELSE h[i - 1] \o s[i]
    BY <1>2
  <2>2. CASE i = 1
    <3>1. z[i - 1] = <<>>
      BY <1>5, <2>2
    <3>2. s[i] \in Seq(Byte)
      BY DEF Bytes, N
    <3>3. <<>> \o s[i] = s[i]
      BY <3>2, ConcatEmptySeq
    <3> QED
      BY <1>5, <2>1, <2>2, <3>1, <3>3, Zenon DEF Cat
  <2>3. CASE i # 1
    <3>1. i - 1 \in 1..N
      BY <1>4, <2>3
    <3>2. z[i - 1] = h[i - 1] /\ z[i] = h[i]
      BY <1>5, <3>1
    <3> HIDE DEF z
    <3> QED
      BY <2>1, <2>3, <3>2 DEF Cat
  <2> QED
    BY <2>2, <2>3
<1>8. z = [i \in 0..N |-> z[i]]
  OBVIOUS
<1> HIDE DEF z
<1> DEFINE T == {n \in Nat : n <= N => z[n] \in Bytes}
<1>9. 0 \in T
  BY <1>5, MarksAreBytes
<1>10. ASSUME NEW n \in Nat, n \in T PROVE n + 1 \in T
  <2> SUFFICES ASSUME n + 1 <= N PROVE z[n + 1] \in Bytes
    OBVIOUS
  <2>1. n + 1 \in 1..N /\ (n + 1) - 1 = n /\ n <= N
    BY <1>4
  <2>2. z[n] \in Bytes /\ s[n + 1] \in Bytes
    BY <1>10, <2>1 DEF N
  <2>3. z[n + 1] = Cat(z[n], s[n + 1])
    BY <1>7, <2>1
  <2> QED
    BY <2>2, <2>3, CatTypes
<1>11. \A n \in Nat : n \in T
  <2> HIDE DEF T
  <2> QED
    BY <1>9, <1>10, CountUp
<1>12. z \in [0..N -> Bytes]
  <2>1. \A n \in 0..N : z[n] \in Bytes
    BY <1>11
  <2> QED
    BY <1>8, <2>1
<1> QED
  BY <1>5, <1>6, <1>7, <1>12 DEF N

\* Strings of bytes that are joined are a string of bytes.
LEMMA FlattenTypes ==
  ASSUME NEW s, Len(s) \in Nat \ {0}, \A i \in 1..Len(s) : s[i] \in Bytes
  PROVE  FlattenSeq(s) \in Bytes
<1>1. PICK z \in [0..Len(s) -> Bytes] : z[Len(s)] = FlattenSeq(s)
  BY FlattenStep
<1>2. Len(s) \in 0..Len(s)
  OBVIOUS
<1> QED
  BY <1>1, <1>2

\* What a server answers are bytes.
LEMMA AnswerTypes == \A a \in Answers : a.raw \in Bytes
<1> SUFFICES ASSUME NEW a \in Answers PROVE a.raw \in Bytes
  OBVIOUS
<1>1. CASE \E b \in Bodies, v \in BOOLEAN : a = [body |-> b, cuts |-> <<>>, raw |-> b, above |-> v]
  BY <1>1, ResponseAssumption DEF Bytes
<1>2. CASE \E b \in Bodies : \E c \in Cuts(b) :
             a = [body |-> b, cuts |-> c, raw |-> Chunked(b, c, Len(c) = 1), above |-> TRUE]
  <2>1. PICK b \in Bodies : \E c \in Cuts(b) :
             a = [body |-> b, cuts |-> c, raw |-> Chunked(b, c, Len(c) = 1), above |-> TRUE]
    BY <1>2
  <2>2. PICK c \in Cuts(b) :
             a = [body |-> b, cuts |-> c, raw |-> Chunked(b, c, Len(c) = 1), above |-> TRUE]
    BY <2>1
  <2>3. b \in Bytes /\ Len(b) \in 1..7
    BY ResponseAssumption DEF Bytes
  <2>4. PICK n \in 1..MaxChunks : c \in [1..n -> 1..Len(b)]
    BY DEF Cuts
  <2>5. n \in Nat \ {0} /\ Len(c) = n /\ DOMAIN c = 1..n
    BY <2>4, ResponseAssumption
  <2> DEFINE e == Len(c) = 1
             d(i) == SubSeq(b, (IF i = 1 THEN 0 ELSE c[i - 1]) + 1, c[i])
             s == [i \in DOMAIN c |-> Chunk(d(i), e)]
  <2>6. e \in BOOLEAN
    OBVIOUS
  <2>7. ASSUME NEW i \in 1..n PROVE Chunk(d(i), e) \in Bytes
    <3> DEFINE p == (IF i = 1 THEN 0 ELSE c[i - 1]) + 1
               q == c[i]
    <3>1. q \in 1..Len(b)
      BY <2>4
    <3>2. p \in 1..(Len(b) + 1)
      <4>1. CASE i = 1
        BY <4>1, <2>3
      <4>2. CASE i # 1
        <5>1. i - 1 \in 1..n
          BY <2>5, <4>2
        <5>2. c[i - 1] \in 1..Len(b)
          BY <2>4, <5>1
        <5> QED
          BY <4>2, <5>2, <2>3
      <4> QED
        BY <4>1, <4>2
    <3>3. d(i) = SubSeq(b, p, q)
      OBVIOUS
    <3> HIDE DEF p, q, d
    <3>4. \A j \in p..q : b[j] \in Byte
      <4> TAKE j \in p..q
      <4>1. j \in 1..Len(b)
        BY <2>3, <3>1, <3>2
      <4> QED
        BY <2>3, <4>1, ElementOfSeq DEF Bytes
    <3>5. p \in Int /\ q \in Int
      BY <3>1, <3>2, <2>3
    <3>6. SubSeq(b, p, q) \in Seq(Byte) /\ Len(SubSeq(b, p, q)) = IF p <= q THEN q - p + 1 ELSE 0
      BY <3>4, <3>5, SubSeqProperties
    <3>7. (IF p <= q THEN q - p + 1 ELSE 0) \in 0..7
      <4>1. \A m \in 1..7 : \A x \in 1..(m + 1), y \in 1..m :
              (IF x <= y THEN y - x + 1 ELSE 0) \in 0..7
        OBVIOUS
      <4> QED
        BY <2>3, <3>1, <3>2, <4>1
    <3>8. d(i) \in Bytes /\ Len(d(i)) \in 0..7
      BY <3>3, <3>6, <3>7 DEF Bytes
    <3> HIDE DEF e
    <3> QED
      BY <2>6, <3>8, ChunkTypes
  <2>8. Len(s) = n /\ \A i \in 1..Len(s) : s[i] \in Bytes
    BY <2>5, <2>7
  <2>9. Chunked(b, c, e) = Cat(Cat(Cat(FlattenSeq(s), <<"0">>), Crlf), Crlf)
    BY DEF Chunked, Cat
  <2>10. a.raw = Chunked(b, c, e)
    BY <2>2
  <2> HIDE DEF s, e, d
  <2>11. FlattenSeq(s) \in Bytes
    BY <2>5, <2>8, FlattenTypes
  <2>12. Cat(FlattenSeq(s), <<"0">>) \in Bytes
    BY <2>11, MarksAreBytes, CatTypes
  <2>13. Cat(Cat(FlattenSeq(s), <<"0">>), Crlf) \in Bytes
    BY <2>12, MarksAreBytes, CatTypes
  <2>14. Cat(Cat(Cat(FlattenSeq(s), <<"0">>), Crlf), Crlf) \in Bytes
    BY <2>13, MarksAreBytes, CatTypes
  <2> QED
    BY <2>9, <2>10, <2>14
<1> QED
  BY <1>1, <1>2 DEF Answers

-----------------------------------------------------------------------------
(* Joined: the data of the first records.                                  *)

\* f lists what there is after each of the first n records.
AddsUpTo(f, s, n) == f = [i \in 0..n |-> IF i = 0 THEN <<>> ELSE Add(f[i - 1], s[i])]

\* There is such a list, for any records.
LEMMA AddsExist ==
  ASSUME NEW s, NEW n \in Nat
  PROVE  \E f : AddsUpTo(f, s, n)
<1> DEFINE T == {m \in Nat : \E f : AddsUpTo(f, s, m)}
<1>1. 0 \in T
  <2>1. AddsUpTo([i \in 0..0 |-> <<>>], s, 0)
    BY DEF AddsUpTo
  <2> QED
    BY <2>1
<1>2. ASSUME NEW m \in Nat, m \in T PROVE m + 1 \in T
  <2>1. PICK f : AddsUpTo(f, s, m)
    BY <1>2
  <2> DEFINE last == Add(f[m], s[m + 1])
             g == [i \in 0..(m + 1) |-> IF i = m + 1 THEN last ELSE f[i]]
  <2>2. \A i \in 0..(m + 1) : g[i] = IF i = 0 THEN <<>> ELSE Add(g[i - 1], s[i])
    <3> TAKE i \in 0..(m + 1)
    <3>1. CASE i = m + 1
      <4>1. m \in 0..(m + 1) /\ m # m + 1
        OBVIOUS
      <4>2. g[m] = f[m]
        BY <4>1
      <4>3. i # 0 /\ i - 1 = m /\ g[i] = last
        BY <3>1
      <4> HIDE DEF g
      <4> QED
        BY <3>1, <4>2, <4>3
    <3>2. CASE i # m + 1
      <4>1. i \in 0..m /\ g[i] = f[i]
        BY <3>2
      <4>2. f[i] = IF i = 0 THEN <<>> ELSE Add(f[i - 1], s[i])
        BY <2>1, <4>1 DEF AddsUpTo
      <4>3. i # 0 => g[i - 1] = f[i - 1]
        BY <4>1
      <4> QED
        BY <4>1, <4>2, <4>3
    <3> QED
      BY <3>1, <3>2
  <2>3. AddsUpTo(g, s, m + 1)
    BY <2>2 DEF AddsUpTo
  <2> QED
    BY <2>3
<1> HIDE DEF T
<1>3. n \in T
  BY <1>1, <1>2, CountUp
<1> QED
  BY <1>3 DEF T

\* One record after another.
LEMMA JoinedStep ==
  ASSUME NEW s, Len(s) \in Nat
  PROVE  /\ Joined(s)[0] = <<>>
         /\ \A i \in 1..Len(s) : Joined(s)[i] = Add(Joined(s)[i - 1], s[i])
<1> DEFINE h == CHOOSE f : f = [n \in 0..Len(s) |-> IF n = 0 THEN <<>> ELSE Add(f[n - 1], s[n])]
<1>1. \E f : f = [n \in 0..Len(s) |-> IF n = 0 THEN <<>> ELSE Add(f[n - 1], s[n])]
  <2>1. PICK f : AddsUpTo(f, s, Len(s))
    BY AddsExist
  <2> WITNESS f
  <2> QED
    BY <2>1 DEF AddsUpTo
<1>2. h = [n \in 0..Len(s) |-> IF n = 0 THEN <<>> ELSE Add(h[n - 1], s[n])]
  BY <1>1
<1>3. Joined(s) = h
  BY DEF Joined
<1> HIDE DEF h
<1>4. h[0] = <<>>
  BY <1>2
<1>5. ASSUME NEW i \in 1..Len(s) PROVE h[i] = Add(h[i - 1], s[i])
  <2>1. i \in 0..Len(s) /\ i # 0
    OBVIOUS
  <2> QED
    BY <1>2, <2>1
<1> QED
  BY <1>3, <1>4, <1>5

\* The plaintext with one more record's data is bytes, and begins with what it was.
LEMMA AddGrows ==
  ASSUME NEW t \in Bytes, NEW r \in TlsRecord
  PROVE  /\ Add(t, r) \in Bytes
         /\ IsPrefix(t, Add(t, r))
         /\ r.type = "data" => Add(t, r) = Cat(t, r.content)
         /\ r.type # "data" => Add(t, r) = t
<1>1. r.content \in Bytes
  BY DEF TlsRecord, Bytes
<1>2. r.type = "data" => Add(t, r) = Cat(t, r.content)
  BY DEF Add, Cat
<1>3. r.type # "data" => Add(t, r) = t
  BY DEF Add
<1>4. IsPrefix(t, t)
  BY DEF IsPrefix, Bytes
<1> QED
  BY <1>1, <1>2, <1>3, <1>4, CatTypes, CatBegins

\* What begins a beginning begins the whole.
LEMMA PrefixOfPrefix ==
  ASSUME NEW s \in Bytes, NEW t \in Bytes, NEW u \in Bytes, IsPrefix(s, t), IsPrefix(t, u)
  PROVE  IsPrefix(s, u)
<1> USE DEF Bytes
<1> DEFINE m == Len(s)
           n == Len(t)
           k == Len(u)
<1>1. m \in Nat /\ n \in Nat /\ k \in Nat /\ m <= n /\ n <= k
  BY DEF IsPrefix
<1>2. SubSeq(s, 1, m) = SubSeq(t, 1, m) /\ SubSeq(t, 1, n) = SubSeq(u, 1, n)
  BY DEF IsPrefix
<1>3. t = SubSeq(u, 1, n)
  BY <1>2, SubSeqFull
<1>4. \A i \in 1..n : t[i] = u[i]
  <2>1. \A i \in 1..n : u[i] \in Byte
    BY <1>1
  <2> HIDE DEF n, k
  <2>2. \A i \in 1..n : SubSeq(u, 1, n)[i] = u[i]
    BY <1>1
  <2> QED
    BY <1>3, <2>2
<1>5. SubSeq(t, 1, m) = SubSeq(u, 1, m)
  <2> HIDE DEF m, n, k
  <2>1. \A i \in 1..m : t[i] = u[i]
    BY <1>1, <1>4
  <2> QED
    BY <1>1, <2>1
<1> QED
  BY <1>1, <1>2, <1>5 DEF IsPrefix

\* The data of records is bytes.
LEMMA JoinedTypes ==
  ASSUME NEW s \in Seq(TlsRecord)
  PROVE  \A i \in 0..Len(s) : Joined(s)[i] \in Bytes
<1> DEFINE T == {n \in Nat : n <= Len(s) => Joined(s)[n] \in Bytes}
<1>0. Len(s) \in Nat
  OBVIOUS
<1>1. 0 \in T
  <2>1. Joined(s)[0] = <<>>
    BY <1>0, JoinedStep
  <2> QED
    BY <2>1, MarksAreBytes
<1>2. ASSUME NEW n \in Nat, n \in T PROVE n + 1 \in T
  <2> SUFFICES ASSUME n + 1 <= Len(s) PROVE Joined(s)[n + 1] \in Bytes
    OBVIOUS
  <2>1. n + 1 \in 1..Len(s) /\ (n + 1) - 1 = n
    BY <1>0
  <2>2. Joined(s)[n] \in Bytes
    BY <1>2, <2>1
  <2>3. s[n + 1] \in TlsRecord
    BY <2>1, ElementOfSeq
  <2>4. Joined(s)[n + 1] = Add(Joined(s)[n], s[n + 1])
    BY <1>0, <2>1, JoinedStep
  <2> QED
    BY <2>2, <2>3, <2>4, AddGrows
<1>3. \A n \in Nat : n \in T
  <2> HIDE DEF T
  <2> QED
    BY <1>1, <1>2, CountUp
<1> QED
  BY <1>0, <1>3

\* The data of the first records begins the data of all.
LEMMA JoinedPrefix ==
  ASSUME NEW s \in Seq(TlsRecord), NEW m \in 0..Len(s)
  PROVE  IsPrefix(Joined(s)[m], Joined(s)[Len(s)])
<1> DEFINE T == {d \in Nat : m + d <= Len(s) => IsPrefix(Joined(s)[m], Joined(s)[m + d])}
<1>0. Len(s) \in Nat /\ m \in Nat /\ m <= Len(s)
  OBVIOUS
<1>1. 0 \in T
  <2>1. Joined(s)[m] \in Bytes /\ m + 0 = m
    BY <1>0, JoinedTypes
  <2>2. IsPrefix(Joined(s)[m], Joined(s)[m])
    BY <2>1 DEF IsPrefix, Bytes
  <2> QED
    BY <2>1, <2>2
<1>2. ASSUME NEW d \in Nat, d \in T PROVE d + 1 \in T
  <2> SUFFICES ASSUME m + (d + 1) <= Len(s) PROVE IsPrefix(Joined(s)[m], Joined(s)[m + (d + 1)])
    OBVIOUS
  <2> DEFINE n == m + (d + 1)
  <2>1. n \in 1..Len(s) /\ n - 1 = m + d /\ m + d \in 0..Len(s) /\ n \in 0..Len(s)
    BY <1>0
  <2>2. s[n] \in TlsRecord
    BY <2>1, ElementOfSeq
  <2>3. Joined(s)[m] \in Bytes /\ Joined(s)[m + d] \in Bytes /\ Joined(s)[n] \in Bytes
    BY <2>1, JoinedTypes
  <2>4. IsPrefix(Joined(s)[m], Joined(s)[m + d])
    BY <1>2, <2>1
  <2>5. Joined(s)[n] = Add(Joined(s)[m + d], s[n])
    BY <1>0, <2>1, JoinedStep
  <2> HIDE DEF n
  <2>6. IsPrefix(Joined(s)[m + d], Joined(s)[n])
    BY <2>2, <2>3, <2>5, AddGrows
  <2>7. IsPrefix(Joined(s)[m], Joined(s)[n])
    BY <2>3, <2>4, <2>6, PrefixOfPrefix
  <2> QED
    BY <2>7 DEF n
<1>3. \A d \in Nat : d \in T
  <2> HIDE DEF T
  <2> QED
    BY <1>1, <1>2, CountUp
<1>4. Len(s) - m \in Nat /\ m + (Len(s) - m) = Len(s)
  BY <1>0
<1>5. Len(s) - m \in T
  BY <1>3, <1>4
<1> QED
  BY <1>4, <1>5

\* A later record leaves the data of the earlier ones as it is.
LEMMA JoinedAppend ==
  ASSUME NEW s \in Seq(TlsRecord), NEW r \in TlsRecord
  PROVE  /\ \A i \in 0..Len(s) : Joined(Append(s, r))[i] = Joined(s)[i]
         /\ Joined(Append(s, r))[Len(s) + 1] = Add(Joined(s)[Len(s)], r)
<1> DEFINE t == Append(s, r)
           T == {n \in Nat : n <= Len(s) => Joined(t)[n] = Joined(s)[n]}
<1>0. /\ Len(s) \in Nat /\ Len(t) = Len(s) + 1 /\ Len(t) \in Nat /\ t[Len(s) + 1] = r
      /\ \A i \in 1..Len(s) : t[i] = s[i]
  OBVIOUS
<1> HIDE DEF t
<1>1. 0 \in T
  <2>1. Joined(s)[0] = <<>> /\ Joined(t)[0] = <<>>
    BY <1>0, JoinedStep
  <2> QED
    BY <2>1
<1>2. ASSUME NEW n \in Nat, n \in T PROVE n + 1 \in T
  <2> SUFFICES ASSUME n + 1 <= Len(s) PROVE Joined(t)[n + 1] = Joined(s)[n + 1]
    OBVIOUS
  <2>1. n + 1 \in 1..Len(s) /\ n + 1 \in 1..Len(t) /\ (n + 1) - 1 = n
    BY <1>0
  <2>2. Joined(t)[n] = Joined(s)[n] /\ t[n + 1] = s[n + 1]
    BY <1>0, <1>2, <2>1
  <2>3. Joined(s)[n + 1] = Add(Joined(s)[n], s[n + 1])
    BY <1>0, <2>1, JoinedStep
  <2>4. Joined(t)[n + 1] = Add(Joined(t)[n], t[n + 1])
    BY <1>0, <2>1, JoinedStep
  <2> QED
    BY <2>2, <2>3, <2>4
<1>3. \A n \in Nat : n \in T
  <2> HIDE DEF T
  <2> QED
    BY <1>1, <1>2, CountUp
<1>4. \A i \in 0..Len(s) : Joined(t)[i] = Joined(s)[i]
  BY <1>0, <1>3
<1>5. Joined(t)[Len(s) + 1] = Add(Joined(s)[Len(s)], r)
  <2>1. Len(s) + 1 \in 1..Len(t) /\ (Len(s) + 1) - 1 = Len(s) /\ Len(s) \in 0..Len(s)
    BY <1>0
  <2>2. Joined(t)[Len(s) + 1] = Add(Joined(t)[Len(s)], t[Len(s) + 1])
    BY <1>0, <2>1, JoinedStep
  <2> QED
    BY <1>0, <1>4, <2>1, <2>2
<1> QED
  BY <1>4, <1>5 DEF t

-----------------------------------------------------------------------------
(* The invariant, action by action.                                        *)

\* The server sends one more record: its data leaves what is unsent.
LEMMA InvSends ==
  ASSUME ResponseInv, verdict = Waiting, NEW r \in TlsRecord, r.seq = Len(records),
         records' = Append(records, r), unsent' \in Bytes,
         Cat(Add(Joined(records)[Len(records)], r), unsent') = Stream,
         UNCHANGED <<path, padded, answer, capture, opened, text, verdict>>
  PROVE  ResponseInv'
<1> USE DEF ResponseInv
<1>1. /\ records \in Seq(TlsRecord) /\ Len(records) \in Nat
      /\ opened = 0 /\ capture = <<>>
  BY DEF ResponseTypes, HandedOver
<1>2. /\ records' \in Seq(TlsRecord) /\ Len(records') = Len(records) + 1
      /\ records'[Len(records) + 1] = r /\ \A i \in 1..Len(records) : records'[i] = records[i]
  BY <1>1
<1>3. ResponseTypes'
  BY <1>1, <1>2 DEF ResponseTypes, Bytes
<1>4. Stream' = Stream
  BY DEF Stream
<1>5. SentInOrder'
  <2>1. ASSUME NEW i \in 1..Len(records') PROVE records'[i].seq = i - 1
    <3>1. CASE i \in 1..Len(records)
      BY <1>2, <3>1 DEF SentInOrder
    <3>2. CASE i = Len(records) + 1
      BY <1>1, <1>2, <3>2
    <3> QED
      BY <1>1, <1>2, <3>1, <3>2
  <2>2. Joined(records')[Len(records')] = Add(Joined(records)[Len(records)], r)
    BY <1>1, <1>2, JoinedAppend
  <2>3. Joined(records')[Len(records')] \o unsent' = Stream'
    BY <1>4, <2>2 DEF Cat
  <2> QED
    BY <2>1, <2>3 DEF SentInOrder
<1>6. HandedOver'
  <2>1. Len(capture) = 0
    BY <1>1
  <2> QED
    BY <1>1, <2>1 DEF HandedOver
<1>7. OpenedInOrder'
  <2>1. Joined(records')[0] = Joined(records)[0]
    BY <1>1, JoinedAppend
  <2> QED
    BY <1>1, <1>2, <2>1 DEF OpenedInOrder
<1> QED
  BY <1>3, <1>5, <1>6, <1>7

\* What the server has sent and what it has not are bytes.
LEMMA SentTypes ==
  ASSUME ResponseInv
  PROVE  /\ records \in Seq(TlsRecord) /\ Len(records) \in Nat
         /\ unsent \in Bytes /\ Len(unsent) \in Nat
         /\ Joined(records)[Len(records)] \in Bytes
         /\ Cat(Joined(records)[Len(records)], unsent) = Stream
<1>1. records \in Seq(TlsRecord) /\ Len(records) \in Nat /\ unsent \in Bytes /\ Len(unsent) \in Nat
  BY DEF ResponseInv, ResponseTypes, Bytes
<1>2. Joined(records)[Len(records)] \in Bytes
  BY <1>1, JoinedTypes
<1>3. Cat(Joined(records)[Len(records)], unsent) = Stream
  BY DEF ResponseInv, SentInOrder, Cat
<1> QED
  BY <1>1, <1>2, <1>3

\* A record of application data.
LEMMA InvSendData ==
  ASSUME ResponseInv, SendData
  PROVE  ResponseInv'
<1>1. PICK k \in 1..Len(unsent) :
        /\ Record("data", SubSeq(unsent, 1, k))
        /\ unsent' = SubSeq(unsent, k + 1, Len(unsent))
  <2>1. Len(unsent) \in 1..Len(unsent)
    BY SentTypes, EmptySeq DEF SendData, Bytes
  <2> QED
    BY <2>1 DEF SendData
<1> DEFINE d == SubSeq(unsent, 1, k)
           e == SubSeq(unsent, k + 1, Len(unsent))
           r == [seq |-> Len(records), type |-> "data", content |-> d]
           j == Joined(records)[Len(records)]
<1>2. /\ unsent \in Seq(Byte) /\ Len(unsent) \in Nat /\ j \in Bytes /\ Cat(j, unsent) = Stream
      /\ Len(records) \in Nat
  BY SentTypes DEF Bytes
<1>3. d \in Bytes /\ e \in Bytes
  BY <1>2 DEF Bytes
<1>4. Cat(d, e) = unsent
  <2>1. /\ 1 \in 1..(Len(unsent) + 1) /\ k \in (1 - 1)..Len(unsent) /\ Len(unsent) \in k..Len(unsent)
    BY <1>2
  <2>2. SubSeq(unsent, 1, k) \o SubSeq(unsent, k + 1, Len(unsent)) = SubSeq(unsent, 1, Len(unsent))
    BY <1>2, <2>1, ConcatAdjacentSubSeq
  <2> QED
    BY <1>2, <2>2, SubSeqFull DEF Cat
<1>5. unsent' = e /\ records' = Append(records, r)
  BY <1>1 DEF Record
<1> HIDE DEF d, e, j
<1>6. r \in TlsRecord /\ r.seq = Len(records) /\ r.type = "data" /\ r.content = d
  BY <1>2, <1>3 DEF TlsRecord, Bytes
<1> HIDE DEF r
<1>7. Add(j, r) = Cat(j, d)
  BY <1>2, <1>6, AddGrows
<1>8. Cat(Add(j, r), e) = Stream
  BY <1>2, <1>3, <1>4, <1>7, CatAssociates
<1>9. verdict = Waiting /\ UNCHANGED <<path, padded, answer, capture, opened, text, verdict>>
  BY DEF SendData
<1> QED
  BY <1>3, <1>5, <1>6, <1>8, <1>9, InvSends DEF j

\* A ticket or the alert.
LEMMA InvSendOther ==
  ASSUME ResponseInv, SendOther
  PROVE  ResponseInv'
<1>1. PICK type \in {"ticket", "alert"}, c \in {<<"t">>, <<"c">>} : Record(type, c)
  BY DEF SendOther
<1> DEFINE r == [seq |-> Len(records), type |-> type, content |-> c]
<1>2. records' = Append(records, r)
  BY <1>1 DEF Record
<1>3. r \in TlsRecord /\ r.seq = Len(records) /\ r.type # "data"
  BY SentTypes, MarksAreBytes DEF TlsRecord, Bytes
<1> HIDE DEF r
<1>4. Add(Joined(records)[Len(records)], r) = Joined(records)[Len(records)]
  BY <1>3 DEF Add
<1>5. verdict = Waiting /\ UNCHANGED <<path, padded, answer, unsent, capture, opened, text, verdict>>
  BY DEF SendOther
<1>6. unsent' \in Bytes /\ Cat(Add(Joined(records)[Len(records)], r), unsent') = Stream
  BY <1>4, <1>5, SentTypes
<1> QED
  BY <1>2, <1>3, <1>5, <1>6, InvSends

\* Every record of s is a record of t.
From(s, t) == s \in Seq(TlsRecord) /\ \A i \in 1..Len(s) : \E j \in 1..Len(t) : s[i] = t[j]

\* A stretch of the records.
LEMMA FromStretch ==
  ASSUME NEW t \in Seq(TlsRecord), NEW m \in 1..(Len(t) + 1), NEW n \in 0..Len(t)
  PROVE  From(SubSeq(t, m, n), t)
<1>1. Len(t) \in Nat
  OBVIOUS
<1>2. \A i \in m..n : t[i] \in TlsRecord
  <2> TAKE i \in m..n
  <2>1. i \in 1..Len(t)
    BY <1>1
  <2> QED
    BY <2>1, ElementOfSeq
<1>3. m \in Int /\ n \in Int
  BY <1>1
<1> DEFINE s == SubSeq(t, m, n)
<1>4. /\ s \in Seq(TlsRecord) /\ Len(s) = (IF m <= n THEN n - m + 1 ELSE 0)
      /\ \A i \in 1..(n - m + 1) : s[i] = t[m + i - 1]
  BY <1>2, <1>3, SubSeqProperties
<1> HIDE DEF s
<1>5. ASSUME NEW i \in 1..Len(s) PROVE \E j \in 1..Len(t) : s[i] = t[j]
  <2>1. i \in 1..(n - m + 1) /\ m + i - 1 \in 1..Len(t)
    BY <1>1, <1>3, <1>4
  <2> QED
    BY <1>4, <2>1
<1> QED
  BY <1>4, <1>5 DEF From, s

\* What the host hands over are records the server has sent.
LEMMA HandsOverRecords ==
  ASSUME ResponseInv, HandOver
  PROVE  From(capture', records)
<1>1. records \in Seq(TlsRecord) /\ Len(records) \in Nat
  BY SentTypes
<1>2. ASSUME NEW n \in 1..Len(records), capture' = SubSeq(records, 1, n)
      PROVE  From(capture', records)
  <2>1. 1 \in 1..(Len(records) + 1) /\ n \in 0..Len(records)
    BY <1>1
  <2> QED
    BY <1>1, <1>2, <2>1, FromStretch
<1>3. ASSUME NEW i \in 1..Len(records), capture' = Without(records, i)
      PROVE  From(capture', records)
  <2> DEFINE a == SubSeq(records, 1, i - 1)
             b == SubSeq(records, i + 1, Len(records))
  <2>1. /\ 1 \in 1..(Len(records) + 1) /\ i - 1 \in 0..Len(records)
        /\ i + 1 \in 1..(Len(records) + 1) /\ Len(records) \in 0..Len(records)
    BY <1>1
  <2>2. From(a, records) /\ From(b, records)
    BY <1>1, <2>1, FromStretch
  <2>3. capture' = a \o b
    BY <1>3 DEF Without
  <2> HIDE DEF a, b
  <2>4. /\ a \in Seq(TlsRecord) /\ b \in Seq(TlsRecord) /\ Len(a) \in Nat /\ Len(b) \in Nat
    BY <2>2 DEF From
  <2>5. /\ capture' \in Seq(TlsRecord) /\ Len(capture') = Len(a) + Len(b)
        /\ \A k \in 1..(Len(a) + Len(b)) : capture'[k] = IF k <= Len(a) THEN a[k] ELSE b[k - Len(a)]
    BY <2>3, <2>4, ConcatProperties
  <2>6. ASSUME NEW k \in 1..Len(capture') PROVE \E j \in 1..Len(records) : capture'[k] = records[j]
    <3>1. CASE k <= Len(a)
      <4>1. k \in 1..Len(a) /\ capture'[k] = a[k]
        BY <2>4, <2>5, <3>1
      <4> QED
        BY <2>2, <4>1 DEF From
    <3>2. CASE ~(k <= Len(a))
      <4>1. k - Len(a) \in 1..Len(b) /\ capture'[k] = b[k - Len(a)]
        BY <2>4, <2>5, <3>2
      <4> QED
        BY <2>2, <4>1 DEF From
    <3> QED
      BY <3>1, <3>2
  <2> QED
    BY <2>5, <2>6 DEF From
<1>4. ASSUME NEW i \in 1..(Len(records) - 1), capture' = Swapped(records, i)
      PROVE  From(capture', records)
  <2>1. i \in 1..Len(records) /\ i + 1 \in 1..Len(records)
    BY <1>1
  <2>2. records[i] \in TlsRecord /\ records[i + 1] \in TlsRecord
    BY <1>1, <2>1, ElementOfSeq
  <2>3. capture' = [records EXCEPT ![i] = records[i + 1], ![i + 1] = records[i]]
    BY <1>4 DEF Swapped
  <2>4. /\ capture' \in Seq(TlsRecord) /\ Len(capture') = Len(records)
        /\ \A k \in 1..Len(records) : capture'[k] =
             IF k = i + 1 THEN records[i] ELSE IF k = i THEN records[i + 1] ELSE records[k]
    BY <1>1, <2>1, <2>2, <2>3
  <2> QED
    BY <2>1, <2>4 DEF From
<1> QED
  BY <1>2, <1>3, <1>4 DEF HandOver

\* The host hands over what it has captured.
LEMMA InvHandOver ==
  ASSUME ResponseInv, HandOver
  PROVE  ResponseInv'
<1> USE DEF ResponseInv
<1>1. /\ From(capture', records) /\ verdict = Waiting /\ unsent = <<>> /\ verdict' = Running
      /\ UNCHANGED <<path, padded, answer, unsent, records, opened, text>>
  BY HandsOverRecords DEF HandOver
<1>2. opened = 0 /\ Running # Waiting
  BY <1>1 DEF HandedOver, Running, Waiting
<1>3. capture' \in Seq(TlsRecord) /\ opened' \in 0..Len(capture')
  BY <1>1, <1>2 DEF From
<1>4. ResponseTypes'
  BY <1>1, <1>3 DEF ResponseTypes
<1>5. SentInOrder'
  BY <1>1 DEF SentInOrder, Stream
<1>6. HandedOver'
  BY <1>1, <1>2 DEF HandedOver, From
<1>7. OpenedInOrder'
  BY <1>1 DEF OpenedInOrder
<1> QED
  BY <1>4, <1>5, <1>6, <1>7

\* The guest opens the record in turn: the number it opens under is the record's own, so
\* it is the record the server sent in this place.
LEMMA InvOpens ==
  ASSUME ResponseInv, OpenNext
  PROVE  ResponseInv'
<1> USE DEF ResponseInv
<1> DEFINE r == capture[opened + 1]
<1>1. /\ verdict = Running /\ opened < Len(capture) /\ Running # Waiting /\ Refused # Waiting
      /\ UNCHANGED <<path, padded, answer, unsent, records, capture>>
  BY DEF OpenNext, Running, Waiting, Refused
<1>2. /\ records \in Seq(TlsRecord) /\ Len(records) \in Nat
      /\ Len(capture) \in Nat /\ opened \in Nat
  BY DEF ResponseTypes
<1>3. SentInOrder'
  BY <1>1 DEF SentInOrder, Stream
<1>4. CASE r.seq # opened
  <2>1. verdict' = Refused /\ UNCHANGED <<opened, text>>
    BY <1>4 DEF OpenNext
  <2>2. ResponseTypes'
    BY <1>1, <2>1 DEF ResponseTypes
  <2>3. HandedOver' /\ OpenedInOrder'
    BY <1>1, <2>1 DEF HandedOver, OpenedInOrder
  <2> QED
    BY <1>3, <2>2, <2>3
<1>5. CASE r.seq = opened
  <2>1. /\ opened' = opened + 1 /\ verdict' = verdict
        /\ text' = IF Stripped(r).type = "data" THEN text \o Stripped(r).content ELSE text
    BY <1>5 DEF OpenNext
  <2>2. opened + 1 \in 1..Len(capture)
    BY <1>1, <1>2
  <2>3. PICK j \in 1..Len(records) : r = records[j]
    BY <2>2 DEF HandedOver
  <2>4. j = opened + 1
    <3>1. records[j].seq = j - 1
      BY DEF SentInOrder
    <3> QED
      BY <1>2, <1>5, <2>3, <3>1
  <2>5. opened + 1 \in 1..Len(records) /\ r = records[opened + 1] /\ (opened + 1) - 1 = opened
    BY <1>2, <2>3, <2>4
  <2>6. Joined(records)[opened + 1] = Add(Joined(records)[opened], r)
    BY <1>2, <2>5, JoinedStep
  <2> HIDE DEF r
  <2>7. ResponseTypes'
    BY <1>1, <2>1, <2>2 DEF ResponseTypes
  <2>8. HandedOver'
    BY <1>1, <2>1 DEF HandedOver
  <2>9. text' = IF path = "self_prove" /\ padded THEN <<>> ELSE Joined(records)[opened + 1]
    <3>1. CASE path = "self_prove" /\ padded
      <4>1. Stripped(r).type = "zero"
        BY <3>1 DEF Stripped
      <4>2. text = <<>>
        BY <3>1 DEF OpenedInOrder
      <4> QED
        BY <2>1, <3>1, <4>1, <4>2
    <3>2. CASE ~(path = "self_prove" /\ padded)
      <4>1. Stripped(r).type = r.type /\ Stripped(r).content = r.content
        BY <3>2 DEF Stripped
      <4>2. text = Joined(records)[opened]
        BY <3>2 DEF OpenedInOrder
      <4>3. text' = Add(Joined(records)[opened], r)
        BY <2>1, <4>1, <4>2 DEF Add
      <4> QED
        BY <2>6, <3>2, <4>3
    <3> QED
      BY <3>1, <3>2
  <2>10. OpenedInOrder'
    <3>1. opened + 1 <= Len(records)
      BY <1>2, <2>5
    <3> QED
      BY <1>1, <2>1, <2>9, <3>1 DEF OpenedInOrder
  <2> QED
    BY <1>3, <2>7, <2>8, <2>10
<1> QED
  BY <1>4, <1>5

\* A claim ends the run; an object is longer than the word that stands for waiting.
LEMMA InvClaims ==
  ASSUME ResponseInv, Claim
  PROVE  ResponseInv'
<1> USE DEF ResponseInv
<1>1. verdict = Running /\ UNCHANGED <<path, padded, answer, unsent, records, capture, opened, text>>
  BY DEF Claim
<1> DEFINE body == Unchunked(RawBody(text))
<1>2. verdict' = IF Utf8(text) /\ IsObject(body) /\ answer.above THEN Significant(body) ELSE Refused
  BY DEF Claim
<1> HIDE DEF body
<1>3. verdict' # Waiting
  <2>1. Len(Waiting) = 1 /\ Refused # Waiting
    BY DEF Waiting, Refused
  <2>2. IsObject(body) => Len(Significant(body)) >= 3
    BY DEF IsObject
  <2>3. IsObject(body) => Significant(body) # Waiting
    BY <2>1, <2>2
  <2> QED
    BY <1>2, <2>1, <2>3
<1>4. Running # Waiting
  BY DEF Running, Waiting
<1>5. ResponseTypes'
  BY <1>1 DEF ResponseTypes
<1>6. SentInOrder'
  BY <1>1 DEF SentInOrder, Stream
<1>7. HandedOver'
  BY <1>1, <1>3, <1>4 DEF HandedOver
<1>8. OpenedInOrder'
  BY <1>1 DEF OpenedInOrder
<1> QED
  BY <1>5, <1>6, <1>7, <1>8

\* What the server has sent, what the guest was given and what it has put together.
LEMMA ResponseInductive == Spec => []ResponseInv
<1>1. Init => ResponseInv
  <2> SUFFICES ASSUME Init PROVE ResponseInv
    OBVIOUS
  <2>1. /\ answer \in Answers /\ unsent = Stream /\ records = <<>> /\ capture = <<>>
        /\ opened = 0 /\ text = <<>> /\ verdict = Waiting
    BY DEF Init, Stream
  <2>2. answer.raw \in Bytes
    BY <2>1, AnswerTypes
  <2>3. Stream \in Bytes
    <3>1. Stream = Cat(Cat(Crlf, Crlf), answer.raw)
      BY DEF Stream, Cat
    <3>2. Cat(Crlf, Crlf) \in Bytes
      BY MarksAreBytes, CatTypes
    <3> QED
      BY <2>2, <3>1, <3>2, CatTypes
  <2>4. Len(records) = 0 /\ Len(capture) = 0
    BY <2>1
  <2>5. Joined(records)[0] = <<>>
    BY <2>4, JoinedStep
  <2>6. ResponseTypes
    <3>1. records \in Seq(TlsRecord) /\ capture \in Seq(TlsRecord)
      BY <2>1
    <3> QED
      BY <2>1, <2>2, <2>3, <2>4, <3>1 DEF ResponseTypes, Bytes
  <2>7. <<>> \o unsent = Stream
    BY <2>1, <2>3, ConcatEmptySeq DEF Bytes
  <2>8. SentInOrder
    BY <2>4, <2>5, <2>7 DEF SentInOrder
  <2>9. HandedOver
    BY <2>1, <2>4 DEF HandedOver
  <2>10. OpenedInOrder
    BY <2>1, <2>4, <2>5 DEF OpenedInOrder
  <2> QED
    BY <2>6, <2>8, <2>9, <2>10 DEF ResponseInv
<1>2. ResponseInv /\ [Next]_vars => ResponseInv'
  <2> SUFFICES ASSUME ResponseInv, [Next]_vars PROVE ResponseInv'
    OBVIOUS
  <2>1. CASE UNCHANGED vars
    BY <2>1 DEF vars, ResponseInv, ResponseTypes, SentInOrder, HandedOver, OpenedInOrder, Stream
  <2> QED
    BY <2>1, InvSendData, InvSendOther, InvHandOver, InvOpens, InvClaims DEF Next
<1> QED
  BY <1>1, <1>2, PTL DEF Spec

\* What the guest has put together is the beginning of the answer.
LEMMA InvBegins ==
  ASSUME ResponseInv
  PROVE  text \in Bytes /\ TextIsBeginning /\ Stream \in Bytes
<1> DEFINE j == Joined(records)[Len(records)]
           p == Joined(records)[opened]
<1>1. /\ records \in Seq(TlsRecord) /\ j \in Bytes /\ unsent \in Bytes /\ Cat(j, unsent) = Stream
  BY SentTypes
<1>2. opened \in 0..Len(records)
  BY DEF ResponseInv, ResponseTypes, OpenedInOrder
<1>3. p \in Bytes /\ IsPrefix(p, j)
  BY <1>1, <1>2, JoinedTypes, JoinedPrefix
<1>4. Stream \in Bytes
  BY <1>1, CatTypes
<1>5. IsPrefix(j, Stream)
  BY <1>1, CatBegins
<1> HIDE DEF j
<1>6. IsPrefix(p, Stream)
  <2> HIDE DEF p
  <2> QED
    BY <1>1, <1>3, <1>4, <1>5, PrefixOfPrefix
<1>7. <<>> \in Bytes /\ IsPrefix(<<>>, Stream)
  <2>1. <<>> \in Bytes /\ Cat(<<>>, Stream) = Stream
    BY <1>4, MarksAreBytes, ConcatEmptySeq DEF Cat, Bytes
  <2> QED
    BY <1>4, <2>1, CatBegins
<1>8. text = <<>> \/ text = p
  BY DEF ResponseInv, OpenedInOrder
<1> QED
  BY <1>3, <1>4, <1>6, <1>7, <1>8 DEF TextIsBeginning

\* Whatever of the captured records the host leaves out or exchanges, the plaintext
\* the guest puts together (main, the loop over application records) is the beginning of
\* what the server sent.
THEOREM PlaintextIsBeginning == Spec => []TextIsBeginning
<1>1. ResponseInv => TextIsBeginning
  BY InvBegins
<1> QED
  BY <1>1, ResponseInductive, PTL

-----------------------------------------------------------------------------
(* Parts of a string of bytes.                                             *)

\* What a stretch of a string holds.
LEMMA Stretch ==
  ASSUME NEW S, NEW b \in Seq(S), NEW m \in 1..(Len(b) + 1), NEW n \in (m - 1)..Len(b)
  PROVE  /\ SubSeq(b, m, n) \in Seq(S)
         /\ Len(SubSeq(b, m, n)) = n - m + 1
         /\ \A i \in 1..(n - m + 1) : SubSeq(b, m, n)[i] = b[m + i - 1]
<1>1. Len(b) \in Nat
  OBVIOUS
<1>2. m \in Int /\ n \in Int /\ \A i \in m..n : i \in 1..Len(b)
  BY <1>1
<1>3. \A i \in m..n : b[i] \in S
  BY <1>2, ElementOfSeq
<1>4. SubSeq(b, m, n) \in Seq(S)
  BY <1>2, <1>3, SubSeqProperties
<1>5. Len(SubSeq(b, m, n)) = IF m <= n THEN n - m + 1 ELSE 0
  BY <1>2, <1>3, SubSeqProperties
<1>6. \A i \in 1..(n - m + 1) : SubSeq(b, m, n)[i] = b[m + i - 1]
  BY <1>2, <1>3, SubSeqProperties
<1>7. (IF m <= n THEN n - m + 1 ELSE 0) = n - m + 1
  BY <1>1
<1> QED
  BY <1>4, <1>5, <1>6, <1>7

\* The least of some numbers.
LEMMA LeastExists ==
  ASSUME NEW A, A \subseteq Nat, A # {}
  PROVE  \E i \in A : \A j \in A : i <= j
<1> DEFINE R == OpToRel(<, Nat)
<1>1. IsWellFoundedOn(R, Nat)
  BY NatLessThanWellFounded
<1>2. \E x \in A : \A y \in A : ~(<<y, x>> \in R)
  <2> HIDE DEF R
  <2> QED
    BY <1>1, WFMin
<1>3. PICK x \in A : \A y \in A : ~(<<y, x>> \in R)
  BY <1>2
<1>4. \A y \in A : ~(y < x)
  BY <1>3 DEF OpToRel
<1> HIDE DEF R
<1>5. \A y \in A : x <= y
  BY <1>3, <1>4
<1> QED
  BY <1>3, <1>5

\* Where in b, from p on, s begins.
Begins(b, s, p) == { i \in p..(Len(b) + 1 - Len(s)) : SubSeq(b, i, i + Len(s) - 1) = s }

\* What Find gives: the least of these places, or 0.
LEMMA FindIs ==
  ASSUME NEW b, NEW s, NEW p \in Nat, Len(b) \in Nat, Len(s) \in Nat
  PROVE  /\ Begins(b, s, p) = {} => Find(b, s, p) = 0
         /\ Begins(b, s, p) # {} => /\ Find(b, s, p) \in Begins(b, s, p)
                                    /\ \A j \in Begins(b, s, p) : Find(b, s, p) <= j
         /\ \A x \in Begins(b, s, p) :
              (\A j \in Begins(b, s, p) : x <= j) => Find(b, s, p) = x
<1> DEFINE A == Begins(b, s, p)
           least == CHOOSE i \in A : \A j \in A : i <= j
<1>1. Find(b, s, p) = IF A = {} THEN 0 ELSE least
  BY DEF Find, Begins
<1>2. A \subseteq Nat
  BY DEF Begins
<1> HIDE DEF A
<1>3. ASSUME A # {} PROVE least \in A /\ \A j \in A : least <= j
  <2>1. \E i \in A : \A j \in A : i <= j
    BY <1>2, <1>3, LeastExists
  <2> QED
    BY <2>1
<1>4. ASSUME NEW x \in A, \A j \in A : x <= j PROVE least = x
  <2>1. least \in A /\ x <= least /\ least <= x /\ least \in Nat /\ x \in Nat
    BY <1>2, <1>3, <1>4
  <2> HIDE DEF least
  <2> QED
    BY <2>1
<1> HIDE DEF least
<1>5. \A x \in A : A # {}
  OBVIOUS
<1> QED
  BY <1>1, <1>3, <1>4, <1>5 DEF A

\* Where it is found (Find).
LEMMA FindRange ==
  ASSUME NEW b, NEW s, NEW p \in Nat, Len(b) \in Nat, Len(s) \in Nat
  PROVE  Find(b, s, p) = 0 \/ Find(b, s, p) \in p..(Len(b) + 1 - Len(s))
BY FindIs DEF Begins

\* A line break at a place of a string.
LEMMA CrlfAt ==
  ASSUME NEW S, NEW b \in Seq(S), NEW i \in 1..(Len(b) - 1)
  PROVE  SubSeq(b, i, i + Len(Crlf) - 1) = Crlf <=> b[i] = "CR" /\ b[i + 1] = "LF"
<1>1. Len(Crlf) = 2 /\ Crlf[1] = "CR" /\ Crlf[2] = "LF" /\ Crlf \in Seq({"CR", "LF"})
  BY DEF Crlf
<1>2. i \in Nat /\ Len(b) \in Nat /\ i + Len(Crlf) - 1 = i + 1
  BY <1>1
<1>3. i \in 1..(Len(b) + 1) /\ i + 1 \in (i - 1)..Len(b) /\ (i + 1) - i + 1 = 2
  BY <1>2
<1> DEFINE t == SubSeq(b, i, i + 1)
<1>4. t \in Seq(S) /\ Len(t) = 2 /\ \A j \in 1..2 : t[j] = b[i + j - 1]
  BY <1>3, Stretch
<1>5. t[1] = b[i] /\ t[2] = b[i + 1]
  <2>1. 1 \in 1..2 /\ 2 \in 1..2 /\ i + 1 - 1 = i /\ i + 2 - 1 = i + 1
    BY <1>2
  <2> HIDE DEF t
  <2> QED
    BY <1>4, <2>1
<1>6. t = Crlf <=> t[1] = "CR" /\ t[2] = "LF"
  <2> HIDE DEF t
  <2>1. ASSUME t[1] = "CR", t[2] = "LF" PROVE t = Crlf
    <3>1. \A j \in 1..2 : t[j] = Crlf[j]
      <4>1. \A j \in 1..2 : j = 1 \/ j = 2
        OBVIOUS
      <4> QED
        BY <1>1, <2>1, <4>1
    <3>2. t = [j \in 1..2 |-> t[j]] /\ Crlf = [j \in 1..2 |-> Crlf[j]]
      BY <1>1, <1>4
    <3> QED
      BY <3>1, <3>2
  <2> QED
    BY <1>1, <2>1
<1> QED
  BY <1>2, <1>5, <1>6

\* The first line break from p on.
LEMMA FindCrlf ==
  ASSUME NEW S, NEW b \in Seq(S), NEW p \in Nat \ {0}
  PROVE  /\ \A x \in p..(Len(b) - 1) :
              /\ b[x] = "CR" /\ b[x + 1] = "LF"
              /\ \A i \in p..(x - 1) : b[i] # "CR"
              => Find(b, Crlf, p) = x
         /\ (\A i \in p..(Len(b) - 1) : b[i] # "CR") => Find(b, Crlf, p) = 0
         /\ Find(b, Crlf, p) = 0 \/ Find(b, Crlf, p) \in p..(Len(b) - 1)
         /\ p < Len(b) => (Find(b, Crlf, p) = p <=> b[p] = "CR" /\ b[p + 1] = "LF")
<1>1. Len(b) \in Nat /\ Len(Crlf) = 2
  BY DEF Crlf
<1>2. Begins(b, Crlf, p) = { i \in p..(Len(b) - 1) : b[i] = "CR" /\ b[i + 1] = "LF" }
  <2>1. Len(b) + 1 - Len(Crlf) = Len(b) - 1
    BY <1>1
  <2>2. \A i \in p..(Len(b) - 1) : i \in 1..(Len(b) - 1)
    BY <1>1
  <2>3. \A i \in p..(Len(b) - 1) :
          SubSeq(b, i, i + Len(Crlf) - 1) = Crlf <=> b[i] = "CR" /\ b[i + 1] = "LF"
    BY <2>2, CrlfAt
  <2> QED
    BY <2>1, <2>3 DEF Begins
<1> DEFINE A == Begins(b, Crlf, p)
           f == Find(b, Crlf, p)
<1>3. /\ A = {} => f = 0
      /\ A # {} => f \in A /\ \A j \in A : f <= j
      /\ \A x \in A : (\A j \in A : x <= j) => f = x
  BY <1>1, FindIs
<1>4. A \subseteq p..(Len(b) - 1)
  BY <1>2
<1> HIDE DEF f
<1>5. ASSUME NEW x \in p..(Len(b) - 1), b[x] = "CR", b[x + 1] = "LF", \A i \in p..(x - 1) : b[i] # "CR"
      PROVE  f = x
  <2>1. x \in A
    BY <1>2, <1>5
  <2>2. ASSUME NEW j \in A PROVE x <= j
    <3>1. j \in p..(Len(b) - 1) /\ b[j] = "CR"
      BY <1>2, <2>2
    <3>2. ~(j \in p..(x - 1))
      BY <1>5, <3>1
    <3> QED
      BY <1>1, <3>1, <3>2
  <2> HIDE DEF A
  <2> QED
    BY <1>3, <2>1, <2>2
<1>6. ASSUME \A i \in p..(Len(b) - 1) : b[i] # "CR" PROVE f = 0
  <2>1. A = {}
    BY <1>2, <1>6
  <2> HIDE DEF A
  <2> QED
    BY <1>3, <2>1
<1>7. f = 0 \/ f \in p..(Len(b) - 1)
  <2> HIDE DEF A
  <2> QED
    BY <1>3, <1>4
<1>8. ASSUME p < Len(b) PROVE f = p <=> b[p] = "CR" /\ b[p + 1] = "LF"
  <2>1. p \in p..(Len(b) - 1) /\ p # 0 /\ \A j \in A : p <= j
    BY <1>1, <1>4, <1>8
  <2>2. f = p => p \in A
    <3> HIDE DEF A
    <3> QED
      BY <1>3, <2>1
  <2>3. p \in A => f = p
    <3> HIDE DEF A
    <3> QED
      BY <1>3, <2>1
  <2>4. p \in A <=> b[p] = "CR" /\ b[p + 1] = "LF"
    BY <1>2, <2>1
  <2> QED
    BY <2>2, <2>3, <2>4
<1> QED
  BY <1>5, <1>6, <1>7, <1>8 DEF f

-----------------------------------------------------------------------------
(* Functions that go on from one number to the next.                       *)

\* The functions from 0..n that begin with z and go on by G.
Steps(V, z, n, G) == { f \in [0..n -> V] : f[0] = z /\ \A i \in 1..n : f[i] = G[<<i, f[i - 1]>>] }

\* A function may be defined from one number to the next.
LEMMA StepsExist ==
  ASSUME NEW V, NEW z \in V, NEW n \in Nat, NEW G \in [(1..n) \X V -> V]
  PROVE  \E f : f \in Steps(V, z, n, G)
<1> DEFINE Good(m) == \E f \in [0..m -> V] : f[0] = z /\ \A i \in 1..m : f[i] = G[<<i, f[i - 1]>>]
           T == {m \in Nat : m <= n => Good(m)}
<1>1. 0 \in T
  <2> DEFINE f == [i \in 0..0 |-> z]
  <2>1. f \in [0..0 -> V] /\ f[0] = z /\ \A i \in 1..0 : f[i] = G[<<i, f[i - 1]>>]
    OBVIOUS
  <2>2. Good(0)
    BY <2>1
  <2> HIDE DEF Good
  <2> QED
    BY <2>2
<1>2. ASSUME NEW m \in Nat, m \in T PROVE m + 1 \in T
  <2> SUFFICES ASSUME m + 1 <= n PROVE Good(m + 1)
    OBVIOUS
  <2>1. PICK f \in [0..m -> V] : f[0] = z /\ \A i \in 1..m : f[i] = G[<<i, f[i - 1]>>]
    BY <1>2
  <2> DEFINE last == G[<<m + 1, f[m]>>]
             g == [i \in 0..(m + 1) |-> IF i = m + 1 THEN last ELSE f[i]]
  <2>2. last \in V
    <3>1. m + 1 \in 1..n /\ m \in 0..m
      OBVIOUS
    <3>2. f[m] \in V
      BY <2>1, <3>1
    <3> QED
      BY <3>1, <3>2
  <2> HIDE DEF last
  <2>3. g \in [0..(m + 1) -> V] /\ \A i \in 0..m : g[i] = f[i]
    <3>1. \A i \in 0..(m + 1) : i = m + 1 \/ i \in 0..m
      OBVIOUS
    <3>2. \A i \in 0..m : i # m + 1 /\ i \in 0..(m + 1)
      OBVIOUS
    <3> QED
      BY <2>1, <2>2, <3>1, <3>2
  <2>4. g[m + 1] = last
    OBVIOUS
  <2> HIDE DEF g
  <2>5. g[0] = z
    BY <2>1, <2>3
  <2>6. ASSUME NEW i \in 1..(m + 1) PROVE g[i] = G[<<i, g[i - 1]>>]
    <3>1. i - 1 \in 0..m /\ (i = m + 1 \/ i \in 1..m)
      OBVIOUS
    <3>2. g[i - 1] = f[i - 1]
      BY <2>3, <3>1
    <3>3. i = m + 1 => i - 1 = m
      OBVIOUS
    <3>4. CASE i = m + 1
      BY <2>4, <3>2, <3>3, <3>4 DEF last
    <3>5. CASE i \in 1..m
      <4>1. g[i] = f[i]
        BY <2>3, <3>5
      <4> QED
        BY <2>1, <3>2, <3>5, <4>1
    <3> QED
      BY <3>1, <3>4, <3>5
  <2> QED
    BY <2>3, <2>5, <2>6
<1>3. \A m \in Nat : m \in T
  <2> HIDE DEF T
  <2> QED
    BY <1>1, <1>2, CountUp
<1>4. n \in T
  BY <1>3
<1>5. Good(n)
  <2> HIDE DEF Good
  <2> QED
    BY <1>4
<1> QED
  BY <1>5 DEF Steps

-----------------------------------------------------------------------------
(* Sizes.                                                                  *)

\* The digits of a size.
LEMMA DigitsAre ==
  /\ DOMAIN Digits = {Numeral[n] : n \in 1..8}
  /\ \A d \in DOMAIN Digits : Digits[d] \in 0..7
  /\ \A n \in 0..7 : Numeral[n + 1] \in DOMAIN Digits /\ Digits[Numeral[n + 1]] = n
  /\ {"{", "CR", "LF", ";", "}"} \cap DOMAIN Digits = {}
<1>1. DOMAIN Digits = {Numeral[n] : n \in 1..8}
  BY DEF Digits
<1>2. ASSUME NEW d \in DOMAIN Digits PROVE Digits[d] \in 0..7
  <2>1. PICK n \in 1..8 : d = Numeral[n]
    BY <1>1
  <2>2. n - 1 \in 0..7 /\ n = (n - 1) + 1
    OBVIOUS
  <2>3. \E m \in 0..7 : d = Numeral[m + 1]
    BY <2>1, <2>2
  <2>4. Digits[d] = CHOOSE m \in 0..7 : d = Numeral[m + 1]
    BY <1>1 DEF Digits
  <2> QED
    BY <2>3, <2>4
<1>3. /\ Numeral[1] = "0" /\ Numeral[2] = "1" /\ Numeral[3] = "2" /\ Numeral[4] = "3"
      /\ Numeral[5] = "4" /\ Numeral[6] = "5" /\ Numeral[7] = "6" /\ Numeral[8] = "7"
  BY DEF Numeral
<1>4. \A n \in 1..8 : n = 1 \/ n = 2 \/ n = 3 \/ n = 4 \/ n = 5 \/ n = 6 \/ n = 7 \/ n = 8
  OBVIOUS
<1>5. \A m \in 1..8, n \in 1..8 : Numeral[m] = Numeral[n] => m = n
  BY <1>3, <1>4
<1>6. ASSUME NEW n \in 0..7
      PROVE  Numeral[n + 1] \in DOMAIN Digits /\ Digits[Numeral[n + 1]] = n
  <2>1. n + 1 \in 1..8
    OBVIOUS
  <2> DEFINE d == Numeral[n + 1]
  <2>2. d \in DOMAIN Digits
    BY <1>1, <2>1
  <2>3. Digits[d] = CHOOSE m \in 0..7 : d = Numeral[m + 1]
    BY <2>2, <1>1 DEF Digits
  <2>4. \A m \in 0..7 : d = Numeral[m + 1] => m = n
    <3> TAKE m \in 0..7
    <3>1. m + 1 \in 1..8
      OBVIOUS
    <3>2. d = Numeral[m + 1] => m + 1 = n + 1
      BY <1>5, <2>1, <3>1
    <3> QED
      BY <3>2
  <2> QED
    BY <2>2, <2>3, <2>4
<1>7. {"{", "CR", "LF", ";", "}"} \cap DOMAIN Digits = {}
  BY <1>1, <1>3, <1>4
<1> QED
  BY <1>1, <1>2, <1>6, <1>7

\* What a size is worth: nothing if it is not one, its digit if it has one.
LEMMA HexIs ==
  ASSUME NEW s, Len(s) \in Nat
  PROVE  /\ Hex(s) \in Nat
         /\ Len(s) = 0 => Hex(s) = 0
         /\ Len(s) = 1 /\ s[1] \in DOMAIN Digits => Hex(s) = Digits[s[1]]
         /\ (\E i \in 1..Len(s) : s[i] \notin DOMAIN Digits) => Hex(s) = 0
<1> DEFINE N == Len(s)
           Step(n, v) == 16 * v + Digits[s[n]]
           value == CHOOSE value : value = [n \in 0..N |-> IF n = 0 THEN 0 ELSE Step(n, value[n - 1])]
           bad == \E i \in 1..N : s[i] \notin DOMAIN Digits
<1>1. Hex(s) = IF bad THEN 0 ELSE value[N]
  BY DEF Hex
<1> HIDE DEF value
<1>2. ASSUME ~bad
      PROVE  value[N] \in Nat /\ (N = 0 => value[N] = 0) /\ (N = 1 => value[N] = Digits[s[1]])
  <2>1. \A i \in 1..N : Digits[s[i]] \in 0..7
    BY <1>2, DigitsAre
  <2> DEFINE G == [x \in (1..N) \X Nat |-> Step(x[1], x[2])]
  <2>2. ASSUME NEW i \in 1..N, NEW v \in Nat PROVE G[<<i, v>>] = Step(i, v) /\ G[<<i, v>>] \in Nat
    <3>1. Digits[s[i]] \in Nat
      BY <2>1
    <3>2. Step(i, v) \in Nat
      BY <3>1
    <3>3. G[<<i, v>>] = Step(i, v)
      OBVIOUS
    <3> QED
      BY <3>2, <3>3
  <2> HIDE DEF G, Step
  <2>3. \E f \in [0..N -> Nat] : f[0] = 0 /\ \A i \in 1..N : f[i] = G[<<i, f[i - 1]>>]
    <3> DEFINE V == Nat
               z == 0
    <3>1. z \in V /\ N \in Nat /\ G \in [(1..N) \X V -> V]
      <4>1. \A x \in (1..N) \X Nat : G[x] \in Nat
        <5> TAKE x \in (1..N) \X Nat
        <5>1. x = <<x[1], x[2]>> /\ x[1] \in 1..N /\ x[2] \in Nat
          OBVIOUS
        <5> QED
          BY <2>2, <5>1
      <4> QED
        BY <4>1 DEF G
    <3> HIDE DEF N, V, z
    <3>2. \E f : f \in Steps(V, z, N, G)
      BY <3>1, StepsExist
    <3> QED
      BY <3>2 DEF V, z, Steps
  <2>4. PICK f \in [0..N -> Nat] : f[0] = 0 /\ \A i \in 1..N : f[i] = G[<<i, f[i - 1]>>]
    BY <2>3
  <2>5. ASSUME NEW n \in 0..N PROVE f[n] = IF n = 0 THEN 0 ELSE Step(n, f[n - 1])
    <3>1. n # 0 => n \in 1..N /\ n - 1 \in 0..N
      OBVIOUS
    <3>2. n # 0 => f[n - 1] \in Nat
      BY <2>4, <3>1
    <3> QED
      BY <2>2, <2>4, <3>1, <3>2
  <2>6. f = [n \in 0..N |-> IF n = 0 THEN 0 ELSE Step(n, f[n - 1])]
    BY <2>4, <2>5
  <2>7. value = [n \in 0..N |-> IF n = 0 THEN 0 ELSE Step(n, value[n - 1])]
    BY <2>6 DEF value
  <2>8. ASSUME NEW n \in Nat, n <= N => value[n] \in Nat, n + 1 <= N PROVE value[n + 1] \in Nat
    <3>1. n + 1 \in 1..N /\ n + 1 # 0 /\ (n + 1) - 1 = n /\ n <= N
      BY <2>8
    <3>2. value[n + 1] = Step(n + 1, value[n])
      BY <2>7, <3>1
    <3>3. G[<<n + 1, value[n]>>] = Step(n + 1, value[n]) /\ G[<<n + 1, value[n]>>] \in Nat
      BY <2>2, <2>8, <3>1
    <3> QED
      BY <3>2, <3>3
  <2>9. value[0] = 0
    BY <2>7
  <2> DEFINE T == {n \in Nat : n <= N => value[n] \in Nat}
  <2>10. \A n \in Nat : n \in T
    <3>1. 0 \in T /\ \A n \in Nat : n \in T => n + 1 \in T
      BY <2>8, <2>9
    <3> HIDE DEF T
    <3> QED
      BY <3>1, CountUp
  <2>11. value[N] \in Nat
    BY <2>10
  <2>12. ASSUME N = 1 PROVE value[N] = Digits[s[1]]
    <3>1. 1 \in 0..N /\ 1 # 0 /\ 1 - 1 = 0 /\ 1 \in 1..N
      BY <2>12
    <3>2. value[1] = Step(1, value[1 - 1])
      BY <2>7, <3>1
    <3>3. value[1] = Step(1, 0)
      BY <2>9, <3>1, <3>2
    <3>4. Digits[s[1]] \in Nat
      BY <2>1, <3>1
    <3>5. Step(1, 0) = Digits[s[1]]
      BY <3>4 DEF Step
    <3> QED
      BY <2>12, <3>3, <3>5
  <2> QED
    BY <2>9, <2>11, <2>12
<1>3. N = 1 /\ s[1] \in DOMAIN Digits => ~bad
  <2>1. \A i \in 1..1 : i = 1
    OBVIOUS
  <2> QED
    BY <2>1
<1>4. N = 0 => ~bad
  OBVIOUS
<1> HIDE DEF bad
<1>5. CASE bad
  BY <1>1, <1>3, <1>4, <1>5 DEF bad
<1>6. CASE ~bad
  BY <1>1, <1>2, <1>6 DEF bad
<1> QED
  BY <1>5, <1>6

-----------------------------------------------------------------------------
(* Objects.                                                                *)

\* t is the beginning of s.
Leads(t, s) == Len(t) <= Len(s) /\ \A i \in 1..Len(t) : t[i] = s[i]

\* One byte gathered, or passed over.
Gather(g, x) == IF x \in {"CR", "LF"} THEN g ELSE Append(g, x)

\* Bytes are gathered one after another.
LEMMA GatheredStep ==
  ASSUME NEW S, NEW s \in Seq(S)
  PROVE  /\ Gathered(s)[0] = <<>>
         /\ \A n \in 1..Len(s) : Gathered(s)[n] = Gather(Gathered(s)[n - 1], s[n])
         /\ \A n \in 0..Len(s) : Gathered(s)[n] \in Seq(S)
<1> DEFINE N == Len(s)
           V == Seq(S)
           z == <<>>
           h == CHOOSE f : f = [n \in 0..N |->
                  IF n = 0 THEN <<>> ELSE IF s[n] \in {"CR", "LF"} THEN f[n - 1] ELSE Append(f[n - 1], s[n])]
           G == [x \in (1..N) \X V |-> Gather(x[2], s[x[1]])]
<1>1. N \in Nat /\ z \in V /\ \A i \in 1..N : s[i] \in S
  BY EmptySeq, ElementOfSeq
<1>2. ASSUME NEW i \in 1..N, NEW v \in V PROVE G[<<i, v>>] = Gather(v, s[i]) /\ Gather(v, s[i]) \in V
  <2>1. s[i] \in S
    BY <1>1
  <2>2. Append(v, s[i]) \in Seq(S)
    BY <2>1, AppendProperties
  <2>3. G[<<i, v>>] = Gather(v, s[i])
    OBVIOUS
  <2> QED
    BY <2>2, <2>3 DEF Gather
<1>3. G \in [(1..N) \X V -> V]
  <2>1. \A x \in (1..N) \X V : Gather(x[2], s[x[1]]) \in V
    <3> TAKE x \in (1..N) \X V
    <3>1. x[1] \in 1..N /\ x[2] \in V
      OBVIOUS
    <3> QED
      BY <1>2, <3>1
  <2> QED
    BY <2>1
<1> HIDE DEF V, z, G
<1>4. \E f : f \in Steps(V, z, N, G)
  <2> HIDE DEF N
  <2> QED
    BY <1>1, <1>3, StepsExist
<1>5. PICK f \in [0..N -> V] : f[0] = z /\ \A i \in 1..N : f[i] = G[<<i, f[i - 1]>>]
  BY <1>4 DEF Steps
<1>6. ASSUME NEW i \in 1..N PROVE f[i] = Gather(f[i - 1], s[i])
  <2>1. i - 1 \in 0..N
    OBVIOUS
  <2>2. f[i - 1] \in V
    BY <1>5, <2>1
  <2> QED
    BY <1>2, <1>5, <2>2
<1>7. f = [n \in 0..N |->
             IF n = 0 THEN <<>> ELSE IF s[n] \in {"CR", "LF"} THEN f[n - 1] ELSE Append(f[n - 1], s[n])]
  <2>1. ASSUME NEW n \in 0..N
        PROVE f[n] = IF n = 0 THEN <<>> ELSE IF s[n] \in {"CR", "LF"} THEN f[n - 1] ELSE Append(f[n - 1], s[n])
    <3>1. n # 0 => n \in 1..N
      OBVIOUS
    <3>2. CASE n = 0
      BY <1>5, <3>2 DEF z
    <3>3. CASE n # 0
      <4>1. f[n] = Gather(f[n - 1], s[n])
        BY <1>6, <3>1, <3>3
      <4> QED
        BY <3>3, <4>1 DEF Gather
    <3> QED
      BY <3>2, <3>3
  <2> QED
    BY <1>5, <2>1
<1>8. h = [n \in 0..N |->
             IF n = 0 THEN <<>> ELSE IF s[n] \in {"CR", "LF"} THEN h[n - 1] ELSE Append(h[n - 1], s[n])]
  BY <1>7
<1>9. Gathered(s) = h
  BY DEF Gathered
<1> HIDE DEF h
<1>10. h[0] = <<>>
  BY <1>8
<1>11. ASSUME NEW n \in 1..N PROVE h[n] = Gather(h[n - 1], s[n])
  <2>1. n \in 0..N /\ n # 0
    OBVIOUS
  <2> QED
    BY <1>8, <2>1 DEF Gather
<1> DEFINE T == {n \in Nat : n <= N => h[n] \in V}
<1>12. 0 \in T
  BY <1>1, <1>10 DEF z
<1>13. ASSUME NEW n \in Nat, n \in T PROVE n + 1 \in T
  <2> SUFFICES ASSUME n + 1 <= N PROVE h[n + 1] \in V
    OBVIOUS
  <2>1. n + 1 \in 1..N /\ (n + 1) - 1 = n /\ n <= N
    BY <1>1
  <2>2. h[n + 1] = Gather(h[n], s[n + 1])
    BY <1>11, <2>1
  <2>3. h[n] \in V
    BY <1>13, <2>1
  <2> QED
    BY <1>2, <2>1, <2>2, <2>3
<1>14. \A n \in Nat : n \in T
  <2> HIDE DEF T
  <2> QED
    BY <1>12, <1>13, CountUp
<1>15. \A n \in 0..N : h[n] \in V
  BY <1>14
<1> QED
  BY <1>9, <1>10, <1>11, <1>15 DEF V

\* What is gathered first comes first.
LEMMA GatheredGrows ==
  ASSUME NEW S, NEW s \in Seq(S), NEW m \in 0..Len(s)
  PROVE  \A n \in m..Len(s) : Leads(Gathered(s)[m], Gathered(s)[n])
<1> DEFINE g == Gathered(s)
           N == Len(s)
           T == {k \in Nat : m + k <= N => Leads(g[m], g[m + k])}
<1>1. N \in Nat
  OBVIOUS
<1>2. \A n \in 1..N : g[n] = Gather(g[n - 1], s[n])
  BY GatheredStep
<1>3. \A n \in 0..N : g[n] \in Seq(S)
  BY GatheredStep
<1> HIDE DEF g
<1>4. 0 \in T
  <2>1. Len(g[m]) \in Nat
    BY <1>3
  <2> QED
    BY <2>1 DEF Leads
<1>5. ASSUME NEW k \in Nat, k \in T PROVE k + 1 \in T
  <2> SUFFICES ASSUME m + (k + 1) <= N PROVE Leads(g[m], g[m + (k + 1)])
    OBVIOUS
  <2> DEFINE n == m + k
  <2>1. n \in 0..N /\ n + 1 \in 1..N /\ (n + 1) - 1 = n /\ n + 1 = m + (k + 1)
    BY <1>1
  <2>2. Leads(g[m], g[n])
    BY <1>5, <2>1
  <2>3. m + (k + 1) = n + 1
    BY <2>1
  <2> HIDE DEF n
  <2>4. g[n + 1] = Gather(g[n], s[n + 1])
    BY <1>2, <2>1
  <2>5. g[n] \in Seq(S) /\ g[m] \in Seq(S) /\ s[n + 1] \in S
    BY <1>3, <2>1, ElementOfSeq
  <2> DEFINE u == g[n]
             v == g[n + 1]
             x == s[n + 1]
  <2>6. Len(u) \in Nat /\ Len(v) \in Nat /\ Len(u) <= Len(v) /\ \A i \in 1..Len(u) : v[i] = u[i]
    <3>1. Append(u, x) \in Seq(S) /\ Len(Append(u, x)) = Len(u) + 1
          /\ \A i \in 1..Len(u) : Append(u, x)[i] = u[i]
      BY <2>5, AppendProperties
    <3>2. v = u \/ v = Append(u, x)
      BY <2>4 DEF Gather
    <3>3. Len(u) \in Nat
      BY <2>5
    <3> HIDE DEF u, v, x
    <3> QED
      BY <3>1, <3>2, <3>3
  <2>7. Len(g[m]) \in Nat
    BY <2>5
  <2> HIDE DEF u, v, x
  <2>8. Leads(g[m], u)
    BY <2>2 DEF u
  <2>9. Leads(g[m], v)
    BY <2>6, <2>7, <2>8 DEF Leads
  <2> QED
    BY <2>3, <2>9 DEF v
<1>6. \A k \in Nat : k \in T
  <2> HIDE DEF T
  <2> QED
    BY <1>4, <1>5, CountUp
<1>7. ASSUME NEW n \in m..N PROVE Leads(g[m], g[n])
  <2>1. n - m \in Nat /\ m + (n - m) = n /\ n <= N
    BY <1>1
  <2> DEFINE k == n - m
  <2>2. k \in T
    BY <1>6, <2>1
  <2>3. m + k <= N => Leads(g[m], g[m + k])
    BY <2>2
  <2> QED
    BY <2>1, <2>3
<1> QED
  BY <1>7 DEF g

\* What is gathered from the beginning of a string is gathered from the string.
LEMMA GatheredLeads ==
  ASSUME NEW S, NEW s \in Seq(S), NEW t \in Seq(S), Leads(t, s)
  PROVE  Significant(t) = Gathered(s)[Len(t)]
<1> DEFINE g == Gathered(s)
           h == Gathered(t)
           T == {k \in Nat : k <= Len(t) => h[k] = g[k]}
<1>1. Len(s) \in Nat /\ Len(t) \in Nat /\ Len(t) <= Len(s) /\ \A i \in 1..Len(t) : t[i] = s[i]
  BY DEF Leads
<1>2. g[0] = <<>> /\ h[0] = <<>>
  BY GatheredStep
<1>3. \A n \in 1..Len(s) : g[n] = Gather(g[n - 1], s[n])
  BY GatheredStep
<1>4. \A n \in 1..Len(t) : h[n] = Gather(h[n - 1], t[n])
  BY GatheredStep
<1> HIDE DEF g, h
<1>5. 0 \in T
  BY <1>2
<1>6. ASSUME NEW k \in Nat, k \in T PROVE k + 1 \in T
  <2> SUFFICES ASSUME k + 1 <= Len(t) PROVE h[k + 1] = g[k + 1]
    OBVIOUS
  <2>1. k + 1 \in 1..Len(t) /\ k + 1 \in 1..Len(s) /\ (k + 1) - 1 = k /\ k <= Len(t)
    BY <1>1
  <2>2. h[k] = g[k]
    BY <1>6, <2>1
  <2>3. h[k + 1] = Gather(h[k], t[k + 1])
    BY <1>4, <2>1
  <2>4. g[k + 1] = Gather(g[k], s[k + 1])
    BY <1>3, <2>1
  <2>5. t[k + 1] = s[k + 1]
    BY <1>1, <2>1
  <2> QED
    BY <2>2, <2>3, <2>4, <2>5
<1>7. \A k \in Nat : k \in T
  <2> HIDE DEF T
  <2> QED
    BY <1>5, <1>6, CountUp
<1>8. Len(t) \in T
  BY <1>1, <1>7
<1> QED
  BY <1>1, <1>8 DEF Significant, g, h

\* What an object consists of.
Plain == {"CR", "LF", "{", "}", "k", "1", "u1", "u2"}

\* What an object consists of, and what it begins with (IsObject).
LEMMA ObjectBytes ==
  ASSUME NEW S, NEW t \in Seq(S), IsObject(t)
  PROVE  /\ Len(t) >= 1 /\ t[1] \in {"CR", "LF", "{"}
         /\ \A i \in 1..Len(t) : t[i] \in Plain
<1> DEFINE g == Gathered(t)
           N == Len(t)
           w == Significant(t)
<1>1. N \in Nat /\ w = g[N]
  BY DEF Significant
<1>2. g[0] = <<>> /\ (\A n \in 1..N : g[n] = Gather(g[n - 1], t[n])) /\ \A n \in 0..N : g[n] \in Seq(S)
  BY GatheredStep
<1>3. Len(w) >= 3 /\ w[1] = "{" /\ w[Len(w)] = "}"
  BY DEF IsObject
<1>4. \A i \in 2..(Len(w) - 1) : w[i] \in {"k", "1", "u1", "u2"}
  BY DEF IsObject
<1>5. \A m \in 0..N : Leads(g[m], w)
  <2> TAKE m \in 0..N
  <2>1. N \in m..N
    BY <1>1
  <2>2. Leads(g[m], g[N])
    BY <2>1, GatheredGrows
  <2> QED
    BY <1>1, <2>2
<1>6. w \in Seq(S) /\ Len(w) \in Nat
  BY <1>1, <1>2
<1>7. \A i \in 1..Len(w) : w[i] \in Plain
  <2> TAKE i \in 1..Len(w)
  <2>1. i = 1 \/ i = Len(w) \/ i \in 2..(Len(w) - 1)
    BY <1>6
  <2> HIDE DEF w
  <2> QED
    BY <1>3, <1>4, <2>1 DEF Plain
<1>8. N >= 1
  <2>1. CASE N = 0
    <3>1. w = <<>>
      BY <1>1, <1>2, <2>1
    <3>2. Len(w) = 0 /\ Len(w) >= 3
      BY <1>3, <3>1
    <3> DEFINE l == Len(w)
    <3>3. l = 0 /\ l >= 3
      BY <3>2
    <3> HIDE DEF l
    <3>4. FALSE
      BY <3>3
    <3> QED
      BY <3>4
  <2> QED
    BY <1>1, <2>1
<1> HIDE DEF g, w
<1>9. ASSUME NEW i \in 1..N, t[i] \notin {"CR", "LF"}
      PROVE  \E j \in 1..Len(w) : w[j] = t[i] /\ (i = 1 => j = 1)
  <2>1. i - 1 \in 0..N /\ i \in 0..N
    BY <1>1
  <2>2. g[i] = Append(g[i - 1], t[i])
    BY <1>2, <1>9 DEF Gather
  <2> DEFINE u == g[i - 1]
             j == Len(u) + 1
             v == g[i]
  <2>3. u \in Seq(S) /\ t[i] \in S /\ Leads(v, w)
    BY <1>2, <1>5, <2>1, ElementOfSeq
  <2>4. Len(u) \in Nat /\ Len(v) = j /\ v[j] = t[i]
    BY <2>2, <2>3, AppendProperties
  <2>5. i = 1 => j = 1
    <3>1. ASSUME i = 1 PROVE j = 1
      <4>1. i - 1 = 0
        BY <3>1
      <4>2. u = <<>>
        BY <1>2, <4>1
      <4> QED
        BY <4>2
    <3> QED
      BY <3>1
  <2>6. j \in Nat /\ j >= 1
    BY <2>4
  <2> HIDE DEF u, v, j
  <2>7. j \in 1..Len(w) /\ w[j] = v[j]
    BY <1>6, <2>3, <2>4, <2>6 DEF Leads
  <2> QED
    BY <2>4, <2>5, <2>7
<1>10. \A i \in 1..N : t[i] \in Plain
  <2> TAKE i \in 1..N
  <2>1. CASE t[i] \in {"CR", "LF"}
    BY <2>1 DEF Plain
  <2>2. CASE t[i] \notin {"CR", "LF"}
    BY <1>7, <1>9, <2>2
  <2> QED
    BY <2>1, <2>2
<1>11. t[1] \in {"CR", "LF", "{"}
  <2>1. 1 \in 1..N
    BY <1>1, <1>8
  <2> QED
    BY <1>3, <1>9, <2>1
<1> QED
  BY <1>8, <1>10, <1>11

\* An object that begins another one is all of it.
LEMMA ObjectWhole ==
  ASSUME NEW S, NEW s \in Seq(S), NEW t \in Seq(S), Leads(t, s), IsObject(s), IsObject(t)
  PROVE  Significant(t) = Significant(s)
<1> DEFINE g == Gathered(s)
           v == Significant(t)
           w == Significant(s)
<1>1. Len(s) \in Nat /\ Len(t) \in Nat /\ Len(t) <= Len(s)
  BY DEF Leads
<1>2. v = g[Len(t)] /\ w = g[Len(s)]
  BY GatheredLeads DEF Significant
<1>3. Len(t) \in 0..Len(s) /\ Len(s) \in Len(t)..Len(s) /\ Len(s) \in 0..Len(s)
  BY <1>1
<1>4. Leads(v, w) /\ v \in Seq(S) /\ w \in Seq(S)
  BY <1>2, <1>3, GatheredGrows, GatheredStep
<1>5. Len(v) >= 3 /\ v[Len(v)] = "}"
  BY DEF IsObject
<1>6. \A i \in 2..(Len(w) - 1) : w[i] \in {"k", "1", "u1", "u2"}
  BY DEF IsObject
<1> HIDE DEF v, w, g
<1>7. Len(v) \in Nat /\ Len(w) \in Nat /\ Len(v) <= Len(w) /\ \A i \in 1..Len(v) : v[i] = w[i]
  BY <1>4 DEF Leads
<1>8. Len(v) = Len(w)
  <2>1. CASE Len(v) < Len(w)
    <3> DEFINE l == Len(v)
               m == Len(w)
    <3>0. l \in Nat /\ m \in Nat /\ l >= 3 /\ l < m
      BY <1>5, <1>7, <2>1
    <3> HIDE DEF l, m
    <3>9. l \in 2..(m - 1) /\ l \in 1..l
      BY <3>0
    <3>1. Len(v) \in 2..(Len(w) - 1) /\ Len(v) \in 1..Len(v)
      BY <3>9 DEF l, m
    <3>2. w[Len(v)] = "}"
      BY <1>5, <1>7, <3>1
    <3>3. w[Len(v)] \in {"k", "1", "u1", "u2"}
      BY <1>6, <3>1
    <3> QED
      BY <3>2, <3>3
  <2> QED
    BY <1>7, <2>1
<1> QED
  BY <1>4, <1>7, <1>8, SeqEqual DEF v, w

-----------------------------------------------------------------------------
(* Reading chunks.                                                         *)

\* A size line is found in the string, and gives a number.
LEMMA LineRead ==
  ASSUME NEW S, NEW b \in Seq(S), NEW p \in 1..(Len(b) + 1), Find(b, Crlf, p) # 0
  PROVE  /\ Find(b, Crlf, p) \in p..(Len(b) - 1)
         /\ Line(b, p) \in Seq(S)
         /\ SizeOf(Line(b, p)) \in Nat
<1> DEFINE f == Find(b, Crlf, p)
           line == Line(b, p)
           semi == Find(line, <<";">>, 1)
<1>1. Len(b) \in Nat /\ p \in Nat \ {0}
  OBVIOUS
<1>2. f \in p..(Len(b) - 1)
  BY <1>1, FindCrlf
<1> HIDE DEF f
<1>3. line = SubSeq(b, p, f - 1) /\ f - 1 \in (p - 1)..Len(b)
  BY <1>1, <1>2 DEF Line, f
<1>4. line \in Seq(S)
  BY <1>3, Stretch
<1>5. SizeOf(line) = Hex(IF semi = 0 THEN line ELSE SubSeq(line, 1, semi - 1))
  BY DEF SizeOf
<1>6. Len(line) \in Nat /\ 1 \in Nat /\ Len(<<";">>) = 1
  BY <1>4
<1> HIDE DEF line
<1>7. semi = 0 \/ semi \in 1..Len(line)
  <2>1. Len(line) + 1 - 1 = Len(line)
    BY <1>6
  <2>2. semi = 0 \/ semi \in 1..(Len(line) + 1 - Len(<<";">>))
    <3>1. Len(<<";">>) \in Nat
      BY <1>6
    <3> QED
      BY <1>6, <3>1, FindRange
  <2> QED
    BY <1>6, <2>1, <2>2
<1> HIDE DEF semi
<1>8. semi # 0 => SubSeq(line, 1, semi - 1) \in Seq(S)
  <2>1. semi # 0 => semi - 1 \in 0..Len(line) /\ 1 \in 1..(Len(line) + 1)
    BY <1>6, <1>7
  <2>2. semi # 0 => semi - 1 \in (1 - 1)..Len(line)
    BY <2>1
  <2> QED
    BY <1>4, <2>1, <2>2, Stretch
<1>9. SizeOf(line) \in Nat
  <2>1. CASE semi = 0
    BY <1>5, <1>6, <2>1, HexIs
  <2>2. CASE semi # 0
    <3>1. Len(SubSeq(line, 1, semi - 1)) \in Nat
      BY <1>8, <2>2
    <3> QED
      BY <1>5, <2>2, <3>1, HexIs
  <2> QED
    BY <2>1, <2>2
<1> QED
  BY <1>2, <1>4, <1>9 DEF f, line

\* The next chunk is ahead, in the string or just behind it.
LEMMA FollowingAhead ==
  ASSUME NEW S, NEW b \in Seq(S), NEW p \in 1..(Len(b) + 1), ~Ends(b, p)
  PROVE  Following(b, p) \in (p + 1)..(Len(b) + 1)
<1> DEFINE f == Find(b, Crlf, p)
           size == SizeOf(Line(b, p))
           q == Behind(b, p)
           g == Find(b, Crlf, q)
<1>1. Len(b) \in Nat /\ p \in Nat
  OBVIOUS
<1>2. f # 0 /\ size # 0 /\ ~(q > Len(b) + 1)
  BY DEF Ends
<1>3. f \in p..(Len(b) - 1) /\ size \in Nat
  BY <1>2, LineRead
<1>4. q = f + 2 + size
  BY DEF Behind
<1> HIDE DEF f, size, q
<1>5. q \in (p + 1)..(Len(b) + 1) /\ q \in Nat \ {0}
  BY <1>1, <1>2, <1>3, <1>4
<1>6. g = 0 \/ g \in q..(Len(b) - 1)
  BY <1>5, FindCrlf
<1>7. Following(b, p) = IF g = q THEN q + 2 ELSE q
  BY DEF Following, q
<1> HIDE DEF g
<1> QED
  BY <1>1, <1>5, <1>6, <1>7

\* What is read from a place of b on, for f the reading behind it.
Reads(f, b, p) == IF Ends(b, p) THEN <<>> ELSE Data(b, p) \o f[Following(b, p)]

\* A string is read from its end to its beginning.
LEMMA ReadingExists ==
  ASSUME NEW S, NEW b \in Seq(S)
  PROVE  \E f : f = [p \in 1..(Len(b) + 1) |-> Reads(f, b, p)]
<1> DEFINE N == Len(b) + 1
           FromPlace(f, o) == f = [p \in o..N |-> Reads(f, b, p)]
           T == {m \in Nat : m < N => \E f : FromPlace(f, N - m)}
<1>1. N \in Nat \ {0}
  OBVIOUS
<1> HIDE DEF N
<1>2. ASSUME NEW o \in 1..N, NEW f, o < N => FromPlace(f, o + 1)
      PROVE  \E g : FromPlace(g, o)
  <2> DEFINE g == [p \in o..N |-> IF p = o THEN Reads(f, b, o) ELSE f[p]]
  <2>1. ASSUME NEW p \in o..N, ~Ends(b, p)
        PROVE  g[Following(b, p)] = f[Following(b, p)]
    <3>1. p \in 1..(Len(b) + 1)
      BY DEF N
    <3>2. Following(b, p) \in (p + 1)..N
      BY <2>1, <3>1, FollowingAhead DEF N
    <3>3. Following(b, p) \in o..N /\ Following(b, p) # o
      BY <3>2
    <3> QED
      BY <3>3
  <2>2. ASSUME NEW p \in o..N PROVE g[p] = Reads(g, b, p)
    <3>1. Reads(g, b, p) = Reads(f, b, p)
      <4> HIDE DEF g
      <4> QED
        BY <2>1 DEF Reads
    <3>2. CASE p = o
      <4>1. g[p] = Reads(f, b, o)
        BY <3>2
      <4> QED
        BY <3>1, <3>2, <4>1
    <3>3. CASE p # o
      <4>1. p \in (o + 1)..N /\ o < N
        BY <1>1, <3>3
      <4>2. g[p] = f[p]
        BY <3>3
      <4>3. f[p] = Reads(f, b, p)
        BY <1>2, <4>1
      <4> QED
        BY <3>1, <4>2, <4>3
    <3> QED
      BY <3>2, <3>3
  <2>3. g = [p \in o..N |-> g[p]]
    OBVIOUS
  <2> HIDE DEF g
  <2>4. g = [p \in o..N |-> Reads(g, b, p)]
    BY <2>2, <2>3
  <2>5. FromPlace(g, o)
    BY <2>4
  <2> HIDE DEF FromPlace
  <2> QED
    BY <2>5
<1> HIDE DEF FromPlace
<1>3. 0 \in T
  <2>1. N \in 1..N /\ ~(N < N) /\ N - 0 = N
    BY <1>1
  <2>2. \E g : FromPlace(g, N)
    BY <1>2, <2>1
  <2> QED
    BY <2>1, <2>2
<1>4. ASSUME NEW m \in Nat, m \in T PROVE m + 1 \in T
  <2> SUFFICES ASSUME m + 1 < N PROVE \E f : FromPlace(f, N - (m + 1))
    OBVIOUS
  <2> DEFINE o == N - (m + 1)
  <2>1. o \in 1..N /\ o + 1 = N - m /\ m < N
    BY <1>1
  <2>2. PICK f : FromPlace(f, N - m)
    BY <1>4, <2>1
  <2>3. FromPlace(f, o + 1)
    BY <2>1, <2>2
  <2> HIDE DEF o
  <2>4. \E g : FromPlace(g, o)
    BY <1>2, <2>1, <2>3
  <2> QED
    BY <2>4 DEF o
<1>5. \A m \in Nat : m \in T
  <2> HIDE DEF T
  <2> QED
    BY <1>3, <1>4, CountUp
<1>6. N - 1 \in T /\ N - 1 < N /\ N - (N - 1) = 1
  BY <1>1, <1>5
<1>7. \E f : FromPlace(f, 1)
  BY <1>6
<1> QED
  BY <1>7 DEF FromPlace, N

\* One chunk after another.
LEMMA DecodedStep ==
  ASSUME NEW S, NEW b \in Seq(S), NEW p \in 1..(Len(b) + 1)
  PROVE  Decoded(b)[p] = Reads(Decoded(b), b, p)
<1> DEFINE h == CHOOSE f : f = [x \in 1..(Len(b) + 1) |->
                  IF Ends(b, x) THEN <<>> ELSE Data(b, x) \o f[Following(b, x)]]
<1>1. \E f : f = [x \in 1..(Len(b) + 1) |->
                  IF Ends(b, x) THEN <<>> ELSE Data(b, x) \o f[Following(b, x)]]
  BY ReadingExists DEF Reads
<1>2. h = [x \in 1..(Len(b) + 1) |->
                  IF Ends(b, x) THEN <<>> ELSE Data(b, x) \o h[Following(b, x)]]
  BY <1>1
<1>3. Decoded(b) = h
  BY DEF Decoded
<1> HIDE DEF h
<1> QED
  BY <1>2, <1>3 DEF Reads

\* Nothing is read from the last byte on.
LEMMA EndsBehind ==
  ASSUME NEW S, NEW b \in Seq(S), NEW p \in 1..(Len(b) + 1), p >= Len(b)
  PROVE  Ends(b, p) /\ Decoded(b)[p] = <<>>
<1>1. Len(b) \in Nat /\ p \in Nat \ {0}
  OBVIOUS
<1>2. Find(b, Crlf, p) = 0
  BY <1>1, FindCrlf
<1>3. Ends(b, p)
  BY <1>2 DEF Ends
<1> QED
  BY <1>3, DecodedStep DEF Reads

\* The bytes an extension takes.
Ext(e) == IF e THEN 1 ELSE 0

\* The size l, written at place p of r.
SizeAt(r, p, l, e) ==
  /\ r[p] = Numeral[l + 1] /\ (e => r[p + 1] = ";")
  /\ r[p + Ext(e) + 1] = "CR" /\ r[p + Ext(e) + 2] = "LF"

\* The chunk of d, written there.
ChunkAt(r, p, d, e) ==
  /\ SizeAt(r, p, Len(d), e)
  /\ \A j \in 1..Len(d) : r[p + Ext(e) + 2 + j] = d[j]
  /\ r[p + Ext(e) + Len(d) + 3] = "CR" /\ r[p + Ext(e) + Len(d) + 4] = "LF"

\* A semicolon in a size line.
LEMMA SemiIs ==
  ASSUME NEW S, NEW s \in Seq(S)
  PROVE  /\ Len(s) = 1 /\ s[1] # ";" => Find(s, <<";">>, 1) = 0
         /\ Len(s) = 2 /\ s[1] # ";" /\ s[2] = ";" => Find(s, <<";">>, 1) = 2
<1> DEFINE semi == <<";">>
           A == Begins(s, semi, 1)
<1>1. Len(s) \in Nat /\ Len(semi) = 1
  OBVIOUS
<1>2. ASSUME NEW i \in 1..Len(s) PROVE SubSeq(s, i, i + Len(semi) - 1) = semi <=> s[i] = ";"
  <2>1. i \in 1..(Len(s) + 1) /\ i \in (i - 1)..Len(s) /\ i + Len(semi) - 1 = i /\ i - i + 1 = 1
    BY <1>1
  <2> DEFINE u == SubSeq(s, i, i)
  <2>2. u \in Seq(S) /\ Len(u) = 1 /\ \A j \in 1..1 : u[j] = s[i + j - 1]
    BY <2>1, Stretch
  <2>3. u[1] = s[i]
    <3>1. 1 \in 1..1 /\ i + 1 - 1 = i
      BY <2>1
    <3> HIDE DEF u
    <3> QED
      BY <2>2, <3>1
  <2> HIDE DEF u
  <2>4. u = semi <=> u[1] = ";"
    <3>1. u = <<u[1]>>
      BY <2>2
    <3>2. semi[1] = ";"
      OBVIOUS
    <3>3. u = semi => u[1] = ";"
      BY <3>2
    <3>4. u[1] = ";" => u = semi
      BY <3>1
    <3> QED
      BY <3>3, <3>4
  <2> QED
    BY <2>1, <2>3, <2>4 DEF u
<1>3. A = {i \in 1..Len(s) : s[i] = ";"}
  <2>1. Len(s) + 1 - Len(semi) = Len(s)
    BY <1>1
  <2> QED
    BY <1>2, <2>1 DEF Begins
<1>4. /\ A = {} => Find(s, semi, 1) = 0
      /\ \A x \in A : (\A j \in A : x <= j) => Find(s, semi, 1) = x
  <2>1. Len(s) \in Nat /\ Len(semi) \in Nat /\ 1 \in Nat
    BY <1>1
  <2> HIDE DEF semi
  <2> QED
    BY <2>1, FindIs
<1> HIDE DEF A, semi
<1>5. ASSUME Len(s) = 1, s[1] # ";" PROVE Find(s, semi, 1) = 0
  <2>1. \A i \in 1..1 : i = 1
    OBVIOUS
  <2>2. A = {}
    BY <1>3, <1>5, <2>1
  <2> QED
    BY <1>4, <2>2
<1>6. ASSUME Len(s) = 2, s[1] # ";", s[2] = ";" PROVE Find(s, semi, 1) = 2
  <2>1. (\A i \in 1..2 : i = 1 \/ i = 2) /\ 2 \in 1..2
    OBVIOUS
  <2>2. 2 \in A /\ \A j \in A : j = 2
    BY <1>3, <1>6, <2>1
  <2> QED
    BY <1>4, <2>2
<1> QED
  BY <1>5, <1>6 DEF semi

\* A size that is there, or the beginning of it, is found and read.
LEMMA ReadSize ==
  ASSUME NEW S, NEW b \in Seq(S), NEW r, Leads(b, r), NEW p \in 1..(Len(b) + 1),
         NEW l \in 0..7, NEW e \in BOOLEAN, SizeAt(r, p, l, e), Find(b, Crlf, p) # 0
  PROVE  /\ Find(b, Crlf, p) = p + Ext(e) + 1
         /\ SizeOf(Line(b, p)) = l
<1> DEFINE f == Find(b, Crlf, p)
           k == Ext(e)
           x == p + k + 1
           line == Line(b, p)
<1>1. Len(b) \in Nat /\ p \in Nat \ {0} /\ k \in 0..1
  BY DEF Ext
<1>2. \A i \in 1..Len(b) : b[i] = r[i]
  BY DEF Leads
<1>3. f \in p..(Len(b) - 1)
  BY LineRead
<1>4. e <=> k = 1
  BY DEF Ext
<1>5. Numeral[l + 1] \in DOMAIN Digits /\ Digits[Numeral[l + 1]] = l
  BY DigitsAre
<1>6. Numeral[l + 1] # "CR" /\ Numeral[l + 1] # ";"
  BY <1>5, DigitsAre
<1>7. r[p] = Numeral[l + 1] /\ (k = 1 => r[p + 1] = ";") /\ r[x] = "CR" /\ r[x + 1] = "LF"
  <2>1. x + 1 = p + k + 2
    BY <1>1
  <2> QED
    BY <1>4, <2>1 DEF SizeAt
<1> HIDE DEF k, f
<1>8. PICK i \in p..(Len(b) - 1) : b[i] = "CR"
  BY <1>1, <1>3, FindCrlf DEF f
<1>9. i \in 1..Len(b) /\ i # p /\ (k = 1 => i # p + 1)
  <2>1. i \in 1..Len(b)
    BY <1>1, <1>8
  <2>2. r[i] = "CR"
    BY <1>2, <1>8, <2>1
  <2> QED
    BY <1>6, <1>7, <2>1, <2>2
<1>10. x \in p..(Len(b) - 1) /\ p \in 1..Len(b) /\ x \in 1..Len(b) /\ x + 1 \in 1..Len(b)
  BY <1>1, <1>8, <1>9
<1>11. b[x] = "CR" /\ b[x + 1] = "LF"
  <2> HIDE DEF x
  <2> QED
    BY <1>2, <1>7, <1>10
<1>12. b[p] = Numeral[l + 1] /\ (k = 1 => p + 1 \in 1..Len(b) /\ b[p + 1] = ";")
  <2>1. k = 1 => p + 1 \in 1..Len(b)
    BY <1>1, <1>10
  <2>2. b[p] = r[p] /\ (k = 1 => b[p + 1] = r[p + 1])
    BY <1>2, <1>10, <2>1
  <2> HIDE DEF x
  <2> QED
    BY <1>7, <2>1, <2>2
<1>13. \A j \in p..(x - 1) : b[j] # "CR"
  <2> TAKE j \in p..(x - 1)
  <2>1. j = p \/ (k = 1 /\ j = p + 1)
    BY <1>1
  <2> QED
    BY <1>6, <1>12, <2>1
<1>14. f = x
  <2> HIDE DEF x
  <2> QED
    BY <1>1, <1>10, <1>11, <1>13, FindCrlf DEF f
<1>15. /\ line \in Seq(S) /\ Len(line) = k + 1
       /\ line[1] = Numeral[l + 1] /\ (k = 1 => line[2] = ";")
  <2>1. line = SubSeq(b, p, x - 1)
    BY <1>14 DEF Line, f
  <2>2. x - 1 \in (p - 1)..Len(b) /\ (x - 1) - p + 1 = k + 1
    BY <1>1, <1>10
  <2> DEFINE y == x - 1
             u == SubSeq(b, p, y)
  <2>3. y \in (p - 1)..Len(b) /\ y - p + 1 = k + 1
    BY <2>2
  <2> HIDE DEF y
  <2>4. u \in Seq(S) /\ Len(u) = y - p + 1 /\ \A j \in 1..(y - p + 1) : u[j] = b[p + j - 1]
    BY <2>3, Stretch
  <2>5. line = u
    BY <2>1 DEF y
  <2>6. 1 \in 1..(k + 1) /\ p + 1 - 1 = p /\ (k = 1 => 2 \in 1..(k + 1)) /\ p + 2 - 1 = p + 1
    BY <1>1
  <2> HIDE DEF u, line
  <2>7. u[1] = b[p] /\ (k = 1 => u[2] = b[p + 1])
    BY <2>3, <2>4, <2>6
  <2> QED
    BY <1>12, <2>3, <2>4, <2>5, <2>7
<1> HIDE DEF line, x
<1> DEFINE semi == Find(line, <<";">>, 1)
<1>16. SizeOf(line) = Hex(IF semi = 0 THEN line ELSE SubSeq(line, 1, semi - 1))
  BY DEF SizeOf
<1>17. CASE k = 0
  <2>1. Len(line) = 1
    <3>1. 0 + 1 = 1
      OBVIOUS
    <3> HIDE DEF semi
    <3> QED
      BY <1>15, <1>17, <3>1, Zenon
  <2>2. semi = 0
    BY <1>6, <1>15, <2>1, SemiIs
  <2>3. Hex(line) = l
    <3>1. Len(line) \in Nat
      BY <2>1
    <3>2. line[1] \in DOMAIN Digits /\ Digits[line[1]] = l
      BY <1>5, <1>15, Zenon
    <3> QED
      BY <2>1, <3>1, <3>2, HexIs
  <2> QED
    BY <1>14, <1>16, <2>2, <2>3 DEF f, line, x, k
<1>18. CASE k = 1
  <2>1. Len(line) = 2
    <3>1. 1 + 1 = 2
      OBVIOUS
    <3> HIDE DEF semi
    <3> QED
      BY <1>15, <1>18, <3>1, Zenon
  <2>2. semi = 2
    BY <1>6, <1>15, <1>18, <2>1, SemiIs
  <2> DEFINE u == SubSeq(line, 1, 1)
  <2>3. SizeOf(line) = Hex(u)
    <3> HIDE DEF semi
    <3>1. semi # 0 /\ semi - 1 = 1
      BY <2>2
    <3>2. SubSeq(line, 1, semi - 1) = u
      BY <3>1
    <3> HIDE DEF u
    <3> QED
      BY <1>16, <3>1, <3>2
  <2>4. Len(u) = 1 /\ u[1] = line[1]
    <3>1. 1 \in 1..(Len(line) + 1) /\ 1 \in (1 - 1)..Len(line)
      BY <2>1
    <3>2. Len(u) = 1 - 1 + 1 /\ \A j \in 1..(1 - 1 + 1) : u[j] = line[1 + j - 1]
      BY <1>15, <3>1, Stretch
    <3>3. 1 \in 1..(1 - 1 + 1) /\ 1 - 1 + 1 = 1 /\ 1 + 1 - 1 = 1
      OBVIOUS
    <3> HIDE DEF u
    <3> QED
      BY <3>2, <3>3
  <2> HIDE DEF u
  <2>5. Hex(u) = l
    <3>1. Len(u) \in Nat
      BY <2>4
    <3>2. u[1] \in DOMAIN Digits /\ Digits[u[1]] = l
      BY <1>5, <1>15, <2>4, Zenon
    <3> QED
      BY <2>4, <3>1, <3>2, HexIs
  <2> QED
    BY <1>14, <2>3, <2>5 DEF f, line, x, k
<1> QED
  BY <1>1, <1>17, <1>18

\* A chunk that is there is read, and so is the place of the one behind it; of
\* the beginning of a chunk nothing is read.
LEMMA ReadChunk ==
  ASSUME NEW S, NEW b \in Seq(S), NEW r, Leads(b, r), NEW p \in 1..(Len(b) + 1),
         NEW d \in Seq(S), Len(d) \in 1..7, NEW e \in BOOLEAN, ChunkAt(r, p, d, e), ~Ends(b, p)
  PROVE  /\ Data(b, p) = Slice(d)
         /\ \/ Following(b, p) = p + Ext(e) + Len(d) + 5
            \/ Following(b, p) >= Len(b)
<1> DEFINE f == Find(b, Crlf, p)
           k == Ext(e)
           l == Len(d)
           size == SizeOf(Line(b, p))
           q == Behind(b, p)
<1>1. Len(b) \in Nat /\ p \in Nat \ {0} /\ k \in 0..1 /\ l \in 1..7
  BY DEF Ext
<1>2. \A i \in 1..Len(b) : b[i] = r[i]
  BY DEF Leads
<1>3. f # 0 /\ ~(q > Len(b) + 1)
  BY DEF Ends
<1>4. f = p + k + 1 /\ size = l
  <2>1. l \in 0..7 /\ SizeAt(r, p, l, e)
    BY <1>1 DEF ChunkAt
  <2> HIDE DEF l
  <2> QED
    BY <1>3, <2>1, ReadSize
<1>5. q = f + 2 + size
  BY DEF Behind
<1>6. \A j \in 1..l : r[p + k + 2 + j] = d[j]
  BY DEF ChunkAt
<1>7. r[p + k + l + 3] = "CR" /\ r[p + k + l + 4] = "LF"
  BY DEF ChunkAt
<1>8. Data(b, p) = Slice(SubSeq(b, f + 2, q - 1))
  BY DEF Data
<1>9. Following(b, p) = IF Find(b, Crlf, q) = q THEN q + 2 ELSE q
  BY DEF Following
<1> HIDE DEF f, k, l, size, q
<1>10. q = p + k + l + 3 /\ f + 2 = p + k + 3 /\ q \in 1..(Len(b) + 1)
  BY <1>1, <1>3, <1>4, <1>5
<1> DEFINE m == p + k + 3
           n == q - 1
           u == SubSeq(b, m, n)
<1>11. m \in 1..(Len(b) + 1) /\ n \in (m - 1)..Len(b) /\ n - m + 1 = l
  BY <1>1, <1>10
<1>12. SubSeq(b, f + 2, q - 1) = u
  BY <1>10
<1>13. u = d
  <2>1. \A j \in 1..l : m + j - 1 \in 1..Len(b) /\ m + j - 1 = p + k + 2 + j
    BY <1>1, <1>10
  <2> HIDE DEF m, n
  <2>2. u \in Seq(S) /\ Len(u) = n - m + 1 /\ \A j \in 1..(n - m + 1) : u[j] = b[m + j - 1]
    BY <1>11, Stretch
  <2>3. Len(u) = l /\ \A j \in 1..l : u[j] = b[m + j - 1]
    BY <1>11, <2>2
  <2>4. \A j \in 1..l : u[j] = d[j]
    <3> TAKE j \in 1..l
    <3>1. u[j] = b[m + j - 1] /\ m + j - 1 \in 1..Len(b)
      BY <2>1, <2>3
    <3>2. b[m + j - 1] = r[m + j - 1]
      BY <1>2, <3>1
    <3>3. r[m + j - 1] = r[p + k + 2 + j] /\ r[p + k + 2 + j] = d[j]
      BY <1>6, <2>1
    <3> QED
      BY <3>1, <3>2, <3>3
  <2> HIDE DEF u
  <2> QED
    BY <2>2, <2>3, <2>4, SeqEqual DEF l
<1> HIDE DEF u, m, n
<1>14. Data(b, p) = Slice(d)
  BY <1>8, <1>12, <1>13
<1>15. q < Len(b) => Find(b, Crlf, q) = q
  <2>1. ASSUME q < Len(b) PROVE b[q] = "CR" /\ b[q + 1] = "LF"
    <3>1. q \in 1..Len(b) /\ q + 1 \in 1..Len(b) /\ q + 1 = p + k + l + 4
      BY <1>1, <1>10, <2>1
    <3>2. b[q] = r[q] /\ b[q + 1] = r[q + 1]
      BY <1>2, <3>1
    <3>3. r[q] = "CR" /\ r[q + 1] = "LF"
      BY <1>7, <1>10, <3>1
    <3> QED
      BY <3>2, <3>3
  <2>2. q \in Nat \ {0}
    BY <1>1, <1>10
  <2> QED
    BY <2>1, <2>2, FindCrlf
<1>16. Following(b, p) = p + k + l + 5 \/ Following(b, p) >= Len(b)
  <2>1. q + 2 = p + k + l + 5
    BY <1>1, <1>10
  <2> QED
    BY <1>1, <1>9, <1>10, <1>15, <2>1
<1> QED
  BY <1>14, <1>16 DEF k, l

-----------------------------------------------------------------------------
(* What a chunked answer holds.                                            *)

\* What a string holds that another one is put behind.
LEMMA CatHolds ==
  ASSUME NEW s \in Bytes, NEW t \in Bytes
  PROVE  /\ Len(Cat(s, t)) = Len(s) + Len(t)
         /\ Leads(s, Cat(s, t))
         /\ \A j \in 1..Len(t) : Cat(s, t)[Len(s) + j] = t[j]
<1> DEFINE c == Cat(s, t)
           m == Len(s)
           n == Len(t)
<1>1. /\ Len(c) = m + n
      /\ \A i \in 1..(m + n) : c[i] = IF i <= m THEN s[i] ELSE t[i - m]
  BY ConcatProperties DEF Bytes, Cat
<1>2. m \in Nat /\ n \in Nat
  BY DEF Bytes
<1> HIDE DEF c, m, n
<1>3. ASSUME NEW i \in 1..m PROVE c[i] = s[i]
  <2>1. i \in 1..(m + n) /\ i <= m
    BY <1>2
  <2> QED
    BY <1>1, <2>1
<1>4. ASSUME NEW j \in 1..n PROVE c[m + j] = t[j]
  <2>1. m + j \in 1..(m + n) /\ ~(m + j <= m) /\ (m + j) - m = j
    BY <1>2
  <2> QED
    BY <1>1, <2>1
<1>5. m <= Len(c)
  BY <1>1, <1>2
<1> QED
  BY <1>1, <1>3, <1>4, <1>5 DEF Leads, c, m, n

\* The beginning of the beginning of a string is its beginning.
LEMMA LeadsOn ==
  ASSUME NEW r, NEW s, NEW t, Len(r) \in Nat, Len(s) \in Nat, Len(t) \in Nat, Leads(r, s), Leads(s, t)
  PROVE  Leads(r, t)
<1>1. Len(r) <= Len(s) /\ Len(s) <= Len(t)
  BY DEF Leads
<1>2. ASSUME NEW i \in 1..Len(r) PROVE r[i] = t[i]
  <2>1. i \in 1..Len(s)
    BY <1>1
  <2> QED
    BY <2>1 DEF Leads
<1> QED
  BY <1>1, <1>2 DEF Leads

\* P tells where each of the strings that are joined begins, and where the last ends.
PlacesOf(P, s) ==
  /\ P \in [1..(Len(s) + 1) -> Nat \ {0}]
  /\ P[1] = 1 /\ P[Len(s) + 1] = Len(FlattenSeq(s)) + 1
  /\ \A i \in 1..Len(s) :
       /\ P[i + 1] = P[i] + Len(s[i]) /\ P[i + 1] <= P[Len(s) + 1]
       /\ \A j \in 1..Len(s[i]) : FlattenSeq(s)[P[i] + j - 1] = s[i][j]

\* The places of the strings that are joined.
LEMMA LaidOut ==
  ASSUME NEW s, Len(s) \in Nat \ {0}, \A i \in 1..Len(s) : s[i] \in Bytes
  PROVE  \E P : PlacesOf(P, s)
<1> DEFINE N == Len(s)
           F == FlattenSeq(s)
<1>1. PICK z \in [0..N -> Bytes] : /\ z[0] = <<>> /\ z[N] = F
                                   /\ \A i \in 1..N : z[i] = Cat(z[i - 1], s[i])
  BY FlattenStep
<1>2. N \in Nat \ {0} /\ \A i \in 1..N : s[i] \in Bytes
  OBVIOUS
<1> HIDE DEF N, F
<1>3. \A i \in 0..N : Len(z[i]) \in Nat
  <2> TAKE i \in 0..N
  <2>1. z[i] \in Seq(Byte)
    BY <1>1 DEF Bytes
  <2> QED
    BY <2>1
<1>4. ASSUME NEW i \in 1..N
      PROVE  /\ Len(z[i]) = Len(z[i - 1]) + Len(s[i])
             /\ Leads(z[i - 1], z[i])
             /\ \A j \in 1..Len(s[i]) : z[i][Len(z[i - 1]) + j] = s[i][j]
  <2>1. i - 1 \in 0..N
    BY <1>2
  <2>2. z[i - 1] \in Bytes /\ s[i] \in Bytes /\ z[i] = Cat(z[i - 1], s[i])
    BY <1>1, <1>2, <2>1
  <2> DEFINE u == z[i - 1]
             w == s[i]
             c == Cat(u, w)
  <2>3. u \in Bytes /\ w \in Bytes /\ z[i] = c
    BY <2>2
  <2> HIDE DEF u, w
  <2>4. Len(c) = Len(u) + Len(w) /\ Leads(u, c) /\ \A j \in 1..Len(w) : c[Len(u) + j] = w[j]
    BY <2>3, CatHolds
  <2> HIDE DEF c
  <2> QED
    BY <2>3, <2>4, Zenon DEF u, w
<1>5. ASSUME NEW i \in 0..N PROVE Leads(z[i], F)
  <2> DEFINE T == {k \in Nat : k <= N => Leads(z[N - k], F)}
  <2>1. 0 \in T
    <3>1. N - 0 = N /\ N \in 0..N
      BY <1>2
    <3>2. Len(F) \in Nat
      BY <1>1, <1>3, <3>1
    <3>3. Leads(F, F)
      BY <3>2 DEF Leads
    <3> QED
      BY <1>1, <3>1, <3>3
  <2>2. ASSUME NEW k \in Nat, k \in T PROVE k + 1 \in T
    <3> SUFFICES ASSUME k + 1 <= N PROVE Leads(z[N - (k + 1)], F)
      OBVIOUS
    <3> DEFINE m == N - k
    <3>1. m \in 1..N /\ m \in 0..N /\ m - 1 \in 0..N /\ m - 1 = N - (k + 1) /\ N \in 0..N /\ k <= N
      BY <1>2
    <3>2. Leads(z[m], F)
      BY <2>2, <3>1
    <3> HIDE DEF m
    <3>3. Leads(z[m - 1], z[m])
      BY <1>4, <3>1
    <3>4. Len(z[m]) \in Nat /\ Len(z[m - 1]) \in Nat /\ Len(F) \in Nat
      BY <1>1, <1>3, <3>1
    <3>5. Leads(z[m - 1], F)
      BY <3>2, <3>3, <3>4, LeadsOn
    <3> QED
      BY <3>1, <3>5
  <2>3. \A k \in Nat : k \in T
    <3> HIDE DEF T
    <3> QED
      BY <2>1, <2>2, CountUp
  <2> DEFINE k == N - i
  <2>4. k \in Nat /\ k <= N /\ N - k = i
    BY <1>2
  <2>5. k <= N => Leads(z[N - k], F)
    BY <2>3, <2>4
  <2> QED
    BY <2>4, <2>5
<1> DEFINE P == [i \in 1..(N + 1) |-> Len(z[i - 1]) + 1]
<1>6. \A i \in 1..(N + 1) : P[i] = Len(z[i - 1]) + 1 /\ i - 1 \in 0..N
  BY <1>2
<1>7. P \in [1..(N + 1) -> Nat \ {0}]
  <2>1. \A i \in 1..(N + 1) : Len(z[i - 1]) + 1 \in Nat \ {0}
    <3> TAKE i \in 1..(N + 1)
    <3>1. Len(z[i - 1]) \in Nat
      BY <1>3, <1>6
    <3> QED
      BY <3>1
  <2> QED
    BY <2>1
<1> HIDE DEF P
<1>8. P[1] = 1
  <2>1. 1 \in 1..(N + 1) /\ 1 - 1 = 0 /\ Len(<<>>) = 0
    BY <1>2
  <2>2. P[1] = Len(z[0]) + 1
    BY <1>6, <2>1
  <2> QED
    BY <1>1, <2>1, <2>2
<1>9. P[N + 1] = Len(F) + 1
  <2>1. N + 1 \in 1..(N + 1) /\ (N + 1) - 1 = N
    BY <1>2
  <2> QED
    BY <1>1, <1>6, <2>1
<1>10. ASSUME NEW i \in 1..N
       PROVE  /\ P[i + 1] = P[i] + Len(s[i]) /\ P[i + 1] <= P[N + 1]
              /\ \A j \in 1..Len(s[i]) : F[P[i] + j - 1] = s[i][j]
  <2>1. i \in 1..(N + 1) /\ i + 1 \in 1..(N + 1) /\ (i + 1) - 1 = i /\ i \in 0..N /\ i - 1 \in 0..N
    BY <1>2
  <2> DEFINE u == z[i - 1]
             v == z[i]
             w == s[i]
             a == Len(u)
             c == Len(w)
  <2>2. P[i] = a + 1 /\ P[i + 1] = Len(v) + 1
    BY <1>6, <2>1
  <2>3. Len(v) = a + c /\ (\A j \in 1..c : v[a + j] = w[j]) /\ Leads(v, F)
    BY <1>4, <1>5, <2>1
  <2>4. a \in Nat /\ c \in Nat /\ Len(F) \in Nat
    <3>1. w \in Seq(Byte)
      BY <1>2 DEF Bytes
    <3>2. N \in 0..N
      BY <1>2
    <3> QED
      BY <1>1, <1>3, <2>1, <3>1, <3>2
  <2>5. Len(v) <= Len(F) /\ \A j \in 1..Len(v) : v[j] = F[j]
    BY <2>3 DEF Leads
  <2> HIDE DEF u, v, w, a, c
  <2>6. P[i + 1] = P[i] + c /\ P[i + 1] <= P[N + 1]
    BY <1>9, <2>2, <2>3, <2>4, <2>5
  <2>7. ASSUME NEW j \in 1..c PROVE F[P[i] + j - 1] = w[j]
    <3>1. a + j \in 1..Len(v) /\ P[i] + j - 1 = a + j
      BY <2>2, <2>3, <2>4
    <3>2. v[a + j] = F[a + j]
      BY <2>5, <3>1
    <3> QED
      BY <2>3, <3>1, <3>2
  <2> QED
    BY <2>6, <2>7 DEF w, c
<1> QED
  BY <1>7, <1>8, <1>9, <1>10 DEF N, F, PlacesOf

\* What a chunk holds.
LEMMA ChunkHolds ==
  ASSUME NEW d \in Bytes, Len(d) \in 0..7, NEW e \in BOOLEAN
  PROVE  /\ Len(Chunk(d, e)) = Ext(e) + Len(d) + 5
         /\ ChunkAt(Chunk(d, e), 1, d, e)
<1> DEFINE size == <<Numeral[Len(d) + 1]>>
           ext == IF e THEN <<";">> ELSE <<>>
           k == Ext(e)
           l == Len(d)
           x1 == Cat(size, ext)
           x2 == Cat(x1, Crlf)
           x3 == Cat(x2, d)
           x4 == Cat(x3, Crlf)
<1>1. size \in Bytes /\ Len(size) = 1 /\ size[1] = Numeral[l + 1]
  <2>1. l + 1 \in 1..8
    <3>1. l \in 0..7
      OBVIOUS
    <3> HIDE DEF l
    <3> QED
      BY <3>1
  <2>2. Numeral[l + 1] \in Byte
    BY <2>1 DEF Byte
  <2> QED
    BY <2>2 DEF Bytes
<1>2. ext \in Bytes /\ Len(ext) = k /\ (e => ext[1] = ";")
  BY MarksAreBytes DEF Ext
<1>3. Crlf \in Bytes /\ Len(Crlf) = 2 /\ Crlf[1] = "CR" /\ Crlf[2] = "LF"
  BY MarksAreBytes DEF Crlf
<1>4. Chunk(d, e) = x4
  BY DEF Chunk, Cat
<1>5. k \in 0..1 /\ (e => k = 1) /\ l \in 0..7
  BY DEF Ext
<1> HIDE DEF size, ext, k, l
<1>6. x1 \in Bytes /\ Len(x1) = 1 + k /\ x1[1] = Numeral[l + 1] /\ (e => x1[2] = ";")
  <2>1. x1 \in Bytes
    BY <1>1, <1>2, CatTypes
  <2>2. Len(x1) = 1 + k /\ Leads(size, x1) /\ \A j \in 1..k : x1[1 + j] = ext[j]
    <3>1. Len(x1) = Len(size) + Len(ext) /\ Leads(size, x1) /\ \A j \in 1..Len(ext) : x1[Len(size) + j] = ext[j]
      BY <1>1, <1>2, CatHolds
    <3> HIDE DEF x1
    <3> QED
      BY <1>1, <1>2, <3>1, Zenon
  <2>3. 1 \in 1..1 /\ (e => 1 \in 1..k) /\ 1 + 1 = 2
    BY <1>5
  <2> HIDE DEF x1
  <2>4. x1[1] = size[1]
    BY <1>1, <2>2, <2>3 DEF Leads
  <2>5. e => x1[2] = ext[1]
    BY <2>2, <2>3
  <2> QED
    BY <1>1, <1>2, <2>1, <2>2, <2>4, <2>5
<1> HIDE DEF x1
<1>7. /\ x2 \in Bytes /\ Len(x2) = 3 + k /\ Leads(x1, x2)
      /\ x2[k + 2] = "CR" /\ x2[k + 3] = "LF"
  <2>1. x2 \in Bytes
    BY <1>3, <1>6, CatTypes
  <2>2. Len(x2) = Len(x1) + 2 /\ Leads(x1, x2) /\ \A j \in 1..2 : x2[Len(x1) + j] = Crlf[j]
    <3>1. Len(x2) = Len(x1) + Len(Crlf) /\ Leads(x1, x2) /\ \A j \in 1..Len(Crlf) : x2[Len(x1) + j] = Crlf[j]
      BY <1>3, <1>6, CatHolds
    <3> HIDE DEF x2
    <3> QED
      BY <1>3, <3>1, Zenon
  <2>3. 1 \in 1..2 /\ 2 \in 1..2 /\ (1 + k) + 1 = k + 2 /\ (1 + k) + 2 = k + 3 /\ k + 3 = 3 + k
    BY <1>5
  <2> HIDE DEF x2
  <2>4. x2[(1 + k) + 1] = Crlf[1] /\ x2[(1 + k) + 2] = Crlf[2]
    BY <1>6, <2>2, <2>3, Zenon
  <2>5. x2[k + 2] = "CR" /\ x2[k + 3] = "LF"
    BY <1>3, <2>3, <2>4
  <2>6. Len(x2) = 3 + k
    <3>1. Len(x2) = (1 + k) + 2
      BY <1>6, <2>2
    <3> QED
      BY <1>5, <3>1
  <2> QED
    BY <2>1, <2>2, <2>5, <2>6
<1> HIDE DEF x2
<1>8. /\ x3 \in Bytes /\ Len(x3) = 3 + k + l /\ Leads(x2, x3)
      /\ \A j \in 1..l : x3[3 + k + j] = d[j]
  <2>1. x3 \in Bytes
    BY <1>7, CatTypes
  <2>2. Len(x3) = Len(x2) + l /\ Leads(x2, x3) /\ \A j \in 1..l : x3[Len(x2) + j] = d[j]
    <3>1. Len(x3) = Len(x2) + Len(d) /\ Leads(x2, x3) /\ \A j \in 1..Len(d) : x3[Len(x2) + j] = d[j]
      BY <1>7, CatHolds
    <3> HIDE DEF x3
    <3> QED
      BY <3>1 DEF l
  <2> HIDE DEF x3
  <2> QED
    BY <1>7, <2>1, <2>2
<1> HIDE DEF x3
<1>9. /\ x4 \in Bytes /\ Len(x4) = 5 + k + l /\ Leads(x3, x4)
      /\ x4[k + l + 4] = "CR" /\ x4[k + l + 5] = "LF"
  <2>1. x4 \in Bytes
    BY <1>3, <1>8, CatTypes
  <2>2. Len(x4) = Len(x3) + 2 /\ Leads(x3, x4) /\ \A j \in 1..2 : x4[Len(x3) + j] = Crlf[j]
    <3>1. Len(x4) = Len(x3) + Len(Crlf) /\ Leads(x3, x4) /\ \A j \in 1..Len(Crlf) : x4[Len(x3) + j] = Crlf[j]
      BY <1>3, <1>8, CatHolds
    <3> HIDE DEF x4
    <3> QED
      BY <1>3, <3>1, Zenon
  <2>3. 1 \in 1..2 /\ 2 \in 1..2 /\ (3 + k + l) + 1 = k + l + 4 /\ (3 + k + l) + 2 = k + l + 5
    BY <1>5
  <2> HIDE DEF x4
  <2>4. x4[(3 + k + l) + 1] = Crlf[1] /\ x4[(3 + k + l) + 2] = Crlf[2]
    BY <1>8, <2>2, <2>3, Zenon
  <2>5. x4[k + l + 4] = "CR" /\ x4[k + l + 5] = "LF"
    BY <1>3, <2>3, <2>4
  <2>6. Len(x4) = 5 + k + l
    <3>1. Len(x4) = (3 + k + l) + 2
      BY <1>8, <2>2
    <3> QED
      BY <1>5, <3>1
  <2> QED
    BY <2>1, <2>2, <2>5, <2>6
<1> HIDE DEF x4
<1>10. Leads(x2, x4) /\ Leads(x1, x4)
  <2>1. Len(x1) \in Nat /\ Len(x2) \in Nat /\ Len(x3) \in Nat /\ Len(x4) \in Nat
    <3>1. \A x \in Bytes : Len(x) \in Nat
      BY DEF Bytes
    <3> QED
      BY <1>6, <1>7, <1>8, <1>9, <3>1
  <2>2. Leads(x2, x4)
    BY <1>8, <1>9, <2>1, LeadsOn
  <2>3. Leads(x1, x4)
    BY <1>7, <2>1, <2>2, LeadsOn
  <2> QED
    BY <2>2, <2>3
<1>11. x4[1] = Numeral[l + 1] /\ (e => x4[2] = ";")
  <2>1. 1 \in 1..(1 + k) /\ (e => 2 \in 1..(1 + k))
    BY <1>5
  <2>2. \A i \in 1..(1 + k) : x1[i] = x4[i]
    BY <1>6, <1>10 DEF Leads
  <2> QED
    BY <1>6, <2>1, <2>2
<1>12. x4[k + 2] = "CR" /\ x4[k + 3] = "LF"
  <2>1. k + 2 \in 1..(3 + k) /\ k + 3 \in 1..(3 + k)
    BY <1>5
  <2>2. \A i \in 1..(3 + k) : x2[i] = x4[i]
    BY <1>7, <1>10 DEF Leads
  <2> QED
    BY <1>7, <2>1, <2>2
<1>13. \A j \in 1..l : x4[3 + k + j] = d[j]
  <2> TAKE j \in 1..l
  <2>1. 3 + k + j \in 1..(3 + k + l)
    BY <1>5
  <2>2. \A i \in 1..(3 + k + l) : x3[i] = x4[i]
    BY <1>8, <1>9 DEF Leads
  <2> QED
    BY <1>8, <2>1, <2>2
<1>14. /\ 1 + k + 1 = k + 2 /\ 1 + k + 2 = k + 3 /\ 1 + 1 = 2
       /\ \A j \in 1..l : 1 + k + 2 + j = 3 + k + j
       /\ 1 + k + l + 3 = k + l + 4 /\ 1 + k + l + 4 = k + l + 5
       /\ 5 + k + l = k + l + 5
  BY <1>5
<1>15. SizeAt(x4, 1, l, e)
  BY <1>11, <1>12, <1>14 DEF SizeAt, k
<1>16. ChunkAt(x4, 1, d, e)
  BY <1>9, <1>13, <1>14, <1>15 DEF ChunkAt, k, l
<1> QED
  BY <1>4, <1>9, <1>14, <1>16 DEF k, l

\* The bytes of the marks.
LEMMA MarksHold ==
  /\ Len(Crlf) = 2 /\ Crlf[1] = "CR" /\ Crlf[2] = "LF" /\ 1 \in 1..2 /\ 2 \in 1..2
  /\ Len(<<"0">>) = 1 /\ <<"0">>[1] = "0" /\ 1 \in 1..1
BY DEF Crlf

\* Where the i-th part of an object begins, less one, and the part.
Cut(c, i) == IF i = 1 THEN 0 ELSE c[i - 1]
Part(b, c, i) == SubSeq(b, Cut(c, i) + 1, c[i])

\* The parts an object is cut into.
LEMMA PartsAre ==
  ASSUME NEW b \in Bytes, Len(b) \in 1..7, NEW c \in Cuts(b)
  PROVE  /\ Len(c) \in Nat \ {0} /\ DOMAIN c = 1..Len(c) /\ c[Len(c)] = Len(b)
         /\ \A i \in 1..Len(c) :
              /\ c[i] \in 1..Len(b) /\ Cut(c, i) \in 0..(c[i] - 1)
              /\ Part(b, c, i) \in Bytes /\ Len(Part(b, c, i)) = c[i] - Cut(c, i)
              /\ Len(Part(b, c, i)) \in 1..7
<1>1. PICK n \in 1..MaxChunks : c \in [1..n -> 1..Len(b)]
  BY DEF Cuts
<1>2. n \in Nat \ {0} /\ Len(c) = n /\ DOMAIN c = 1..n
  BY <1>1, ResponseAssumption
<1>3. c[n] = Len(b) /\ \A i \in 1..n : i > 1 => c[i - 1] < c[i]
  BY <1>2 DEF Cuts
<1>4. ASSUME NEW i \in 1..n
      PROVE  /\ c[i] \in 1..Len(b) /\ Cut(c, i) \in 0..(c[i] - 1)
             /\ Part(b, c, i) \in Bytes /\ Len(Part(b, c, i)) = c[i] - Cut(c, i)
             /\ Len(Part(b, c, i)) \in 1..7
  <2> DEFINE k == Cut(c, i)
             x == c[i]
             m == k + 1
             L == Len(b)
  <2>1. x \in 1..L /\ L \in 1..7
    BY <1>1
  <2>2. k \in 0..(x - 1)
    <3>1. CASE i = 1
      <4>1. k = 0
        BY <3>1 DEF Cut
      <4> HIDE DEF k, x, L
      <4> QED
        BY <2>1, <4>1
    <3>2. CASE i # 1
      <4>1. i - 1 \in 1..n /\ i > 1
        BY <1>2, <3>2
      <4> DEFINE y == c[i - 1]
      <4>2. y \in 1..L /\ y < x /\ k = y
        BY <1>1, <1>3, <3>2, <4>1 DEF Cut
      <4> HIDE DEF k, x, y, L
      <4> QED
        BY <2>1, <4>2
    <3> QED
      BY <3>1, <3>2
  <2>3. Part(b, c, i) = SubSeq(b, m, x)
    BY DEF Part
  <2> HIDE DEF k, x, L
  <2>4. m \in 1..(L + 1) /\ x \in (m - 1)..L /\ x - m + 1 = x - k /\ x - k \in 1..7
    <3>1. x \in Nat /\ k \in Nat /\ L \in Nat /\ x <= L /\ L <= 7 /\ k < x
      BY <2>1, <2>2
    <3>2. m \in 1..(L + 1) /\ x \in (m - 1)..L
      BY <3>1
    <3>3. x - m + 1 = x - k /\ x - k \in 1..7
      BY <3>1
    <3> QED
      BY <3>2, <3>3
  <2> HIDE DEF m
  <2>5. SubSeq(b, m, x) \in Seq(Byte) /\ Len(SubSeq(b, m, x)) = x - m + 1
    BY <2>4, Stretch DEF Bytes, L
  <2>6. Part(b, c, i) \in Bytes
    BY <2>3, <2>5 DEF Bytes
  <2>7. Len(Part(b, c, i)) = x - k
    BY <2>3, <2>4, <2>5
  <2> QED
    <3>1. Len(Part(b, c, i)) \in 1..7
      BY <2>4, <2>7
    <3> QED
      BY <2>1, <2>2, <2>6, <2>7, <3>1 DEF k, x, L
<1> QED
  BY <1>2, <1>3, <1>4

\* A chunk stays one where its bytes are.
LEMMA ChunkMoves ==
  ASSUME NEW d \in Bytes, Len(d) \in 1..7, NEW e \in BOOLEAN, NEW r, NEW p \in Nat \ {0},
         \A j \in 1..Len(Chunk(d, e)) : r[p + j - 1] = Chunk(d, e)[j]
  PROVE  ChunkAt(r, p, d, e)
<1> DEFINE x == Chunk(d, e)
           k == Ext(e)
           l == Len(d)
<1>1. k \in 0..1 /\ (e => k = 1) /\ l \in 1..7
  BY DEF Ext
<1>2. Len(x) = k + l + 5 /\ ChunkAt(x, 1, d, e)
  <2>1. Len(d) \in 0..7
    OBVIOUS
  <2> QED
    BY <2>1, ChunkHolds
<1>3. \A j \in 1..(k + l + 5) : r[p + j - 1] = x[j]
  BY <1>2
<1>4. /\ x[1] = Numeral[l + 1] /\ (e => x[1 + 1] = ";") /\ x[1 + k + 1] = "CR" /\ x[1 + k + 2] = "LF"
      /\ \A j \in 1..l : x[1 + k + 2 + j] = d[j]
      /\ x[1 + k + l + 3] = "CR" /\ x[1 + k + l + 4] = "LF"
  BY <1>2 DEF ChunkAt, SizeAt
<1> HIDE DEF x, k, l
<1>5. \A j \in 0..(k + l + 4) : r[p + j] = x[1 + j]
  <2> TAKE j \in 0..(k + l + 4)
  <2>1. 1 + j \in 1..(k + l + 5) /\ p + (1 + j) - 1 = p + j
    BY <1>1
  <2> QED
    BY <1>3, <2>1
<1>6. r[p] = x[1] /\ (e => r[p + 1] = x[1 + 1])
  <2>1. 0 \in 0..(k + l + 4) /\ 1 \in 0..(k + l + 4) /\ p + 0 = p /\ 1 + 0 = 1
    BY <1>1
  <2> QED
    BY <1>5, <2>1
<1>7. r[p + k + 1] = x[1 + k + 1] /\ r[p + k + 2] = x[1 + k + 2]
  <2>1. k + 1 \in 0..(k + l + 4) /\ k + 2 \in 0..(k + l + 4)
    BY <1>1
  <2>2. p + (k + 1) = p + k + 1 /\ 1 + (k + 1) = 1 + k + 1
    BY <1>1
  <2>3. p + (k + 2) = p + k + 2 /\ 1 + (k + 2) = 1 + k + 2
    BY <1>1
  <2>4. r[p + (k + 1)] = x[1 + (k + 1)] /\ r[p + (k + 2)] = x[1 + (k + 2)]
    BY <1>5, <2>1
  <2> QED
    BY <2>2, <2>3, <2>4, Zenon
<1>8. \A j \in 1..l : r[p + k + 2 + j] = x[1 + k + 2 + j]
  <2> TAKE j \in 1..l
  <2>1. k + 2 + j \in 0..(k + l + 4)
    BY <1>1
  <2>2. p + (k + 2 + j) = p + k + 2 + j /\ 1 + (k + 2 + j) = 1 + k + 2 + j
    BY <1>1
  <2>3. r[p + (k + 2 + j)] = x[1 + (k + 2 + j)]
    BY <1>5, <2>1
  <2> QED
    BY <2>2, <2>3, Zenon
<1>9. r[p + k + l + 3] = x[1 + k + l + 3] /\ r[p + k + l + 4] = x[1 + k + l + 4]
  <2>1. k + l + 3 \in 0..(k + l + 4) /\ k + l + 4 \in 0..(k + l + 4)
    BY <1>1
  <2>2. p + (k + l + 3) = p + k + l + 3 /\ 1 + (k + l + 3) = 1 + k + l + 3
    BY <1>1
  <2>3. p + (k + l + 4) = p + k + l + 4 /\ 1 + (k + l + 4) = 1 + k + l + 4
    BY <1>1
  <2>4. r[p + (k + l + 3)] = x[1 + (k + l + 3)] /\ r[p + (k + l + 4)] = x[1 + (k + l + 4)]
    BY <1>5, <2>1
  <2> QED
    BY <2>2, <2>3, <2>4, Zenon
<1>10. SizeAt(r, p, l, e)
  BY <1>4, <1>6, <1>7, Zenon DEF SizeAt, k
<1> QED
  BY <1>4, <1>8, <1>9, <1>10, Zenon DEF ChunkAt, k, l

\* P tells where in a chunked answer its chunks begin, the last one included.
ChunksBegin(P, b, c, e) ==
  /\ P \in [1..(Len(c) + 1) -> Nat \ {0}]
  /\ P[1] = 1 /\ SizeAt(Chunked(b, c, e), P[Len(c) + 1], 0, FALSE)
  /\ Chunked(b, c, e)[P[Len(c) + 1] + 3] = "CR" /\ Chunked(b, c, e)[P[Len(c) + 1] + 4] = "LF"
  /\ Len(Chunked(b, c, e)) = P[Len(c) + 1] + 4
  /\ \A i \in 1..Len(c) :
       /\ P[i + 1] <= P[Len(c) + 1]
       /\ ChunkAt(Chunked(b, c, e), P[i], Part(b, c, i), e)
       /\ P[i + 1] = P[i] + Ext(e) + Len(Part(b, c, i)) + 5

\* Where the chunks of an answer are, and its last one.
LEMMA ChunkedLayout ==
  ASSUME NEW b \in Bytes, Len(b) \in 1..7, NEW c \in Cuts(b), NEW e \in BOOLEAN
  PROVE  \E P : ChunksBegin(P, b, c, e)
<1> DEFINE N == Len(c)
           s == [i \in DOMAIN c |-> Chunk(Part(b, c, i), e)]
           F == FlattenSeq(s)
           r == Chunked(b, c, e)
           x1 == Cat(F, <<"0">>)
           x2 == Cat(x1, Crlf)
           x3 == Cat(x2, Crlf)
<1>1. N \in Nat \ {0} /\ DOMAIN c = 1..N /\ \A i \in 1..N : Part(b, c, i) \in Bytes /\ Len(Part(b, c, i)) \in 1..7
  BY PartsAre
<1>2. r = x3
  BY DEF Chunked, Part, Cut, Cat
<1> HIDE DEF N
<1>3. ASSUME NEW i \in 1..N
      PROVE  /\ s[i] = Chunk(Part(b, c, i), e) /\ s[i] \in Bytes
             /\ Len(s[i]) = Ext(e) + Len(Part(b, c, i)) + 5
  <2> DEFINE d == Part(b, c, i)
  <2>1. d \in Bytes /\ Len(d) \in 0..7
    <3>1. d \in Bytes /\ Len(d) \in 1..7
      BY <1>1
    <3> HIDE DEF d
    <3> QED
      BY <3>1
  <2>2. s[i] = Chunk(d, e)
    BY <1>1
  <2> HIDE DEF d, s
  <2> QED
    BY <2>1, <2>2, ChunkTypes, ChunkHolds DEF d
<1>4. Len(s) = N
  BY <1>1
<1> HIDE DEF s, r
<1>15. PICK P : PlacesOf(P, s)
  BY <1>1, <1>3, <1>4, LaidOut
<1>5.      /\ P \in [1..(N + 1) -> Nat \ {0}]
           /\ P[1] = 1 /\ P[N + 1] = Len(F) + 1
           /\ \A i \in 1..N :
                /\ P[i + 1] = P[i] + Len(s[i]) /\ P[i + 1] <= P[N + 1]
                /\ \A j \in 1..Len(s[i]) : F[P[i] + j - 1] = s[i][j]
  BY <1>4, <1>15, Zenon DEF PlacesOf, F
<1>6. F \in Bytes
  BY <1>1, <1>3, <1>4, FlattenTypes
<1> HIDE DEF F
<1>7. x1 \in Bytes /\ x2 \in Bytes /\ r \in Bytes
  BY <1>2, <1>6, MarksAreBytes, CatTypes
<1>8. /\ Len(x1) = Len(F) + 1 /\ Leads(F, x1) /\ x1[Len(F) + 1] = "0"
  <2> DEFINE zero == <<"0">>
  <2>1. zero \in Bytes /\ Len(zero) = 1 /\ zero[1] = "0" /\ 1 \in 1..1
    BY MarksAreBytes, MarksHold
  <2>2. x1 = Cat(F, zero)
    OBVIOUS
  <2> HIDE DEF x1, zero
  <2>3. Len(x1) = Len(F) + Len(zero) /\ Leads(F, x1) /\ \A j \in 1..Len(zero) : x1[Len(F) + j] = zero[j]
    BY <1>6, <2>1, <2>2, CatHolds
  <2> QED
    BY <2>1, <2>3, Zenon
<1>9. /\ Len(x2) = Len(x1) + 2 /\ Leads(x1, x2) /\ x2[Len(x1) + 1] = "CR" /\ x2[Len(x1) + 2] = "LF"
  <2>1. Crlf \in Bytes /\ Len(Crlf) = 2 /\ Crlf[1] = "CR" /\ Crlf[2] = "LF" /\ 1 \in 1..2 /\ 2 \in 1..2
    BY MarksAreBytes, MarksHold
  <2>2. x2 = Cat(x1, Crlf)
    OBVIOUS
  <2> HIDE DEF x1, x2
  <2>3. Len(x2) = Len(x1) + Len(Crlf) /\ Leads(x1, x2) /\ \A j \in 1..Len(Crlf) : x2[Len(x1) + j] = Crlf[j]
    BY <1>7, <2>1, <2>2, CatHolds
  <2> QED
    BY <2>1, <2>3, Zenon
<1>10. Leads(x2, r) /\ Len(r) = Len(x2) + 2 /\ r[Len(x2) + 1] = "CR" /\ r[Len(x2) + 2] = "LF"
  <2>1. Crlf \in Bytes /\ Len(Crlf) = 2 /\ Crlf[1] = "CR" /\ Crlf[2] = "LF" /\ 1 \in 1..2 /\ 2 \in 1..2
    BY MarksAreBytes, MarksHold
  <2>2. r = Cat(x2, Crlf)
    BY <1>2
  <2> HIDE DEF x2
  <2>3. Len(r) = Len(x2) + Len(Crlf) /\ Leads(x2, r) /\ \A j \in 1..Len(Crlf) : r[Len(x2) + j] = Crlf[j]
    BY <1>7, <2>1, <2>2, CatHolds
  <2> QED
    BY <2>1, <2>3, Zenon
<1> HIDE DEF x1, x2
<1>11. Len(F) \in Nat /\ Len(x1) \in Nat /\ Len(x2) \in Nat /\ Len(r) \in Nat
  <2>1. \A x \in Bytes : Len(x) \in Nat
    BY DEF Bytes
  <2> QED
    BY <1>6, <1>7, <2>1
<1>12. Leads(x1, r) /\ Leads(F, r)
  <2>1. Leads(x1, r)
    BY <1>9, <1>10, <1>11, LeadsOn
  <2>2. Leads(F, r)
    BY <1>8, <1>11, <2>1, LeadsOn
  <2> QED
    BY <2>1, <2>2
<1>13. SizeAt(r, P[N + 1], 0, FALSE)
  <2> DEFINE p == Len(F) + 1
  <2>1. p \in 1..Len(x1) /\ p = Len(x1) /\ Len(x1) + 1 \in 1..Len(x2) /\ Len(x1) + 2 \in 1..Len(x2)
    BY <1>8, <1>9, <1>11
  <2>2. Ext(FALSE) = 0 /\ p + 0 + 1 = Len(x1) + 1 /\ p + 0 + 2 = Len(x1) + 2
    BY <1>11, <2>1 DEF Ext
  <2>3. r[p] = "0"
    <3>1. x1[p] = r[p]
      BY <1>12, <2>1 DEF Leads
    <3> QED
      BY <1>8, <3>1
  <2>4. r[Len(x1) + 1] = "CR" /\ r[Len(x1) + 2] = "LF"
    <3>1. \A i \in 1..Len(x2) : x2[i] = r[i]
      BY <1>10 DEF Leads
    <3> QED
      BY <1>9, <2>1, <3>1
  <2>5. Numeral[0 + 1] = "0"
    BY DEF Numeral
  <2>6. P[N + 1] = p
    BY <1>5
  <2> HIDE DEF p
  <2>7. r[p + Ext(FALSE) + 1] = "CR" /\ r[p + Ext(FALSE) + 2] = "LF"
    BY <2>2, <2>4, Zenon
  <2>8. SizeAt(r, p, 0, FALSE)
    BY <2>3, <2>5, <2>7 DEF SizeAt
  <2> QED
    BY <2>6, <2>8
<1>16. r[P[N + 1] + 3] = "CR" /\ r[P[N + 1] + 4] = "LF" /\ Len(r) = P[N + 1] + 4
  <2>1. P[N + 1] + 3 = Len(x2) + 1 /\ P[N + 1] + 4 = Len(x2) + 2
    BY <1>5, <1>8, <1>9, <1>11
  <2> QED
    BY <1>10, <2>1
<1>14. ASSUME NEW i \in 1..N
       PROVE  ChunkAt(r, P[i], Part(b, c, i), e) /\ P[i + 1] = P[i] + Ext(e) + Len(Part(b, c, i)) + 5
  <2> DEFINE d == Part(b, c, i)
             x == s[i]
             p == P[i]
             l == Len(x)
             M == Len(F)
  <2>1. p \in Nat \ {0} /\ P[i + 1] = p + l /\ P[i + 1] <= M + 1 /\ \A j \in 1..l : F[p + j - 1] = x[j]
    <3>1. i \in 1..(N + 1)
      BY <1>1
    <3>2. P[i] \in Nat \ {0}
      BY <1>5, <3>1
    <3> QED
      BY <1>5, <3>2
  <2>2. x = Chunk(d, e) /\ d \in Bytes /\ Len(d) \in 1..7 /\ l = Ext(e) + Len(d) + 5
    BY <1>1, <1>3
  <2>3. M \in Nat /\ \A j \in 1..M : F[j] = r[j]
    BY <1>11, <1>12 DEF Leads
  <2>4. Ext(e) \in 0..1
    BY DEF Ext
  <2> HIDE DEF d, x, p, l, M
  <2>5. l \in Nat
    BY <2>2, <2>4
  <2>6. p + l <= M + 1
    BY <2>1
  <2>7. \A j \in 1..l : r[p + j - 1] = x[j]
    <3> TAKE j \in 1..l
    <3>1. p + j - 1 \in 1..M
      BY <2>1, <2>3, <2>5, <2>6
    <3> QED
      BY <2>1, <2>3, <3>1
  <2>8. ChunkAt(r, p, d, e)
    BY <2>1, <2>2, <2>7, ChunkMoves DEF l
  <2>9. P[i + 1] = p + Ext(e) + Len(d) + 5
    <3> DEFINE y == Len(d)
    <3>1. y \in 1..7 /\ l = Ext(e) + y + 5
      BY <2>2
    <3> HIDE DEF y
    <3>2. P[i + 1] = p + Ext(e) + y + 5
      BY <2>1, <2>4, <3>1
    <3> QED
      BY <3>2 DEF y
  <2> QED
    BY <2>8, <2>9 DEF d, p
<1> QED
  BY <1>5, <1>13, <1>14, <1>16 DEF N, r, ChunksBegin

\* Bytes, and what stands for a panic (Slice).
Tokens == Seq(Byte \cup {"panic"})

\* x is the object from its i-th part to some place, or the guest has panicked.
PartFrom(b, c, i, x) ==
  /\ x \in Tokens
  /\ \/ \E j \in 1..Len(x) : x[j] = "panic"
     \/ \E m \in Cut(c, i)..Len(b) : x = SubSeq(b, Cut(c, i) + 1, m)

\* Bytes are tokens.
LEMMA BytesAreTokens == \A x \in Bytes : x \in Tokens
<1> SUFFICES ASSUME NEW x \in Bytes PROVE x \in Tokens
  OBVIOUS
<1>1. x \in Seq(Byte)
  BY DEF Bytes
<1>2. Len(x) \in Nat /\ x = [i \in 1..Len(x) |-> x[i]] /\ \A i \in 1..Len(x) : x[i] \in Byte
  BY <1>1
<1>3. x \in [1..Len(x) -> Byte \cup {"panic"}]
  BY <1>2
<1> QED
  BY <1>2, <1>3 DEF Tokens

\* Two strings of tokens make one, with what both hold.
LEMMA TokensJoin ==
  ASSUME NEW s \in Tokens, NEW t \in Tokens
  PROVE  /\ Cat(s, t) \in Tokens
         /\ Len(Cat(s, t)) = Len(s) + Len(t)
         /\ \A i \in 1..Len(s) : Cat(s, t)[i] = s[i]
         /\ \A j \in 1..Len(t) : Cat(s, t)[Len(s) + j] = t[j]
<1> DEFINE u == Cat(s, t)
           m == Len(s)
           n == Len(t)
<1>1. /\ u \in Tokens /\ Len(u) = m + n
      /\ \A i \in 1..(m + n) : u[i] = IF i <= m THEN s[i] ELSE t[i - m]
  BY ConcatProperties DEF Tokens, Cat
<1>2. m \in Nat /\ n \in Nat
  BY DEF Tokens
<1> HIDE DEF u, m, n
<1>3. ASSUME NEW i \in 1..m PROVE u[i] = s[i]
  <2>1. i \in 1..(m + n) /\ i <= m
    BY <1>2
  <2> QED
    BY <1>1, <2>1
<1>4. ASSUME NEW j \in 1..n PROVE u[m + j] = t[j]
  <2>1. m + j \in 1..(m + n) /\ ~(m + j <= m) /\ (m + j) - m = j
    BY <1>2
  <2> QED
    BY <1>1, <2>1
<1> QED
  BY <1>1, <1>3, <1>4 DEF u, m, n

\* Nothing is a part.
LEMMA NothingIsPart ==
  ASSUME NEW b \in Bytes, NEW c, NEW i, Cut(c, i) \in 0..Len(b)
  PROVE  PartFrom(b, c, i, <<>>)
<1> DEFINE k == Cut(c, i)
           x == SubSeq(b, k + 1, k)
<1>1. Len(b) \in Nat /\ b \in Seq(Byte)
  BY DEF Bytes
<1>2. k \in 0..Len(b)
  OBVIOUS
<1> HIDE DEF k
<1>3. k + 1 \in 1..(Len(b) + 1) /\ k \in ((k + 1) - 1)..Len(b) /\ k - (k + 1) + 1 = 0
  BY <1>1, <1>2
<1>4. x \in Seq(Byte) /\ Len(x) = k - (k + 1) + 1
  BY <1>1, <1>3, Stretch
<1>5. x = <<>>
  <2>1. x \in Seq(Byte) /\ Len(x) = 0
    BY <1>3, <1>4
  <2> HIDE DEF x
  <2> QED
    BY <2>1
<1>6. <<>> \in Tokens
  BY MarksAreBytes, BytesAreTokens
<1>7. k \in k..Len(b)
  BY <1>1, <1>2
<1> QED
  BY <1>5, <1>6, <1>7 DEF PartFrom, k

\* A part with the ones behind it.
LEMMA PartsJoin ==
  ASSUME NEW b \in Bytes, Len(b) \in 1..7, NEW c \in Cuts(b), NEW i \in 1..Len(c),
         NEW y, PartFrom(b, c, i + 1, y)
  PROVE  PartFrom(b, c, i, Cat(Slice(Part(b, c, i)), y))
<1> DEFINE d == Part(b, c, i)
           k == Cut(c, i)
           q == c[i]
           v == Slice(d)
           x == Cat(v, y)
<1>1. q \in 1..Len(b) /\ k \in 0..(q - 1) /\ d \in Bytes /\ Len(c) \in Nat
  BY PartsAre
<1>2. Cut(c, i + 1) = q
  <2>1. i + 1 # 1 /\ (i + 1) - 1 = i
    BY <1>1
  <2> QED
    BY <2>1 DEF Cut
<1>3. y \in Tokens /\ \/ \E j \in 1..Len(y) : y[j] = "panic"
                      \/ \E m \in q..Len(b) : y = SubSeq(b, q + 1, m)
  BY <1>2 DEF PartFrom
<1>4. d = SubSeq(b, k + 1, q)
  BY DEF Part
<1>5. v = d \/ v = <<"panic">>
  BY DEF Slice
<1> HIDE DEF d, k, q, v
<1>6. CASE v = <<"panic">>
  <2> DEFINE z == <<"panic">>
  <2>1. z \in Tokens /\ Len(z) = 1 /\ z[1] = "panic"
    BY DEF Tokens
  <2>2. v = z
    BY <1>6
  <2> HIDE DEF z
  <2>3. x \in Tokens /\ Len(x) = Len(z) + Len(y) /\ \A j \in 1..Len(z) : x[j] = z[j]
    BY <1>3, <2>1, <2>2, TokensJoin
  <2>4. Len(y) \in Nat
    BY <1>3 DEF Tokens
  <2> HIDE DEF x
  <2>5. 1 \in 1..Len(x) /\ 1 \in 1..Len(z)
    BY <2>1, <2>3, <2>4
  <2>6. x[1] = "panic"
    BY <2>1, <2>3, <2>5
  <2> QED
    BY <2>3, <2>5, <2>6 DEF PartFrom, x, v, d
<1>7. CASE v = d
  <2>1. d \in Tokens
    BY <1>1, BytesAreTokens
  <2>2. x \in Tokens /\ Len(x) = Len(d) + Len(y) /\ \A j \in 1..Len(y) : x[Len(d) + j] = y[j]
    BY <1>3, <1>7, <2>1, TokensJoin
  <2>3. CASE \E j \in 1..Len(y) : y[j] = "panic"
    <3>1. PICK j \in 1..Len(y) : y[j] = "panic"
      BY <2>3
    <3>2. Len(d) \in Nat /\ Len(y) \in Nat
      BY <1>3, <2>1 DEF Tokens
    <3> HIDE DEF x
    <3>3. Len(d) + j \in 1..Len(x) /\ x[Len(d) + j] = "panic"
      BY <2>2, <3>1, <3>2
    <3> QED
      BY <2>2, <3>3 DEF PartFrom, x, v, d
  <2>4. CASE \E m \in q..Len(b) : y = SubSeq(b, q + 1, m)
    <3>1. PICK m \in q..Len(b) : y = SubSeq(b, q + 1, m)
      BY <2>4
    <3>2. b \in Seq(Byte) /\ Len(b) \in Nat
      BY DEF Bytes
    <3>3. k + 1 \in 1..(Len(b) + 1) /\ q \in ((k + 1) - 1)..Len(b) /\ m \in q..Len(b) /\ m \in k..Len(b)
      BY <1>1, <3>2
    <3>4. SubSeq(b, k + 1, q) \o SubSeq(b, q + 1, m) = SubSeq(b, k + 1, m)
      BY <3>2, <3>3, ConcatAdjacentSubSeq
    <3>5. x = SubSeq(b, k + 1, m)
      BY <1>4, <1>7, <3>1, <3>4, Zenon DEF Cat
    <3> HIDE DEF x
    <3> QED
      BY <2>2, <3>3, <3>5 DEF PartFrom, x, v, d, k
  <2> QED
    BY <1>3, <2>3, <2>4
<1> QED
  BY <1>5, <1>6, <1>7 DEF x, v, d

\* From the beginning of a chunked answer the guest decodes the beginning of the
\* object, or it panics (unchunk).
LEMMA DecodedIsPart ==
  ASSUME NEW b \in Bytes, Len(b) \in 1..7, NEW c \in Cuts(b), NEW e \in BOOLEAN,
         NEW t \in Bytes, Leads(t, Chunked(b, c, e))
  PROVE  PartFrom(b, c, 1, Chunks(t))
<1> DEFINE N == Len(c)
           r == Chunked(b, c, e)
           D == Decoded(t)
           L == Len(t)
<1>1. /\ N \in Nat \ {0} /\ c[N] = Len(b)
      /\ \A i \in 1..N : c[i] \in 1..Len(b) /\ Cut(c, i) \in 0..(c[i] - 1)
      /\ \A i \in 1..N : Part(b, c, i) \in Bytes /\ Len(Part(b, c, i)) \in 1..7
  BY PartsAre
<1>14. PICK P : ChunksBegin(P, b, c, e)
  BY ChunkedLayout
<1>2.      /\ P \in [1..(N + 1) -> Nat \ {0}]
           /\ P[1] = 1 /\ SizeAt(r, P[N + 1], 0, FALSE)
           /\ \A i \in 1..N :
                /\ ChunkAt(r, P[i], Part(b, c, i), e)
                /\ P[i + 1] = P[i] + Ext(e) + Len(Part(b, c, i)) + 5
  BY <1>14 DEF ChunksBegin
<1>3. L \in Nat /\ t \in Seq(Byte)
  BY DEF Bytes
<1> HIDE DEF N, r
<1>4. \A p \in 1..(L + 1) : D[p] = Reads(D, t, p)
  BY <1>3, DecodedStep
<1>5. \A p \in 1..(L + 1) : p >= L => D[p] = <<>>
  BY <1>3, EndsBehind
<1>6. \A i \in 1..(N + 1) : Cut(c, i) \in 0..Len(b)
  <2> TAKE i \in 1..(N + 1)
  <2>1. Len(b) \in Nat
    BY DEF Bytes
  <2>2. CASE i = 1
    BY <2>1, <2>2 DEF Cut
  <2>3. CASE i # 1
    <3>1. i - 1 \in 1..N
      BY <1>1, <2>3
    <3>2. c[i - 1] \in 1..Len(b)
      BY <1>1, <3>1
    <3> DEFINE y == c[i - 1]
    <3>3. Cut(c, i) = y /\ y \in 1..Len(b)
      BY <2>3, <3>2 DEF Cut
    <3> HIDE DEF y
    <3> QED
      BY <2>1, <3>3
  <2> QED
    BY <2>2, <2>3
<1> HIDE DEF D, L
<1> DEFINE Holds(i) == P[i] <= L + 1 => PartFrom(b, c, i, D[P[i]])
           T == {k \in Nat : k <= N => Holds(N + 1 - k)}
<1>7. Holds(N + 1)
  <2> SUFFICES ASSUME P[N + 1] <= L + 1 PROVE PartFrom(b, c, N + 1, D[P[N + 1]])
    OBVIOUS
  <2> DEFINE p == P[N + 1]
  <2>1. N + 1 \in 1..(N + 1)
    BY <1>1
  <2>2. p \in Nat \ {0}
    BY <1>2, <2>1
  <2>7. p <= L + 1 /\ SizeAt(r, p, 0, FALSE)
    BY <1>2
  <2> HIDE DEF p
  <2>3. p \in 1..(L + 1)
    BY <1>3, <2>2, <2>7
  <2>4. Ends(t, p)
    <3>1. CASE Find(t, Crlf, p) = 0
      BY <3>1 DEF Ends
    <3>2. CASE Find(t, Crlf, p) # 0
      <4>1. 0 \in 0..7 /\ FALSE \in BOOLEAN
        OBVIOUS
      <4>2. SizeOf(Line(t, p)) = 0
        BY <1>3, <2>3, <2>7, <3>2, <4>1, ReadSize DEF r, L
      <4> QED
        BY <4>2 DEF Ends
    <3> QED
      BY <3>1, <3>2
  <2>5. D[p] = <<>>
    BY <1>4, <2>3, <2>4 DEF Reads
  <2>6. PartFrom(b, c, N + 1, <<>>)
    BY <1>6, <2>1, NothingIsPart
  <2> QED
    BY <2>5, <2>6 DEF p
<1>8. ASSUME NEW i \in 1..N, Holds(i + 1) PROVE Holds(i)
  <2> SUFFICES ASSUME P[i] <= L + 1 PROVE PartFrom(b, c, i, D[P[i]])
    OBVIOUS
  <2> DEFINE p == P[i]
             d == Part(b, c, i)
             q == Following(t, p)
  <2>1. i \in 1..(N + 1) /\ i + 1 \in 1..(N + 1)
    BY <1>1
  <2>2. p \in Nat \ {0} /\ P[i + 1] \in Nat \ {0}
    BY <1>2, <2>1
  <2>3. p \in 1..(L + 1)
    BY <1>3, <2>2
  <2>4. ChunkAt(r, p, d, e) /\ P[i + 1] = p + Ext(e) + Len(d) + 5 /\ d \in Bytes /\ Len(d) \in 1..7
    BY <1>1, <1>2
  <2>5. P[i + 1] <= L + 1 => PartFrom(b, c, i + 1, D[P[i + 1]])
    BY <1>8
  <2> HIDE DEF p
  <2>6. CASE Ends(t, p)
    <3>1. D[p] = <<>>
      BY <1>4, <2>3, <2>6 DEF Reads
    <3>2. PartFrom(b, c, i, <<>>)
      BY <1>6, <2>1, NothingIsPart
    <3> QED
      BY <3>1, <3>2 DEF p
  <2>7. CASE ~Ends(t, p)
    <3>1. D[p] = Data(t, p) \o D[q]
      BY <1>4, <2>3, <2>7 DEF Reads
    <3>2. q \in (p + 1)..(L + 1)
      BY <1>3, <2>3, <2>7, FollowingAhead DEF L
    <3>3. d \in Seq(Byte) /\ Leads(t, r)
      BY <2>4 DEF Bytes, r
    <3>4. Data(t, p) = Slice(d) /\ (q = p + Ext(e) + Len(d) + 5 \/ q >= L)
      <4> HIDE DEF d
      <4> QED
        BY <1>3, <2>3, <2>4, <2>7, <3>3, ReadChunk DEF L
    <3> HIDE DEF q
    <3>5. PartFrom(b, c, i + 1, D[q])
      <4>1. CASE q = P[i + 1]
        BY <1>3, <2>5, <3>2, <4>1
      <4>2. CASE q >= L
        <5>1. q \in 1..(L + 1)
          BY <1>3, <2>2, <3>2
        <5>2. D[q] = <<>>
          BY <1>5, <4>2, <5>1
        <5>3. PartFrom(b, c, i + 1, <<>>)
          BY <1>6, <2>1, NothingIsPart
        <5> QED
          BY <5>2, <5>3
      <4> QED
        BY <2>4, <3>4, <4>1, <4>2
    <3>6. PartFrom(b, c, i, Cat(Slice(d), D[q]))
      BY <3>5, PartsJoin DEF N
    <3>7. D[p] = Cat(Slice(d), D[q])
      <4> HIDE DEF d
      <4> QED
        BY <3>1, <3>4, Zenon DEF Cat
    <3> QED
      BY <3>6, <3>7 DEF p
  <2> QED
    BY <2>6, <2>7
<1> HIDE DEF Holds
<1>9. 0 \in T
  <2>1. N + 1 - 0 = N + 1
    BY <1>1
  <2> QED
    BY <1>7, <2>1
<1>10. ASSUME NEW k \in Nat, k \in T PROVE k + 1 \in T
  <2> SUFFICES ASSUME k + 1 <= N PROVE Holds(N + 1 - (k + 1))
    OBVIOUS
  <2> DEFINE i == N + 1 - (k + 1)
  <2>1. i \in 1..N /\ i + 1 = N + 1 - k /\ k <= N
    BY <1>1
  <2>2. Holds(i + 1)
    BY <1>10, <2>1
  <2> HIDE DEF i
  <2>3. Holds(i)
    BY <1>8, <2>1, <2>2
  <2> QED
    BY <2>3 DEF i
<1>11. \A k \in Nat : k \in T
  <2> HIDE DEF T
  <2> QED
    BY <1>9, <1>10, CountUp
<1>12. Holds(1)
  <2>1. N \in Nat /\ N <= N /\ N + 1 - N = 1
    BY <1>1
  <2>2. N \in T
    BY <1>11, <2>1
  <2> QED
    BY <2>1, <2>2
<1>13. PartFrom(b, c, 1, D[1])
  <2>1. P[1] <= L + 1
    BY <1>2, <1>3
  <2> QED
    BY <1>2, <1>12, <2>1 DEF Holds
<1> QED
  BY <1>13 DEF Chunks, D

-----------------------------------------------------------------------------
(* Whatever is claimed from is whole.                                      *)

\* Of a string that does not begin with a digit nothing is read.
LEMMA PlainUnread ==
  ASSUME NEW S, NEW b \in Seq(S), Len(b) >= 1 => b[1] \notin DOMAIN Digits
  PROVE  Ends(b, 1)
<1> DEFINE f == Find(b, Crlf, 1)
           line == Line(b, 1)
           semi == Find(line, <<";">>, 1)
           u == IF semi = 0 THEN line ELSE SubSeq(line, 1, semi - 1)
<1>1. Len(b) \in Nat /\ 1 \in 1..(Len(b) + 1)
  OBVIOUS
<1>2. CASE f = 0
  BY <1>2 DEF Ends
<1>3. CASE f # 0
  <2>1. f \in 1..(Len(b) - 1) /\ line \in Seq(S)
    BY <1>1, <1>3, LineRead
  <2>2. line = SubSeq(b, 1, f - 1)
    BY DEF Line
  <2> HIDE DEF f
  <2>3. /\ Len(line) = f - 1 /\ Len(line) <= Len(b)
        /\ \A i \in 1..Len(line) : line[i] = b[i]
    <3> DEFINE n == f - 1
    <3>1. 1 \in 1..(Len(b) + 1) /\ n \in (1 - 1)..Len(b) /\ n - 1 + 1 = n
      BY <1>1, <2>1
    <3>2. line = SubSeq(b, 1, n)
      BY <2>2
    <3> HIDE DEF n, line
    <3>3. Len(line) = n - 1 + 1 /\ \A i \in 1..(n - 1 + 1) : line[i] = b[1 + i - 1]
      BY <3>1, <3>2, Stretch
    <3>4. \A i \in 1..n : 1 + i - 1 = i
      BY <3>1
    <3> QED
      BY <3>1, <3>3, <3>4 DEF n
  <2>4. SizeOf(line) = Hex(u)
    BY DEF SizeOf
  <2> HIDE DEF line
  <2>5. Len(line) \in Nat
    BY <2>1
  <2>6. semi = 0 \/ semi \in 1..Len(line)
    <3>1. Len(<<";">>) = 1 /\ Len(line) + 1 - 1 = Len(line)
      BY <2>5
    <3>2. semi = 0 \/ semi \in 1..(Len(line) + 1 - Len(<<";">>))
      <4>1. Len(<<";">>) \in Nat /\ 1 \in Nat
        BY <3>1
      <4> QED
        BY <2>5, <4>1, FindRange
    <3> QED
      BY <3>1, <3>2
  <2>7. Len(u) \in Nat /\ (Len(u) >= 1 => Len(b) >= 1 /\ u[1] = b[1])
    <3> HIDE DEF semi
    <3>1. CASE semi = 0
      <4>1. u = line
        BY <3>1
      <4> HIDE DEF u
      <4>2. Len(line) >= 1 => 1 \in 1..Len(line) /\ Len(b) >= 1
        BY <1>1, <2>3, <2>5
      <4> QED
        BY <2>3, <2>5, <4>1, <4>2
    <3>2. CASE semi # 0
      <4> DEFINE n == semi - 1
      <4>1. n \in (1 - 1)..Len(line) /\ 1 \in 1..(Len(line) + 1) /\ n - 1 + 1 = n /\ 1 + 1 - 1 = 1
        BY <2>5, <2>6, <3>2
      <4>2. u = SubSeq(line, 1, n)
        BY <3>2
      <4> HIDE DEF u, n
      <4>3. Len(u) = n - 1 + 1 /\ \A i \in 1..(n - 1 + 1) : u[i] = line[1 + i - 1]
        BY <2>1, <4>1, <4>2, Stretch
      <4>4. Len(u) = n /\ (n >= 1 => 1 \in 1..(n - 1 + 1) /\ 1 \in 1..Len(line) /\ Len(b) >= 1)
        BY <1>1, <2>3, <2>5, <4>1, <4>3
      <4>5. n >= 1 => u[1] = line[1]
        BY <4>1, <4>3, <4>4
      <4> QED
        BY <2>3, <4>1, <4>4, <4>5
    <3> QED
      BY <3>1, <3>2
  <2> HIDE DEF u
  <2>8. Hex(u) = 0
    <3>1. CASE Len(u) = 0
      BY <2>7, <3>1, HexIs
    <3>2. CASE Len(u) # 0
      <4>1. 1 \in 1..Len(u) /\ u[1] \notin DOMAIN Digits
        BY <2>7, <3>2
      <4> QED
        BY <2>7, <4>1, HexIs
    <3> QED
      BY <3>1, <3>2
  <2> QED
    BY <2>4, <2>8 DEF Ends, line
<1> QED
  BY <1>2, <1>3

\* The body of an object, taken as it is or decoded, is no part of another one.
LEMMA UnchunkedIsWhole ==
  ASSUME NEW a \in Answers, NEW t \in Bytes, Leads(t, a.raw), IsObject(Unchunked(t))
  PROVE  Significant(Unchunked(t)) = Significant(a.body)
<1> DEFINE x == Unchunked(t)
<1>1. t \in Seq(Byte) /\ Len(t) \in Nat
  BY DEF Bytes
<1>2. CASE \E b \in Bodies, v \in BOOLEAN : a = [body |-> b, cuts |-> <<>>, raw |-> b, above |-> v]
  <2>1. PICK b \in Bodies : a.raw = b /\ a.body = b
    BY <1>2
  <2>2. b \in Seq(Byte) /\ Len(b) \in Nat /\ IsObject(b)
    BY ResponseAssumption, ObjectsAssumption
  <2>3. b[1] \in {"CR", "LF", "{"}
    BY <2>2, ObjectBytes
  <2>4. Len(t) >= 1 => t[1] \notin DOMAIN Digits
    <3>1. Len(t) >= 1 => t[1] = b[1]
      <4>1. Len(t) >= 1 => 1 \in 1..Len(t)
        BY <1>1
      <4> QED
        BY <2>1, <4>1 DEF Leads
    <3> QED
      BY <2>3, <3>1, DigitsAre
  <2>5. Ends(t, 1)
    BY <1>1, <2>4, PlainUnread
  <2>6. Decoded(t)[1] = <<>>
    <3>1. 1 \in 1..(Len(t) + 1)
      BY <1>1
    <3> QED
      BY <1>1, <2>5, <3>1, DecodedStep DEF Reads
  <2>7. x = t
    BY <2>6 DEF Unchunked, Chunks
  <2> QED
    BY <1>1, <2>1, <2>2, <2>7, ObjectWhole
<1>3. CASE \E b \in Bodies : \E c \in Cuts(b) :
             a = [body |-> b, cuts |-> c, raw |-> Chunked(b, c, Len(c) = 1), above |-> TRUE]
  <2>1. PICK b \in Bodies : \E c \in Cuts(b) : a.body = b /\ a.raw = Chunked(b, c, Len(c) = 1)
    BY <1>3
  <2>2. PICK c \in Cuts(b) : a.body = b /\ a.raw = Chunked(b, c, Len(c) = 1)
    BY <2>1
  <2>3. b \in Bytes /\ Len(b) \in 1..7 /\ b \in Seq(Byte) /\ Len(b) \in Nat /\ IsObject(b)
    BY ResponseAssumption, ObjectsAssumption DEF Bytes
  <2> DEFINE e == Len(c) = 1
             r == Chunked(b, c, e)
             y == Chunks(t)
  <2>4. e \in BOOLEAN /\ Leads(t, r)
    BY <2>2
  <2>5. PartFrom(b, c, 1, y)
    <3> HIDE DEF e
    <3> QED
      BY <2>3, <2>4, DecodedIsPart
  <2>6. x = IF y = <<>> THEN t ELSE y
    BY DEF Unchunked
  <2>7. ASSUME x = t PROVE FALSE
    <3>1. Len(t) >= 1 /\ t[1] \in {"CR", "LF", "{"}
      BY <1>1, <2>7, ObjectBytes
    <3>2. PICK P : ChunksBegin(P, b, c, e)
      <4> HIDE DEF e
      <4> QED
        BY <2>3, <2>4, ChunkedLayout
    <3>3. Len(c) \in Nat \ {0} /\ Len(Part(b, c, 1)) \in 1..7 /\ 1 \in 1..Len(c)
      <4>1. Len(c) \in Nat \ {0}
        BY <2>3, PartsAre
      <4>2. 1 \in 1..Len(c)
        BY <4>1
      <4> QED
        BY <2>3, <4>1, <4>2, PartsAre
    <3> HIDE DEF e, r
    <3>4. P[1] = 1 /\ ChunkAt(r, P[1], Part(b, c, 1), e)
      BY <3>2, <3>3 DEF ChunksBegin, r
    <3> DEFINE l == Len(Part(b, c, 1))
    <3>5. r[1] = Numeral[l + 1]
      BY <3>4 DEF ChunkAt, SizeAt
    <3>6. r[1] \in DOMAIN Digits
      <4>1. l \in 0..7
        <5>1. l \in 1..7
          BY <3>3
        <5> HIDE DEF l
        <5> QED
          BY <5>1
      <4> HIDE DEF l
      <4> QED
        BY <3>5, <4>1, DigitsAre
    <3>7. t[1] = r[1]
      <4> DEFINE n == Len(t)
      <4>1. n \in Nat /\ n >= 1
        BY <1>1, <3>1, Zenon
      <4> HIDE DEF n
      <4>2. 1 \in 1..n
        BY <4>1
      <4> QED
        BY <2>4, <4>2 DEF Leads, n
    <3> QED
      BY <3>1, <3>6, <3>7, DigitsAre
  <2>8. x = y /\ y \in Tokens
    BY <2>5, <2>6, <2>7 DEF PartFrom
  <2>9. \A j \in 1..Len(y) : y[j] # "panic"
    <3>1. \A j \in 1..Len(y) : y[j] \in Plain
      BY <2>8, ObjectBytes DEF Tokens
    <3> QED
      BY <3>1 DEF Plain
  <2>10. PICK m \in Cut(c, 1)..Len(b) : y = SubSeq(b, Cut(c, 1) + 1, m)
    BY <2>5, <2>9 DEF PartFrom
  <2>11. m \in 0..Len(b) /\ y = SubSeq(b, 1, m)
    <3>1. Cut(c, 1) = 0 /\ 0 + 1 = 1
      BY DEF Cut
    <3> QED
      BY <2>10, <3>1
  <2> HIDE DEF y, x
  <2>12. y \in Seq(Byte) /\ Leads(y, b)
    <3>1. 1 \in 1..(Len(b) + 1) /\ m \in (1 - 1)..Len(b) /\ m - 1 + 1 = m
      BY <2>3, <2>11
    <3>2. y \in Seq(Byte) /\ Len(y) = m - 1 + 1 /\ \A i \in 1..(m - 1 + 1) : y[i] = b[1 + i - 1]
      BY <2>3, <2>11, <3>1, Stretch
    <3>3. Len(y) = m /\ m <= Len(b) /\ \A i \in 1..m : 1 + i - 1 = i
      BY <3>1, <3>2
    <3>4. \A i \in 1..Len(y) : y[i] = b[i]
      BY <3>1, <3>2, <3>3
    <3> QED
      BY <3>2, <3>3, <3>4 DEF Leads
  <2>13. IsObject(y)
    BY <2>8 DEF x
  <2>14. Significant(y) = Significant(b)
    BY <2>3, <2>12, <2>13, ObjectWhole
  <2> QED
    BY <2>2, <2>8, <2>14 DEF x
<1> QED
  BY <1>2, <1>3 DEF Answers

\* A beginning, place by place.
LEMMA BeginsLeads ==
  ASSUME NEW s \in Bytes, NEW t \in Bytes, IsPrefix(t, s)
  PROVE  Leads(t, s)
<1> DEFINE n == Len(t)
<1>1. s \in Seq(Byte) /\ t \in Seq(Byte) /\ n \in Nat /\ Len(s) \in Nat
  BY DEF Bytes
<1>2. n <= Len(s) /\ SubSeq(t, 1, n) = SubSeq(s, 1, n)
  BY DEF IsPrefix
<1>3. 1 \in 1..(n + 1) /\ 1 \in 1..(Len(s) + 1) /\ n \in (1 - 1)..n /\ n \in (1 - 1)..Len(s)
      /\ n - 1 + 1 = n
  BY <1>1, <1>2
<1>4. \A i \in 1..(n - 1 + 1) : SubSeq(t, 1, n)[i] = t[1 + i - 1]
  BY <1>1, <1>3, Stretch
<1>5. \A i \in 1..(n - 1 + 1) : SubSeq(s, 1, n)[i] = s[1 + i - 1]
  <2> HIDE DEF n
  <2> QED
    BY <1>1, <1>3, Stretch
<1>6. \A i \in 1..n : t[i] = s[i]
  <2> HIDE DEF n
  <2> TAKE i \in 1..n
  <2>1. i \in 1..(n - 1 + 1) /\ 1 + i - 1 = i
    BY <1>1
  <2> QED
    BY <1>2, <1>4, <1>5, <2>1, Zenon
<1> QED
  BY <1>2, <1>6 DEF Leads

\* The blank line.
LEMMA BlankIs ==
  /\ Crlf \o Crlf \in Bytes /\ Crlf \o Crlf = Cat(Crlf, Crlf) /\ Len(Crlf \o Crlf) = 4
  /\ (Crlf \o Crlf)[1] = "CR" /\ (Crlf \o Crlf)[2] = "LF"
  /\ (Crlf \o Crlf)[3] = "CR" /\ (Crlf \o Crlf)[4] = "LF"
<1> DEFINE x == Cat(Crlf, Crlf)
<1>1. Crlf \o Crlf = x /\ x \in Bytes
  BY MarksAreBytes, CatTypes DEF Cat
<1>2. Len(x) = Len(Crlf) + Len(Crlf) /\ Leads(Crlf, x) /\ \A j \in 1..Len(Crlf) : x[Len(Crlf) + j] = Crlf[j]
  BY MarksAreBytes, CatHolds
<1> HIDE DEF x
<1>3. Len(x) = 2 + 2 /\ (\A j \in 1..2 : x[j] = Crlf[j]) /\ (\A j \in 1..2 : x[2 + j] = Crlf[j])
  BY <1>2, MarksHold, Zenon DEF Leads
<1>4. 1 \in 1..2 /\ 2 \in 1..2 /\ 2 + 1 = 3 /\ 2 + 2 = 4
  OBVIOUS
<1>5. x[1] = "CR" /\ x[2] = "LF" /\ x[3] = "CR" /\ x[4] = "LF"
  BY <1>3, <1>4, MarksHold, Zenon
<1>6. Len(x) = 4
  BY <1>3
<1>7. Len(Crlf \o Crlf) = 4
  BY <1>1, <1>6, Zenon
<1>8. (Crlf \o Crlf)[1] = "CR" /\ (Crlf \o Crlf)[2] = "LF"
      /\ (Crlf \o Crlf)[3] = "CR" /\ (Crlf \o Crlf)[4] = "LF"
  BY <1>1, <1>5, Zenon
<1>9. Crlf \o Crlf \in Bytes /\ Crlf \o Crlf = Cat(Crlf, Crlf)
  BY <1>1, Zenon DEF x
<1> QED
  BY <1>7, <1>8, <1>9, Zenon

\* The blank line that ends the header is at the beginning.
LEMMA FirstBlank ==
  ASSUME NEW w \in Bytes, NEW t \in Bytes, Leads(t, Cat(Cat(Crlf, Crlf), w)), Len(t) >= 4
  PROVE  Find(t, Crlf \o Crlf, 1) = 1
<1> DEFINE blank == Crlf \o Crlf
           u == SubSeq(t, 1, 4)
<1>1. t \in Seq(Byte) /\ Len(t) \in Nat
  BY DEF Bytes
<1>2. blank \in Bytes /\ Len(blank) = 4 /\ blank = Cat(Crlf, Crlf)
  BY BlankIs
<1> HIDE DEF blank
<1> DEFINE st == Cat(blank, w)
<1>3. Leads(blank, st)
  BY <1>2, CatHolds
<1>4. \A i \in 1..Len(t) : t[i] = st[i]
  BY <1>2 DEF Leads
<1> HIDE DEF st
<1>5. 1 \in 1..(Len(t) + 1) /\ 4 \in (1 - 1)..Len(t) /\ 4 - 1 + 1 = 4
  BY <1>1
<1>6. u \in Seq(Byte) /\ Len(u) = 4 - 1 + 1 /\ \A i \in 1..(4 - 1 + 1) : u[i] = t[1 + i - 1]
  BY <1>1, <1>5, Stretch
<1> HIDE DEF u
<1>7. \A i \in 1..4 : u[i] = blank[i]
  <2> TAKE i \in 1..4
  <2>1. i \in 1..(4 - 1 + 1) /\ 1 + i - 1 = i /\ i \in 1..Len(t) /\ i \in 1..Len(blank)
    BY <1>1, <1>2
  <2>2. u[i] = t[i] /\ t[i] = st[i]
    BY <1>4, <1>6, <2>1, Zenon
  <2>3. blank[i] = st[i]
    BY <1>3, <2>1 DEF Leads
  <2> QED
    BY <2>2, <2>3
<1>8. u = blank
  <2>1. Len(u) = 4 /\ blank \in Seq(Byte)
    BY <1>2, <1>5, <1>6 DEF Bytes
  <2> QED
    BY <1>2, <1>6, <1>7, <2>1, SeqEqual
<1>9. 1 \in Begins(t, blank, 1) /\ \A j \in Begins(t, blank, 1) : 1 <= j
  <2>1. 1 \in 1..(Len(t) + 1 - Len(blank)) /\ 1 + Len(blank) - 1 = 4
    BY <1>1, <1>2
  <2>2. SubSeq(t, 1, 1 + Len(blank) - 1) = blank
    BY <1>8, <2>1, Zenon DEF u
  <2>3. 1 \in Begins(t, blank, 1)
    BY <2>1, <2>2, Zenon DEF Begins
  <2>4. ASSUME NEW j \in Begins(t, blank, 1) PROVE 1 <= j
    <3>1. j \in 1..(Len(t) + 1 - Len(blank))
      BY DEF Begins
    <3> QED
      BY <3>1
  <2> QED
    BY <2>3, <2>4
<1>10. Len(blank) \in Nat /\ 1 \in Nat
  BY <1>2
<1> QED
  BY <1>1, <1>9, <1>10, FindIs DEF blank

\* Between the blank line that ends the header and the next one, or the end of what
\* there is, is the beginning of the body (the search for the blank lines in main).
LEMMA RawBodyLeads ==
  ASSUME NEW w \in Bytes, NEW t \in Bytes, Leads(t, Cat(Cat(Crlf, Crlf), w))
  PROVE  RawBody(t) \in Bytes /\ Leads(RawBody(t), w)
<1> DEFINE blank == Crlf \o Crlf
           st == Cat(Cat(Crlf, Crlf), w)
           first == Find(t, blank, 1)
           from == first + 4
           second == Find(t, blank, from)
           end == IF second = 0 THEN Len(t) ELSE second - 1
           x == RawBody(t)
<1>1. t \in Seq(Byte) /\ Len(t) \in Nat /\ w \in Seq(Byte) /\ Len(w) \in Nat
  BY DEF Bytes
<1>2. Cat(Crlf, Crlf) \in Bytes /\ blank = Cat(Crlf, Crlf) /\ Len(Cat(Crlf, Crlf)) = 4
  BY BlankIs
<1>3. x = IF first = 0 THEN <<>> ELSE SubSeq(t, from, end)
  BY DEF RawBody
<1> HIDE DEF blank
<1>4. blank \in Bytes /\ Len(blank) = 4 /\ st = Cat(blank, w)
  BY <1>2
<1> HIDE DEF st
<1>5. st \in Bytes /\ Len(st) = 4 + Len(w) /\ Leads(blank, st) /\ \A j \in 1..Len(w) : st[4 + j] = w[j]
  <2> DEFINE u == Cat(blank, w)
  <2>1. u \in Bytes /\ Len(u) = Len(blank) + Len(w) /\ Leads(blank, u)
        /\ \A j \in 1..Len(w) : u[Len(blank) + j] = w[j]
    BY <1>4, CatTypes, CatHolds
  <2>2. st = u
    BY <1>4
  <2> HIDE DEF u
  <2> QED
    BY <1>4, <2>1, <2>2, Zenon
<1>6. Len(t) <= Len(st) /\ \A i \in 1..Len(t) : t[i] = st[i]
  BY DEF Leads, st
<1>7. CASE first = 0
  <2>1. x = <<>>
    BY <1>3, <1>7
  <2>2. Len(<<>>) = 0 /\ <<>> \in Bytes
    BY MarksAreBytes
  <2>3. Leads(<<>>, w)
    BY <1>1, <2>2 DEF Leads
  <2> QED
    BY <2>1, <2>2, <2>3
<1>8. CASE first # 0
  <2>1. first \in 1..(Len(t) + 1 - 4)
    <3>1. first \in 1..(Len(t) + 1 - Len(blank))
      <4>1. Len(blank) \in Nat /\ 1 \in Nat
        BY <1>4
      <4> QED
        BY <1>1, <1>8, <4>1, FindRange
    <3> QED
      BY <1>4, <3>1
  <2> HIDE DEF first
  <2>2. Len(t) >= 4
    BY <1>1, <2>1
  <2>4. first = 1
    BY <2>2, FirstBlank DEF first, blank
  <2>5. from = 5
    BY <2>4
  <2> HIDE DEF from
  <2>6. second = 0 \/ second \in 5..(Len(t) + 1 - 4)
    <3>1. Len(blank) \in Nat /\ 5 \in Nat
      BY <1>4
    <3>2. Find(t, blank, 5) = 0 \/ Find(t, blank, 5) \in 5..(Len(t) + 1 - Len(blank))
      BY <1>1, <3>1, FindRange
    <3>3. second = Find(t, blank, 5)
      BY <2>5
    <3> HIDE DEF second
    <3> QED
      BY <1>4, <3>2, <3>3
  <2> HIDE DEF second
  <2>7. end \in 4..Len(t)
    BY <1>1, <2>2, <2>6
  <2> HIDE DEF end
  <2>8. x = SubSeq(t, 5, end)
    BY <1>3, <1>8, <2>5
  <2> HIDE DEF x
  <2>9. 5 \in 1..(Len(t) + 1) /\ end \in (5 - 1)..Len(t) /\ end - 5 + 1 = end - 4
    BY <1>1, <2>2, <2>7
  <2>10. x \in Seq(Byte) /\ Len(x) = end - 5 + 1 /\ \A i \in 1..(end - 5 + 1) : x[i] = t[5 + i - 1]
    BY <1>1, <2>8, <2>9, Stretch
  <2>11. Len(x) = end - 4 /\ Len(x) <= Len(w)
    BY <1>1, <1>5, <1>6, <2>7, <2>9, <2>10
  <2>12. ASSUME NEW i \in 1..Len(x) PROVE x[i] = w[i]
    <3>1. i \in 1..(end - 5 + 1) /\ 5 + i - 1 = 4 + i /\ 4 + i \in 1..Len(t) /\ i \in 1..Len(w)
      BY <1>1, <2>7, <2>9, <2>11
    <3>2. x[i] = t[4 + i]
      BY <2>10, <3>1, Zenon
    <3>3. t[4 + i] = st[4 + i] /\ st[4 + i] = w[i]
      BY <1>5, <1>6, <3>1
    <3> QED
      BY <3>2, <3>3
  <2> QED
    BY <2>10, <2>11, <2>12 DEF Leads, x, Bytes
<1> QED
  BY <1>7, <1>8

\* Whatever the framing of the answer (plain, or any chunks), and whatever of the captured
\* records the host leaves out or exchanges, what the guest claims from (main, the
\* assertions about the body) is the whole object the server sent.
THEOREM ClaimIsWhole == Spec => []ClaimFromWholeBody
<1> DEFINE I == answer \in Answers /\ ClaimFromWholeBody
<1>1. Init => I
  BY DEF Init, ClaimFromWholeBody
<1>2. ResponseInv /\ I /\ [Next]_vars => I'
  <2> SUFFICES ASSUME ResponseInv, I, [Next]_vars PROVE I'
    OBVIOUS
  <2>1. answer' = answer
    BY DEF Next, SendData, SendOther, HandOver, OpenNext, Claim, vars
  <2>2. CASE verdict' = verdict
    BY <2>1, <2>2 DEF ClaimFromWholeBody
  <2>3. CASE verdict' \in {Waiting, Running, Refused}
    BY <2>1, <2>3 DEF ClaimFromWholeBody
  <2>4. CASE Claim
    <3> DEFINE body == Unchunked(RawBody(text))
    <3>1. verdict' = Refused \/ (IsObject(body) /\ verdict' = Significant(body))
      BY <2>4 DEF Claim
    <3>2. text \in Bytes /\ Stream \in Bytes /\ IsPrefix(text, Stream) /\ answer.raw \in Bytes
      BY InvBegins, AnswerTypes DEF TextIsBeginning
    <3>3. Stream = Cat(Cat(Crlf, Crlf), answer.raw)
      BY DEF Stream, Cat
    <3>4. Leads(text, Cat(Cat(Crlf, Crlf), answer.raw))
      BY <3>2, <3>3, BeginsLeads
    <3>5. RawBody(text) \in Bytes /\ Leads(RawBody(text), answer.raw)
      BY <3>2, <3>4, RawBodyLeads
    <3>6. IsObject(body) => Significant(body) = Significant(answer.body)
      BY <3>5, UnchunkedIsWhole
    <3> QED
      BY <2>1, <3>1, <3>6 DEF ClaimFromWholeBody
  <2>5. Claim \/ verdict' = verdict \/ verdict' \in {Waiting, Running, Refused}
    BY DEF Next, SendData, SendOther, HandOver, OpenNext, vars
  <2> QED
    BY <2>2, <2>3, <2>4, <2>5
<1>3. I => ClaimFromWholeBody
  OBVIOUS
<1> HIDE DEF I
<1> QED
  BY <1>1, <1>2, <1>3, ResponseInductive, PTL DEF Spec

-----------------------------------------------------------------------------
(* A whole answer is decoded.                                              *)

\* What a part of an object holds.
LEMMA PartHolds ==
  ASSUME NEW b \in Bytes, Len(b) \in 1..7, NEW c \in Cuts(b), NEW i \in 1..Len(c)
  PROVE  \A j \in 1..Len(Part(b, c, i)) : Part(b, c, i)[j] = b[Cut(c, i) + j]
<1> DEFINE k == Cut(c, i)
           x == c[i]
           m == k + 1
           L == Len(b)
           d == Part(b, c, i)
<1>1. x \in 1..L /\ k \in 0..(x - 1) /\ Len(d) = x - k
  BY PartsAre
<1>2. b \in Seq(Byte) /\ L \in Nat
  BY DEF Bytes
<1>3. d = SubSeq(b, m, x)
  BY DEF Part
<1> HIDE DEF k, x, L, d
<1>4. m \in 1..(L + 1) /\ x \in (m - 1)..L /\ x - m + 1 = x - k
  <2>1. x \in Nat /\ k \in Nat /\ x <= L /\ k < x
    BY <1>1, <1>2
  <2> QED
    BY <1>2, <2>1
<1>5. \A j \in 1..(x - k) : k + j = m + j - 1
  BY <1>1, <1>2
<1> HIDE DEF m
<1>6. \A j \in 1..(x - m + 1) : d[j] = b[m + j - 1]
  BY <1>2, <1>3, <1>4, Stretch DEF L
<1> QED
  BY <1>1, <1>4, <1>5, <1>6 DEF k, d

\* A chunk that is there whole, with a byte behind it, is read, and the one behind it next.
LEMMA ReadWhole ==
  ASSUME NEW S, NEW b \in Seq(S), NEW r, Leads(b, r), NEW p \in Nat \ {0},
         NEW d \in Seq(S), Len(d) \in 1..7, NEW e \in BOOLEAN, ChunkAt(r, p, d, e),
         p + Ext(e) + Len(d) + 5 <= Len(b)
  PROVE  /\ ~Ends(b, p)
         /\ Data(b, p) = Slice(d)
         /\ Following(b, p) = p + Ext(e) + Len(d) + 5
<1> DEFINE f == Find(b, Crlf, p)
           k == Ext(e)
           l == Len(d)
           x == p + k + 1
           q == Behind(b, p)
<1>1. Len(b) \in Nat /\ k \in 0..1 /\ (e <=> k = 1) /\ l \in 1..7 /\ p \in Nat \ {0} /\ p + k + l + 5 <= Len(b)
  BY DEF Ext
<1>2. \A i \in 1..Len(b) : b[i] = r[i]
  BY DEF Leads
<1>3. Numeral[l + 1] \in DOMAIN Digits
  <2>1. l \in 0..7
    BY <1>1
  <2> HIDE DEF l
  <2> QED
    BY <2>1, DigitsAre
<1>4. r[p] = Numeral[l + 1] /\ (e => r[p + 1] = ";") /\ r[p + k + 1] = "CR" /\ r[p + k + 2] = "LF"
  BY DEF ChunkAt, SizeAt
<1>5. r[p + k + l + 3] = "CR" /\ r[p + k + l + 4] = "LF"
  BY DEF ChunkAt
<1>6. p \in 1..(Len(b) + 1)
  BY <1>1
<1> HIDE DEF k, l, f
<1>7. f = x /\ f # 0
  <2>1. /\ p \in 1..Len(b) /\ p + 1 \in 1..Len(b) /\ x \in 1..Len(b) /\ x + 1 \in 1..Len(b)
        /\ x \in p..(Len(b) - 1) /\ x + 1 = p + k + 2 /\ x # 0
    BY <1>1
  <2>2. b[p] = r[p] /\ b[p + 1] = r[p + 1] /\ b[x] = r[x] /\ b[x + 1] = r[x + 1]
    <3> HIDE DEF x
    <3> QED
      BY <1>2, <2>1
  <2>3. b[x] = "CR" /\ b[x + 1] = "LF"
    BY <1>4, <2>1, <2>2
  <2>4. \A j \in p..(x - 1) : b[j] # "CR"
    <3> TAKE j \in p..(x - 1)
    <3>1. j = p \/ (k = 1 /\ j = p + 1)
      BY <1>1
    <3>2. b[p] # "CR"
      BY <1>3, <1>4, <2>2, DigitsAre
    <3>3. k = 1 => b[p + 1] # "CR"
      BY <1>1, <1>4, <2>2
    <3> QED
      BY <3>1, <3>2, <3>3
  <2> HIDE DEF x
  <2> QED
    BY <1>1, <2>1, <2>3, <2>4, FindCrlf DEF f
<1>8. SizeOf(Line(b, p)) = l
  <2>1. l \in 0..7 /\ SizeAt(r, p, l, e)
    BY <1>1 DEF ChunkAt, l
  <2> QED
    BY <1>6, <1>7, <2>1, ReadSize DEF f
<1>9. q = p + k + l + 3
  <2>1. q = f + 2 + SizeOf(Line(b, p))
    BY DEF Behind, f
  <2> QED
    BY <1>1, <1>7, <1>8, <2>1
<1>10. ~Ends(b, p)
  <2>1. ~(q > Len(b) + 1)
    BY <1>1, <1>9
  <2>2. l # 0
    BY <1>1
  <2> HIDE DEF q
  <2> QED
    BY <1>7, <1>8, <2>1, <2>2 DEF Ends, f, q
<1>11. Data(b, p) = Slice(d)
  BY <1>6, <1>10, ReadChunk
<1>12. Find(b, Crlf, q) = q
  <2>1. q \in 1..Len(b) /\ q + 1 \in 1..Len(b) /\ q + 1 = p + k + l + 4 /\ q < Len(b) /\ q \in Nat \ {0}
    BY <1>1, <1>9
  <2> HIDE DEF q
  <2>2. b[q] = "CR" /\ b[q + 1] = "LF"
    BY <1>2, <1>5, <1>9, <2>1
  <2> QED
    BY <2>1, <2>2, FindCrlf
<1>13. Following(b, p) = q + 2
  BY <1>12 DEF Following
<1>14. q + 2 = p + k + l + 5
  BY <1>1, <1>9
<1> QED
  BY <1>10, <1>11, <1>13, <1>14 DEF k, l

\* What of a chunked answer reaches its last chunk is decoded to the object, unless a chunk
\* ends inside a character (unchunk).
LEMMA DecodedIsWhole ==
  ASSUME NEW b \in Bytes, Len(b) \in 1..7, NEW c \in Cuts(b), NEW e \in BOOLEAN,
         NEW t \in Bytes, Leads(t, Chunked(b, c, e)),
         NEW P, ChunksBegin(P, b, c, e), P[Len(c) + 1] <= Len(t),
         \A i \in 1..Len(c) : b[c[i]] # "u1"
  PROVE  Chunks(t) = b
<1> DEFINE N == Len(c)
           r == Chunked(b, c, e)
           D == Decoded(t)
           L == Len(t)
           Rest(i) == SubSeq(b, Cut(c, i) + 1, Len(b))
<1>1. /\ N \in Nat \ {0} /\ c[N] = Len(b)
      /\ \A i \in 1..N : c[i] \in 1..Len(b) /\ Cut(c, i) \in 0..(c[i] - 1)
      /\ \A i \in 1..N : Part(b, c, i) \in Bytes /\ Len(Part(b, c, i)) \in 1..7
                         /\ Len(Part(b, c, i)) = c[i] - Cut(c, i)
  BY PartsAre
<1>2.      /\ P \in [1..(N + 1) -> Nat \ {0}]
           /\ P[1] = 1 /\ SizeAt(r, P[N + 1], 0, FALSE)
           /\ \A i \in 1..N :
                /\ P[i + 1] <= P[N + 1]
                /\ ChunkAt(r, P[i], Part(b, c, i), e)
                /\ P[i + 1] = P[i] + Ext(e) + Len(Part(b, c, i)) + 5
  BY DEF ChunksBegin
<1>3. L \in Nat /\ t \in Seq(Byte) /\ P[N + 1] <= L /\ b \in Seq(Byte) /\ Len(b) \in Nat
  BY DEF Bytes
<1>20. \A i \in 1..N : b[c[i]] # "u1"
  OBVIOUS
<1> HIDE DEF N, r
<1>4. \A p \in 1..(L + 1) : D[p] = Reads(D, t, p)
  BY <1>3, DecodedStep
<1> HIDE DEF D, L
<1> DEFINE Holds(i) == D[P[i]] = Rest(i)
           T == {k \in Nat : k <= N => Holds(N + 1 - k)}
<1>5. Holds(N + 1)
  <2> DEFINE p == P[N + 1]
  <2>1. N + 1 \in 1..(N + 1) /\ N + 1 # 1 /\ (N + 1) - 1 = N
    BY <1>1
  <2>2. p \in Nat \ {0} /\ p <= L /\ SizeAt(r, p, 0, FALSE)
    BY <1>2, <1>3, <2>1
  <2> HIDE DEF p
  <2>3. p \in 1..(L + 1)
    BY <1>3, <2>2
  <2>4. Ends(t, p)
    <3>1. CASE Find(t, Crlf, p) = 0
      BY <3>1 DEF Ends
    <3>2. CASE Find(t, Crlf, p) # 0
      <4>1. 0 \in 0..7 /\ FALSE \in BOOLEAN
        OBVIOUS
      <4>2. SizeOf(Line(t, p)) = 0
        BY <1>3, <2>2, <2>3, <3>2, <4>1, ReadSize DEF r, L
      <4> QED
        BY <4>2 DEF Ends
    <3> QED
      BY <3>1, <3>2
  <2>5. D[p] = <<>>
    BY <1>4, <2>3, <2>4 DEF Reads
  <2>6. Cut(c, N + 1) = Len(b)
    BY <1>1, <2>1 DEF Cut
  <2> DEFINE n == Len(b)
             z == SubSeq(b, n + 1, n)
  <2>7. z = <<>>
    <3>1. n + 1 \in 1..(Len(b) + 1) /\ n \in ((n + 1) - 1)..Len(b) /\ n - (n + 1) + 1 = 0
      BY <1>3
    <3> HIDE DEF n
    <3>2. z \in Seq(Byte) /\ Len(z) = n - (n + 1) + 1
      BY <1>3, <3>1, Stretch
    <3>3. z \in Seq(Byte) /\ Len(z) = 0
      BY <3>1, <3>2
    <3> HIDE DEF z
    <3> QED
      BY <3>3
  <2>8. Rest(N + 1) = z
    BY <2>6
  <2> HIDE DEF z
  <2> QED
    BY <2>5, <2>7, <2>8 DEF p
<1>6. ASSUME NEW i \in 1..N, Holds(i + 1) PROVE Holds(i)
  <2> DEFINE p == P[i]
             d == Part(b, c, i)
             q == p + Ext(e) + Len(d) + 5
             k == Cut(c, i)
             m == c[i]
  <2>1. i \in 1..(N + 1) /\ i + 1 # 1 /\ (i + 1) - 1 = i
    BY <1>1
  <2>2. p \in Nat \ {0}
    BY <1>2, <2>1
  <2>3. ChunkAt(r, p, d, e) /\ P[i + 1] = q /\ d \in Bytes /\ Len(d) \in 1..7
    BY <1>1, <1>2
  <2>4. q <= L
    <3>1. P[i + 1] \in Nat /\ P[N + 1] \in Nat /\ P[i + 1] <= P[N + 1]
      <4>1. i + 1 \in 1..(N + 1) /\ N + 1 \in 1..(N + 1)
        BY <1>1
      <4> QED
        BY <1>2, <4>1
    <3> HIDE DEF p, d
    <3> QED
      BY <1>3, <2>3, <3>1
  <2>5. m \in 1..Len(b) /\ k \in 0..(m - 1) /\ Len(d) = m - k /\ d = SubSeq(b, k + 1, m)
    BY <1>1 DEF Part
  <2>6. Cut(c, i + 1) = m
    BY <2>1 DEF Cut
  <2>7. D[q] = SubSeq(b, m + 1, Len(b))
    BY <1>6, <2>3, <2>6
  <2>8. d[Len(d)] = b[m]
    <3>1. \A j \in 1..Len(d) : d[j] = b[k + j]
      BY PartHolds DEF N
    <3> HIDE DEF d, k, m
    <3>2. Len(d) \in 1..Len(d) /\ k + Len(d) = m
      <4> DEFINE l == Len(d)
      <4>1. l \in 1..7 /\ l = m - k /\ m \in Nat /\ k \in Nat
        BY <1>3, <2>3, <2>5
      <4> HIDE DEF l
      <4>2. l \in 1..l /\ k + l = m
        BY <4>1
      <4> QED
        BY <4>2 DEF l
    <3> QED
      BY <3>1, <3>2
  <2>9. Slice(d) = d
    <3>1. b[m] # "u1"
      BY <1>20
    <3> HIDE DEF d, m
    <3> QED
      BY <2>8, <3>1 DEF Slice
  <2>10. d \in Seq(Byte) /\ Leads(t, r)
    BY <2>3 DEF Bytes, r
  <2>11. ~Ends(t, p) /\ Data(t, p) = Slice(d) /\ Following(t, p) = q
    <3> HIDE DEF d, p
    <3> QED
      BY <1>3, <2>2, <2>3, <2>4, <2>10, ReadWhole DEF L
  <2>12. p \in 1..(L + 1)
    <3>1. Len(d) \in Nat /\ Ext(e) \in Nat
      BY <2>3 DEF Ext
    <3> HIDE DEF d, p
    <3> QED
      BY <1>3, <2>2, <2>4, <3>1
  <2>13. D[p] = d \o D[q]
    <3>1. D[p] = Data(t, p) \o D[Following(t, p)]
      BY <1>4, <2>11, <2>12 DEF Reads
    <3> HIDE DEF d, p, q
    <3> QED
      BY <2>9, <2>11, <3>1, Zenon
  <2>14. SubSeq(b, k + 1, m) \o SubSeq(b, m + 1, Len(b)) = SubSeq(b, k + 1, Len(b))
    <3>1. k + 1 \in 1..(Len(b) + 1) /\ m \in ((k + 1) - 1)..Len(b) /\ Len(b) \in m..Len(b)
      BY <1>3, <2>5
    <3> HIDE DEF k, m
    <3> QED
      BY <1>3, <3>1, ConcatAdjacentSubSeq
  <2> HIDE DEF p, d, q, k, m
  <2>15. D[p] = SubSeq(b, k + 1, Len(b))
    BY <2>5, <2>7, <2>13, <2>14, Zenon
  <2> QED
    BY <2>15 DEF p, k
<1> HIDE DEF Holds
<1>7. 0 \in T
  <2>1. N + 1 - 0 = N + 1
    BY <1>1
  <2> QED
    BY <1>5, <2>1
<1>8. ASSUME NEW k \in Nat, k \in T PROVE k + 1 \in T
  <2> SUFFICES ASSUME k + 1 <= N PROVE Holds(N + 1 - (k + 1))
    OBVIOUS
  <2> DEFINE i == N + 1 - (k + 1)
  <2>1. i \in 1..N /\ i + 1 = N + 1 - k /\ k <= N
    BY <1>1
  <2>2. Holds(i + 1)
    BY <1>8, <2>1
  <2> HIDE DEF i
  <2>3. Holds(i)
    BY <1>6, <2>1, <2>2
  <2> QED
    BY <2>3 DEF i
<1>9. \A k \in Nat : k \in T
  <2> HIDE DEF T
  <2> QED
    BY <1>7, <1>8, CountUp
<1>10. Holds(1)
  <2>1. N \in Nat /\ N <= N /\ N + 1 - N = 1
    BY <1>1
  <2>2. N \in T
    BY <1>9, <2>1
  <2> QED
    BY <2>1, <2>2
<1>11. D[1] = SubSeq(b, 1, Len(b))
  <2>1. Cut(c, 1) = 0 /\ 0 + 1 = 1
    BY DEF Cut
  <2> QED
    BY <1>2, <1>10, <2>1 DEF Holds
<1>12. SubSeq(b, 1, Len(b)) = b
  BY <1>3, SubSeqFull
<1> QED
  BY <1>11, <1>12 DEF Chunks, D

\* No numeral is a part of a character.
LEMMA NumeralPlain == \A n \in 1..8 : Numeral[n] \notin {"u1", "u2"}
<1> SUFFICES ASSUME NEW n \in 1..8 PROVE Numeral[n] \notin {"u1", "u2"}
  OBVIOUS
<1>1. n = 1 \/ n = 2 \/ n = 3 \/ n = 4 \/ n = 5 \/ n = 6 \/ n = 7 \/ n = 8
  OBVIOUS
<1> QED
  BY <1>1 DEF Numeral

\* Byte x is in the data of a chunk.
AtData(r, p, d, e, x) == \E j \in 1..Len(d) : x = p + Ext(e) + 2 + j /\ r[x] = d[j]

\* A part of a character in a chunk is in its data (Utf8, the header and the chunk marks
\* are plain).
LEMMA InData ==
  ASSUME NEW r, NEW p \in Nat \ {0}, NEW d, Len(d) \in 1..7, NEW e \in BOOLEAN,
         ChunkAt(r, p, d, e),
         NEW x, x \in p..(p + Ext(e) + Len(d) + 4), r[x] \in {"u1", "u2"}
  PROVE  AtData(r, p, d, e, x)
<1> DEFINE y == Ext(e)
           l == Len(d)
<1>0. l \in 1..7
  OBVIOUS
<1>1. y \in 0..1 /\ (y = 1 => e)
  BY DEF Ext
<1>2. r[p] = Numeral[l + 1] /\ (e => r[p + 1] = ";") /\ r[p + y + 1] = "CR" /\ r[p + y + 2] = "LF"
      /\ (\A j \in 1..l : r[p + y + 2 + j] = d[j])
      /\ r[p + y + l + 3] = "CR" /\ r[p + y + l + 4] = "LF"
  BY DEF ChunkAt, SizeAt
<1> HIDE DEF y, l
<1>3. x = p \/ (y = 1 /\ x = p + 1) \/ x = p + y + 1 \/ x = p + y + 2 \/ x = p + y + l + 3
      \/ x = p + y + l + 4 \/ x \in (p + y + 3)..(p + y + l + 2)
  <2>1. x \in p..(p + y + l + 4)
    BY DEF y, l
  <2> QED
    BY <1>0, <1>1, <2>1
<1>4. r[p] \notin {"u1", "u2"}
  <2>1. l + 1 \in 1..8
    BY <1>0
  <2> QED
    BY <1>2, <2>1, NumeralPlain
<1>5. x \in (p + y + 3)..(p + y + l + 2)
  BY <1>0, <1>1, <1>2, <1>3, <1>4
<1> DEFINE j == x - (p + y + 2)
<1>6. j \in 1..l /\ x = p + y + 2 + j
  BY <1>0, <1>1, <1>5
<1> HIDE DEF j
<1>7. r[x] = d[j]
  BY <1>2, <1>6
<1> QED
  BY <1>6, <1>7 DEF y, l, AtData

\* Before the last size line every position is in a chunk.
LEMMA ChunksCover ==
  ASSUME NEW N \in Nat \ {0}, NEW P \in [1..(N + 1) -> Nat \ {0}], P[1] = 1,
         NEW x \in 1..(P[N + 1] - 1)
  PROVE  \E i \in 1..N : P[i] <= x /\ x < P[i + 1]
<1> DEFINE A == {i \in 1..(N + 1) : x < P[i]}
<1>1. N + 1 \in 1..(N + 1) /\ P[N + 1] \in Nat
  OBVIOUS
<1>2. A \subseteq Nat /\ N + 1 \in A
  BY <1>1
<1> HIDE DEF A
<1>3. PICK i \in A : \A j \in A : i <= j
  BY <1>2, LeastExists
<1>4. i \in 1..(N + 1) /\ x < P[i]
  BY DEF A
<1>5. i # 1
  BY <1>4
<1> DEFINE k == i - 1
<1>6. k \in 1..N /\ k + 1 = i /\ k \in 1..(N + 1) /\ ~(i <= k)
  BY <1>4, <1>5
<1> HIDE DEF k
<1>7. k \notin A
  BY <1>3, <1>6
<1>8. P[k] <= x
  <2>1. P[k] \in Nat
    BY <1>6
  <2> QED
    BY <1>6, <1>7, <2>1 DEF A
<1> QED
  BY <1>4, <1>6, <1>8

\* An object cut between its characters stays well-formed in chunks (Utf8).
LEMMA ChunkedIsText ==
  ASSUME NEW b \in Bytes, Len(b) \in 1..7, NEW c \in Cuts(b), NEW e \in BOOLEAN, Utf8(b),
         \A i \in 1..Len(c) : b[c[i]] # "u1"
  PROVE  Utf8(Chunked(b, c, e))
<1> DEFINE r == Chunked(b, c, e)
           N == Len(c)
<1>1. /\ N \in Nat \ {0}
      /\ \A i \in 1..N :
              /\ c[i] \in 1..Len(b) /\ Cut(c, i) \in 0..(c[i] - 1)
              /\ Len(Part(b, c, i)) = c[i] - Cut(c, i)
              /\ Len(Part(b, c, i)) \in 1..7
  BY PartsAre
<1>2. PICK P : ChunksBegin(P, b, c, e)
  BY ChunkedLayout
<1>3. /\ P \in [1..(N + 1) -> Nat \ {0}]
      /\ P[1] = 1 /\ SizeAt(r, P[N + 1], 0, FALSE)
      /\ r[P[N + 1] + 3] = "CR" /\ r[P[N + 1] + 4] = "LF"
      /\ Len(r) = P[N + 1] + 4
      /\ \A i \in 1..N :
           /\ P[i + 1] <= P[N + 1]
           /\ ChunkAt(r, P[i], Part(b, c, i), e)
           /\ P[i + 1] = P[i] + Ext(e) + Len(Part(b, c, i)) + 5
  BY <1>2 DEF ChunksBegin
<1> HIDE DEF r, N
<1>4. P[N + 1] \in Nat \ {0}
  BY <1>1, <1>3
<1> SUFFICES ASSUME NEW x \in 1..Len(r), r[x] \in {"u1", "u2"}
             PROVE  /\ r[x] = "u1" => x < Len(r) /\ r[x + 1] = "u2"
                    /\ r[x] = "u2" => x > 1 /\ r[x - 1] = "u1"
  BY DEF Utf8, r
<1>5. x < P[N + 1]
  <2> DEFINE q == P[N + 1]
  <2>1. r[q] = Numeral[0 + 1] /\ r[q + Ext(FALSE) + 1] = "CR" /\ r[q + Ext(FALSE) + 2] = "LF"
        /\ r[q + 3] = "CR" /\ r[q + 4] = "LF" /\ Len(r) = q + 4
    BY <1>3 DEF SizeAt
  <2>2. Ext(FALSE) = 0 /\ 0 + 1 \in 1..8
    BY DEF Ext
  <2>3. r[q] \notin {"u1", "u2"}
    BY <2>1, <2>2, NumeralPlain
  <2> HIDE DEF q
  <2>4. q + 0 + 1 = q + 1 /\ q + 0 + 2 = q + 2 /\ q \in Nat
    BY <1>4 DEF q
  <2>5. r[q + 1] = "CR" /\ r[q + 2] = "LF"
    BY <2>1, <2>2, <2>4, Zenon
  <2>6. x < q \/ x = q \/ x = q + 1 \/ x = q + 2 \/ x = q + 3 \/ x = q + 4
    BY <2>1, <2>4
  <2>7. x < q
    BY <2>1, <2>3, <2>5, <2>6
  <2> QED
    BY <2>7 DEF q
<1>6. PICK i \in 1..N : P[i] <= x /\ x < P[i + 1]
  <2>1. x \in 1..(P[N + 1] - 1)
    BY <1>4, <1>5
  <2> QED
    BY <1>1, <1>3, <2>1, ChunksCover
<1> DEFINE p == P[i]
           d == Part(b, c, i)
           l == Len(d)
           k == Cut(c, i)
           y == Ext(e)
<1>7. p \in Nat \ {0} /\ l \in 1..7 /\ ChunkAt(r, p, d, e) /\ P[i + 1] = p + y + l + 5
      /\ p <= x /\ x < P[i + 1] /\ P[i + 1] <= P[N + 1]
  <2>1. i \in 1..(N + 1)
    BY <1>1
  <2>2. P[i] \in Nat \ {0}
    BY <1>3, <2>1
  <2> QED
    BY <1>1, <1>3, <1>6, <2>2
<1>8. c[i] \in 1..Len(b) /\ k \in 0..(c[i] - 1) /\ l = c[i] - k /\ b[c[i]] # "u1"
  BY <1>1 DEF N
<1>9. \A j \in 1..l : d[j] = b[k + j]
  BY PartHolds DEF N
<1>10. y \in 0..1
  BY DEF Ext
<1>11. k # 0 => b[k] # "u1"
  <2>1. k # 0 => i # 1 /\ k = c[i - 1]
    BY DEF Cut
  <2>2. i # 1 => i - 1 \in 1..Len(c)
    BY <1>1 DEF N
  <2> QED
    BY <2>1, <2>2
<1>12. \A j \in 1..l : r[p + y + 2 + j] = d[j]
  BY <1>7 DEF ChunkAt
<1>20. Len(b) \in 1..7
  OBVIOUS
<1>21. Len(r) = P[N + 1] + 4
  BY <1>3
<1> HIDE DEF p, d, l, k
<1>13. x \in p..(p + Ext(e) + l + 4)
  <2>1. p + y + l + 5 \in Nat /\ x < p + y + l + 5
    BY <1>7, <1>10
  <2> HIDE DEF y
  <2>2. x \in p..(p + y + l + 4)
    BY <1>7, <1>10, <2>1
  <2> QED
    BY <2>2 DEF y
<1>14. PICK j \in 1..l : x = p + Ext(e) + 2 + j /\ r[x] = d[j]
  <2>1. p \in Nat \ {0} /\ Len(d) \in 1..7 /\ ChunkAt(r, p, d, e) /\ e \in BOOLEAN
    BY <1>7 DEF l
  <2>2. r[x] \in {"u1", "u2"} /\ x \in p..(p + Ext(e) + Len(d) + 4)
    BY <1>13 DEF l
  <2>3. AtData(r, p, d, e, x)
    BY <2>1, <2>2, InData
  <2> QED
    BY <2>3 DEF AtData, l
<1> DEFINE m == k + j
           z == c[i]
<1>15. z \in 1..Len(b) /\ k \in 0..(z - 1) /\ l = z - k /\ b[z] # "u1"
  BY <1>8
<1>16. x = p + y + 2 + j
  BY <1>14
<1> HIDE DEF y, z
<1>17. m \in 1..Len(b) /\ d[j] = b[m]
  BY <1>7, <1>9, <1>15, <1>20
<1>18. ASSUME r[x] = "u1" PROVE x < Len(r) /\ r[x + 1] = "u2"
  <2>1. b[m] = "u1"
    BY <1>14, <1>17, <1>18
  <2>2. m < Len(b) /\ b[m + 1] = "u2"
    BY <1>17, <2>1 DEF Utf8
  <2>3. j # l
    <3>1. j = l => m = z
      BY <1>7, <1>15
    <3> QED
      BY <1>15, <2>1, <3>1
  <2>4. j + 1 \in 1..l /\ k + (j + 1) = m + 1 /\ x + 1 = p + y + 2 + (j + 1)
    BY <1>7, <1>10, <1>15, <1>16, <2>3
  <2> HIDE DEF m
  <2>5. r[p + y + 2 + (j + 1)] = d[j + 1] /\ d[j + 1] = b[k + (j + 1)]
    BY <1>9, <1>12, <2>4, Zenon
  <2>7. r[x + 1] = "u2"
    BY <2>2, <2>4, <2>5, Zenon
  <2>6. x < Len(r)
    BY <1>4, <1>5, <1>21
  <2> QED
    BY <2>6, <2>7
<1>19. ASSUME r[x] = "u2" PROVE x > 1 /\ r[x - 1] = "u1"
  <2>1. b[m] = "u2"
    BY <1>14, <1>17, <1>19
  <2>2. m > 1 /\ b[m - 1] = "u1"
    BY <1>17, <2>1 DEF Utf8
  <2>3. j # 1
    <3>1. j = 1 => m - 1 = k /\ k # 0
      BY <1>15, <1>20, <2>2
    <3> QED
      BY <1>11, <2>2, <3>1
  <2>4. j - 1 \in 1..l /\ k + (j - 1) = m - 1 /\ x - 1 = p + y + 2 + (j - 1) /\ x > 1
    BY <1>7, <1>10, <1>15, <1>16, <1>20, <2>3
  <2> HIDE DEF m
  <2>5. r[x - 1] = "u1"
    BY <1>9, <1>12, <2>2, <2>4, Zenon
  <2> QED
    BY <2>4, <2>5
<1> QED
  BY <1>18, <1>19

\* The body begins behind the blank line that ends the header.
LEMMA StreamHolds ==
  ASSUME NEW w \in Bytes
  PROVE  LET st == Cat(Cat(Crlf, Crlf), w) IN
         /\ st \in Bytes /\ Len(st) = 4 + Len(w)
         /\ st[1] = "CR" /\ st[2] = "LF" /\ st[3] = "CR" /\ st[4] = "LF"
         /\ \A j \in 1..Len(w) : st[4 + j] = w[j]
<1> DEFINE x == Crlf \o Crlf
           st == Cat(x, w)
<1>1. x \in Bytes /\ Len(x) = 4 /\ x = Cat(Crlf, Crlf)
      /\ x[1] = "CR" /\ x[2] = "LF" /\ x[3] = "CR" /\ x[4] = "LF"
  BY BlankIs
<1> HIDE DEF x
<1>2. st \in Bytes /\ Len(st) = Len(x) + Len(w) /\ Leads(x, st)
      /\ \A j \in 1..Len(w) : st[Len(x) + j] = w[j]
  BY <1>1, CatTypes, CatHolds
<1>3. Cat(Cat(Crlf, Crlf), w) = st
  BY <1>1
<1> HIDE DEF st
<1>4. \A j \in 1..4 : x[j] = st[j]
  BY <1>1, <1>2 DEF Leads
<1>5. 1 \in 1..4 /\ 2 \in 1..4 /\ 3 \in 1..4 /\ 4 \in 1..4
  OBVIOUS
<1>6. st[1] = "CR" /\ st[2] = "LF" /\ st[3] = "CR" /\ st[4] = "LF"
  BY <1>1, <1>4, <1>5, Zenon
<1>7. Len(st) = 4 + Len(w) /\ \A j \in 1..Len(w) : st[4 + j] = w[j]
  BY <1>1, <1>2, Zenon
<1> QED
  BY <1>2, <1>3, <1>6, <1>7, Zenon

\* A header does not break a character (the text of the answer, main).
LEMMA StreamIsText ==
  ASSUME NEW w \in Bytes, Utf8(w)
  PROVE  Utf8(Cat(Cat(Crlf, Crlf), w))
<1> DEFINE st == Cat(Cat(Crlf, Crlf), w)
           n == Len(w)
<1>1. st \in Bytes /\ Len(st) = 4 + n
      /\ st[1] = "CR" /\ st[2] = "LF" /\ st[3] = "CR" /\ st[4] = "LF"
      /\ \A j \in 1..n : st[4 + j] = w[j]
  BY StreamHolds
<1>2. n \in Nat
  BY DEF Bytes
<1>3. \A i \in 1..n : /\ w[i] = "u1" => i < n /\ w[i + 1] = "u2"
                      /\ w[i] = "u2" => i > 1 /\ w[i - 1] = "u1"
  BY DEF Utf8
<1> HIDE DEF st, n
<1> SUFFICES ASSUME NEW i \in 1..Len(st)
             PROVE  /\ st[i] = "u1" => i < Len(st) /\ st[i + 1] = "u2"
                    /\ st[i] = "u2" => i > 1 /\ st[i - 1] = "u1"
  BY DEF Utf8, st
<1>4. CASE i <= 4
  <2>1. i = 1 \/ i = 2 \/ i = 3 \/ i = 4
    BY <1>4
  <2> QED
    BY <1>1, <2>1
<1>5. CASE i > 4
  <2> DEFINE j == i - 4
  <2>1. j \in 1..n /\ 4 + j = i
    BY <1>1, <1>2, <1>5
  <2> HIDE DEF j
  <2>2. st[i] = w[j]
    BY <1>1, <2>1
  <2>3. ASSUME st[i] = "u1" PROVE i < Len(st) /\ st[i + 1] = "u2"
    <3>1. j < n /\ w[j + 1] = "u2"
      BY <1>3, <2>1, <2>2, <2>3
    <3>2. j + 1 \in 1..n /\ 4 + (j + 1) = i + 1 /\ i < Len(st)
      BY <1>1, <1>2, <2>1, <3>1
    <3>3. st[4 + (j + 1)] = w[j + 1]
      BY <1>1, <3>2
    <3> QED
      BY <3>1, <3>2, <3>3, Zenon
  <2>4. ASSUME st[i] = "u2" PROVE i > 1 /\ st[i - 1] = "u1"
    <3>1. j > 1 /\ w[j - 1] = "u1"
      BY <1>3, <2>1, <2>2, <2>4
    <3>2. j - 1 \in 1..n /\ 4 + (j - 1) = i - 1 /\ i > 1
      BY <1>2, <2>1, <3>1
    <3>3. st[4 + (j - 1)] = w[j - 1]
      BY <1>1, <3>2
    <3> QED
      BY <3>1, <3>2, <3>3, Zenon
  <2> QED
    BY <2>3, <2>4
<1> QED
  BY <1>4, <1>5

\* A blank line of the body is one of the stream, four bytes on.
LEMMA BlankMoves ==
  ASSUME NEW w \in Bytes, NEW i \in 1..(Len(w) - 3)
  PROVE  LET st == Cat(Cat(Crlf, Crlf), w) IN
         SubSeq(st, 4 + i, 4 + i + 3) = SubSeq(w, i, i + 3)
<1> DEFINE st == Cat(Cat(Crlf, Crlf), w)
           n == Len(w)
           u == SubSeq(st, 4 + i, 4 + i + 3)
           v == SubSeq(w, i, i + 3)
<1>1. st \in Seq(Byte) /\ Len(st) = 4 + n /\ \A j \in 1..n : st[4 + j] = w[j]
  BY StreamHolds DEF Bytes
<1>2. n \in Nat /\ w \in Seq(Byte)
  BY DEF Bytes
<1> HIDE DEF st
<1>3. i \in 1..(n + 1) /\ i + 3 \in (i - 1)..n /\ i + 3 - i + 1 = 4
  BY <1>2
<1>4. 4 + i \in 1..(Len(st) + 1) /\ 4 + i + 3 \in (4 + i - 1)..Len(st) /\ 4 + i + 3 - (4 + i) + 1 = 4
  BY <1>1, <1>2
<1>5. v \in Seq(Byte) /\ Len(v) = 4 /\ \A j \in 1..4 : v[j] = w[i + j - 1]
  <2>1. v \in Seq(Byte) /\ Len(v) = i + 3 - i + 1 /\ \A j \in 1..(i + 3 - i + 1) : v[j] = w[i + j - 1]
    BY <1>2, <1>3, Stretch
  <2> HIDE DEF v
  <2> QED
    BY <1>3, <2>1, Zenon
<1>6. u \in Seq(Byte) /\ Len(u) = 4 /\ \A j \in 1..4 : u[j] = st[4 + i + j - 1]
  <2> DEFINE a == 4 + i
             z == 4 + i + 3
  <2>1. a \in 1..(Len(st) + 1) /\ z \in (a - 1)..Len(st) /\ z - a + 1 = 4 /\ u = SubSeq(st, a, z)
    BY <1>4
  <2> HIDE DEF a, z, u
  <2>2. u \in Seq(Byte) /\ Len(u) = z - a + 1 /\ \A j \in 1..(z - a + 1) : u[j] = st[a + j - 1]
    BY <1>1, <2>1, Stretch
  <2>3. u \in Seq(Byte) /\ Len(u) = 4 /\ \A j \in 1..4 : u[j] = st[a + j - 1]
    BY <2>1, <2>2, Zenon
  <2> QED
    BY <2>3 DEF a
<1> HIDE DEF u, v
<1>7. \A j \in 1..4 : u[j] = v[j]
  <2> TAKE j \in 1..4
  <2> DEFINE k == i + j - 1
  <2>1. k \in 1..n /\ 4 + i + j - 1 = 4 + k
    BY <1>2
  <2> HIDE DEF k
  <2>2. u[j] = st[4 + k]
    BY <1>6, <2>1
  <2>3. st[4 + k] = w[k]
    BY <1>1, <2>1
  <2>4. v[j] = w[k]
    BY <1>5 DEF k
  <2> QED
    BY <2>2, <2>3, <2>4
<1>8. u = v
  BY <1>5, <1>6, <1>7, SeqEqual
<1> QED
  BY <1>8 DEF u, v, st

\* The guest finds the body's first blank line (the second search in main).
LEMMA SecondBlank ==
  ASSUME NEW w \in Bytes
  PROVE  LET st == Cat(Cat(Crlf, Crlf), w)
             at == Find(w, Crlf \o Crlf, 1)
         IN Find(st, Crlf \o Crlf, 5) = IF at = 0 THEN 0 ELSE 4 + at
<1> DEFINE st == Cat(Cat(Crlf, Crlf), w)
           n == Len(w)
           blank == Crlf \o Crlf
           at == Find(w, blank, 1)
           A == Begins(w, blank, 1)
           B == Begins(st, blank, 5)
<1>1. st \in Bytes /\ Len(st) = 4 + n
  BY StreamHolds
<1>2. n \in Nat /\ Len(st) \in Nat
  BY <1>1 DEF Bytes
<1>3. Len(blank) = 4
  BY BlankIs
<1>4. \A i \in 1..(n - 3) : SubSeq(st, 4 + i, 4 + i + 3) = SubSeq(w, i, i + 3)
  BY BlankMoves
<1> HIDE DEF blank, st, n
<1>5. A = {i \in 1..(n - 3) : SubSeq(w, i, i + 3) = blank}
  <2>1. n + 1 - 4 = n - 3 /\ \A i \in 1..(n - 3) : i + 4 - 1 = i + 3
    BY <1>2
  <2> QED
    BY <1>3, <2>1 DEF Begins, n
<1>6. B = {i \in 5..(n + 1) : SubSeq(st, i, i + 3) = blank}
  <2>1. 4 + n + 1 - 4 = n + 1 /\ \A i \in 5..(n + 1) : i + 4 - 1 = i + 3
    BY <1>2
  <2> QED
    BY <1>1, <1>3, <2>1 DEF Begins
<1>7. ASSUME NEW i \in A PROVE 4 + i \in B
  <2>1. i \in 1..(n - 3) /\ SubSeq(w, i, i + 3) = blank
    BY <1>5
  <2>2. SubSeq(st, 4 + i, 4 + i + 3) = blank
    BY <1>4, <2>1
  <2>3. 4 + i \in 5..(n + 1)
    BY <1>2, <2>1
  <2> QED
    BY <1>6, <2>2, <2>3
<1>8. ASSUME NEW k \in B PROVE k - 4 \in A /\ k \in Nat
  <2> DEFINE i == k - 4
  <2>1. k \in 5..(n + 1) /\ SubSeq(st, k, k + 3) = blank
    BY <1>6
  <2>2. i \in 1..(n - 3) /\ 4 + i = k
    BY <1>2, <2>1
  <2> HIDE DEF i
  <2>3. SubSeq(w, i, i + 3) = blank
    BY <1>4, <2>1, <2>2
  <2>4. i \in A
    BY <1>5, <2>2, <2>3
  <2> QED
    BY <2>1, <2>4 DEF i
<1>9. Len(w) \in Nat /\ Len(blank) \in Nat /\ 1 \in Nat /\ 5 \in Nat
  BY <1>2, <1>3 DEF n
<1>10. /\ A = {} => at = 0
       /\ A # {} => at \in A /\ \A j \in A : at <= j
  BY <1>9, FindIs
<1>11. /\ B = {} => Find(st, blank, 5) = 0
       /\ \A x \in B : (\A j \in B : x <= j) => Find(st, blank, 5) = x
  BY <1>2, <1>9, FindIs
<1> HIDE DEF A, B, at
<1>12. CASE A = {}
  <2>1. B = {}
    BY <1>8, <1>12
  <2> QED
    BY <1>10, <1>11, <1>12, <2>1 DEF at, st, blank
<1>13. CASE A # {}
  <2>1. at \in A /\ at \in 1..(n - 3)
    BY <1>5, <1>10, <1>13
  <2>2. at \in Nat /\ at # 0
    BY <2>1
  <2>3. 4 + at \in B
    BY <1>7, <2>1
  <2>4. ASSUME NEW j \in B PROVE 4 + at <= j
    <3>1. j - 4 \in A /\ j \in Nat
      BY <1>8
    <3>2. at <= j - 4
      BY <1>10, <1>13, <3>1
    <3> QED
      BY <2>2, <3>1, <3>2
  <2>5. Find(st, blank, 5) = 4 + at
    BY <1>11, <2>3, <2>4
  <2> QED
    BY <2>2, <2>5 DEF at, st, blank
<1> QED
  BY <1>12, <1>13

\* The guest takes for the body what is before its first blank line (main).
LEMMA RawBodyEnds ==
  ASSUME NEW w \in Bytes
  PROVE  LET at == Find(w, Crlf \o Crlf, 1)
         IN Len(RawBody(Cat(Cat(Crlf, Crlf), w))) = IF at = 0 THEN Len(w) ELSE at - 1
<1> DEFINE st == Cat(Cat(Crlf, Crlf), w)
           n == Len(w)
           blank == Crlf \o Crlf
           at == Find(w, blank, 1)
           first == Find(st, blank, 1)
           from == first + 4
           second == Find(st, blank, from)
           end == IF second = 0 THEN Len(st) ELSE second - 1
           x == RawBody(st)
<1>1. st \in Bytes /\ Len(st) = 4 + n
  BY StreamHolds
<1>2. n \in Nat /\ Len(st) \in Nat /\ st \in Seq(Byte)
  BY <1>1 DEF Bytes
<1>3. Leads(st, st)
  <2> HIDE DEF st
  <2> QED
    BY <1>2 DEF Leads
<1>4. first = 1
  <2>1. Len(st) >= 4
    BY <1>1, <1>2
  <2> QED
    BY <1>1, <1>3, <2>1, FirstBlank
<1>5. x = IF first = 0 THEN <<>> ELSE SubSeq(st, from, end)
  BY DEF RawBody
<1>6. Find(st, blank, 5) = IF at = 0 THEN 0 ELSE 4 + at
  BY SecondBlank
<1>7. at = 0 \/ at \in 1..(n - 3)
  <2>1. Len(blank) = 4 /\ 1 \in Nat
    BY BlankIs
  <2> HIDE DEF blank
  <2>2. Len(blank) \in Nat /\ Len(w) \in Nat
    BY <1>2, <2>1
  <2>3. at = 0 \/ at \in 1..(Len(w) + 1 - Len(blank))
    BY <2>1, <2>2, FindRange
  <2>4. n + 1 - 4 = n - 3
    BY <1>2
  <2> QED
    BY <2>1, <2>3, <2>4
<1> HIDE DEF first
<1>8. from = 5
  BY <1>4
<1> HIDE DEF from
<1>9. second = IF at = 0 THEN 0 ELSE 4 + at
  BY <1>6, <1>8
<1> HIDE DEF second, at, st, n
<1>10. end = IF at = 0 THEN 4 + n ELSE 3 + at
  BY <1>1, <1>2, <1>7, <1>9
<1>11. x = SubSeq(st, 5, end)
  BY <1>4, <1>5, <1>8
<1> HIDE DEF end, x
<1>12. 5 \in 1..(Len(st) + 1) /\ end \in (5 - 1)..Len(st) /\ end - 5 + 1 = end - 4
  BY <1>1, <1>2, <1>7, <1>10
<1>13. Len(x) = end - 5 + 1
  BY <1>2, <1>11, <1>12, Stretch
<1>14. Len(x) = IF at = 0 THEN n ELSE at - 1
  BY <1>2, <1>7, <1>10, <1>12, <1>13
<1> QED
  BY <1>14 DEF x, at, n, st

\* A plain object is taken as it is (unchunk finds no size in it).
LEMMA PlainIsWhole ==
  ASSUME NEW b \in Bodies, NEW t \in Bytes, Leads(t, b), Len(t) = Len(b)
  PROVE  Unchunked(t) = b
<1>1. b \in Seq(Byte) /\ t \in Seq(Byte) /\ Len(b) \in Nat /\ IsObject(b)
  BY ResponseAssumption, ObjectsAssumption DEF Bytes
<1>2. t = b
  <2>1. \A i \in 1..Len(t) : t[i] = b[i]
    BY DEF Leads
  <2> QED
    BY <1>1, <2>1, SeqEqual
<1>3. b[1] \in {"CR", "LF", "{"}
  BY <1>1, ObjectBytes
<1>4. Ends(b, 1)
  <2>1. b[1] \notin DOMAIN Digits
    BY <1>3, DigitsAre
  <2> QED
    BY <1>1, <2>1, PlainUnread
<1>5. Decoded(b)[1] = <<>>
  <2>1. 1 \in 1..(Len(b) + 1)
    BY <1>1
  <2> QED
    BY <1>1, <1>4, <2>1, DecodedStep DEF Reads
<1> QED
  BY <1>2, <1>5 DEF Unchunked, Chunks

\* The first blank line behind the chunks, if none is inside.
LEMMA LastBlank ==
  ASSUME NEW r \in Bytes, NEW q \in Nat \ {0}, Len(r) = q + 4,
         r[q + 1] = "CR", r[q + 2] = "LF", r[q + 3] = "CR", r[q + 4] = "LF"
  PROVE  Find(r, Crlf \o Crlf, 1) \in 1..(q + 1)
<1> DEFINE blank == Crlf \o Crlf
           A == Begins(r, blank, 1)
           k == q + 1
           u == SubSeq(r, k, q + 4)
<1>1. r \in Seq(Byte)
  BY DEF Bytes
<1>2. blank \in Seq(Byte) /\ Len(blank) = 4
      /\ blank[1] = "CR" /\ blank[2] = "LF" /\ blank[3] = "CR" /\ blank[4] = "LF"
  BY BlankIs DEF Bytes
<1> HIDE DEF blank
<1>3. u \in Seq(Byte) /\ Len(u) = 4 /\ \A j \in 1..4 : u[j] = r[q + j]
  <2> DEFINE z == q + 4
  <2>1. k \in 1..(Len(r) + 1) /\ z \in (k - 1)..Len(r) /\ z - k + 1 = 4 /\ u = SubSeq(r, k, z)
        /\ \A j \in 1..4 : k + j - 1 = q + j
    OBVIOUS
  <2> HIDE DEF k, z, u
  <2>2. u \in Seq(Byte) /\ Len(u) = z - k + 1 /\ \A j \in 1..(z - k + 1) : u[j] = r[k + j - 1]
    BY <1>1, <2>1, Stretch
  <2> QED
    BY <2>1, <2>2, Zenon
<1> HIDE DEF u
<1>4. \A j \in 1..4 : u[j] = blank[j]
  <2> TAKE j \in 1..4
  <2>1. j = 1 \/ j = 2 \/ j = 3 \/ j = 4
    OBVIOUS
  <2> QED
    BY <1>2, <1>3, <2>1
<1>5. u = blank
  BY <1>2, <1>3, <1>4, SeqEqual
<1>6. k \in A
  <2>1. k \in 1..(Len(r) + 1 - Len(blank)) /\ k + Len(blank) - 1 = q + 4
    BY <1>2
  <2>2. SubSeq(r, k, k + Len(blank) - 1) = blank
    BY <1>5, <2>1, Zenon DEF u
  <2> HIDE DEF k
  <2> QED
    BY <2>1, <2>2, Zenon DEF Begins
<1>7. Len(r) \in Nat /\ Len(blank) \in Nat /\ 1 \in Nat
  BY <1>2
<1>8. Find(r, blank, 1) \in A /\ Find(r, blank, 1) <= k
  <2> HIDE DEF A, k
  <2>1. A # {} => Find(r, blank, 1) \in A /\ \A j \in A : Find(r, blank, 1) <= j
    BY <1>7, FindIs DEF A
  <2> QED
    BY <1>6, <2>1
<1> DEFINE f == Find(r, blank, 1)
<1>9. f \in 1..(Len(r) + 1 - Len(blank)) /\ f <= q + 1
  BY <1>8 DEF Begins
<1> HIDE DEF f
<1>10. f \in 1..(q + 1)
  BY <1>2, <1>9
<1> QED
  BY <1>10 DEF f, blank

\* Every answer without a blank line in the body and without a chunk that ends inside a
\* character is decoded, and holds the object (main, from the text of the answer to
\* serde_json).
LEMMA WholeDecodes ==
  ASSUME answer \in Answers, ~BlankInside, ~CharacterSplit
  PROVE  Utf8(Stream) /\ IsObject(Unchunked(RawBody(Stream)))
<1> DEFINE w == answer.raw
           st == Cat(Cat(Crlf, Crlf), w)
           at == Find(w, Crlf \o Crlf, 1)
           t == RawBody(st)
<1>1. Stream = st
  BY DEF Stream, Cat
<1>2. w \in Bytes
  BY AnswerTypes
<1>3. at = 0 \/ (answer.cuts # <<>> /\ ~(at < Len(w) - 3))
  BY DEF BlankInside
<1>4. \A i \in DOMAIN answer.cuts : answer.body[answer.cuts[i]] # "u1"
  BY DEF CharacterSplit
<1>5. Len(t) = IF at = 0 THEN Len(w) ELSE at - 1
  <2> HIDE DEF w
  <2> QED
    BY <1>2, RawBodyEnds
<1>6. t \in Bytes /\ Leads(t, w)
  <2> HIDE DEF w
  <2>1. st \in Bytes /\ Len(st) \in Nat
    <3>1. st \in Bytes
      BY <1>2, StreamHolds
    <3> QED
      BY <3>1 DEF Bytes
  <2>2. Leads(st, st)
    <3> HIDE DEF st
    <3> QED
      BY <2>1 DEF Leads
  <2> QED
    BY <1>2, <2>1, <2>2, RawBodyLeads
<1>7. ASSUME Utf8(w), IsObject(Unchunked(t)) PROVE Utf8(Stream) /\ IsObject(Unchunked(RawBody(Stream)))
  <2>1. Utf8(st)
    <3> HIDE DEF w
    <3> QED
      BY <1>2, <1>7, StreamIsText
  <2> QED
    BY <1>1, <1>7, <2>1
<1> HIDE DEF t, st
<1>8. CASE \E b \in Bodies, v \in BOOLEAN :
             answer = [body |-> b, cuts |-> <<>>, raw |-> b, above |-> v]
  <2>1. PICK b \in Bodies : w = b /\ answer.cuts = <<>>
    BY <1>8
  <2>2. at = 0
    BY <1>3, <2>1
  <2> HIDE DEF at, w
  <2>3. t \in Bytes /\ Leads(t, b) /\ Len(t) = Len(b)
    BY <1>5, <1>6, <2>1, <2>2
  <2>4. Unchunked(t) = b
    BY <2>3, PlainIsWhole
  <2> QED
    BY <1>7, <2>1, <2>4, ObjectsAssumption
<1>9. CASE \E b \in Bodies : \E c \in Cuts(b) :
             answer = [body |-> b, cuts |-> c, raw |-> Chunked(b, c, Len(c) = 1), above |-> TRUE]
  <2>1. PICK b \in Bodies : \E c \in Cuts(b) :
             answer.body = b /\ answer.cuts = c /\ answer.raw = Chunked(b, c, Len(c) = 1)
    BY <1>9
  <2>2. PICK c \in Cuts(b) :
             answer.body = b /\ answer.cuts = c /\ w = Chunked(b, c, Len(c) = 1)
    BY <2>1
  <2>3. b \in Bytes /\ Len(b) \in 1..7 /\ IsObject(b) /\ Utf8(b)
    BY ResponseAssumption, ObjectsAssumption DEF Bytes
  <2> DEFINE e == Len(c) = 1
  <2>4. e \in BOOLEAN /\ w = Chunked(b, c, e)
    BY <2>2
  <2>5. Len(c) \in Nat \ {0} /\ DOMAIN c = 1..Len(c) /\ c[Len(c)] = Len(b)
    BY <2>3, PartsAre
  <2>6. \A i \in 1..Len(c) : b[c[i]] # "u1"
    BY <1>4, <2>2, <2>5
  <2> HIDE DEF e, w
  <2>7. Utf8(w)
    BY <2>3, <2>4, <2>6, ChunkedIsText
  <2>8. PICK P : ChunksBegin(P, b, c, e)
    BY <2>3, <2>4, ChunkedLayout
  <2> DEFINE q == P[Len(c) + 1]
  <2>9. q \in Nat \ {0} /\ SizeAt(w, q, 0, FALSE) /\ w[q + 3] = "CR" /\ w[q + 4] = "LF" /\ Len(w) = q + 4
    <3>1. Len(c) + 1 \in 1..(Len(c) + 1)
      BY <2>5
    <3>2. P \in [1..(Len(c) + 1) -> Nat \ {0}]
      BY <2>8 DEF ChunksBegin
    <3>3. q \in Nat \ {0}
      BY <3>1, <3>2
    <3> QED
      BY <2>4, <2>8, <3>3 DEF ChunksBegin
  <2> HIDE DEF q
  <2>10. w[q + 1] = "CR" /\ w[q + 2] = "LF"
    <3>1. Ext(FALSE) = 0 /\ q + 0 + 1 = q + 1 /\ q + 0 + 2 = q + 2
      BY <2>9 DEF Ext
    <3>2. w[q + Ext(FALSE) + 1] = "CR" /\ w[q + Ext(FALSE) + 2] = "LF"
      BY <2>9 DEF SizeAt
    <3> QED
      BY <3>1, <3>2, Zenon
  <2>11. at \in 1..(q + 1)
    BY <1>2, <2>9, <2>10, LastBlank
  <2> HIDE DEF at
  <2>12. at = q + 1
    <3>1. at # 0
      BY <2>11
    <3> QED
      BY <1>3, <2>9, <2>11, <3>1
  <2>13. Len(t) = q
    BY <1>5, <2>9, <2>12
  <2>14. Chunks(t) = b
    <3>1. P[Len(c) + 1] <= Len(t)
      BY <2>9, <2>13 DEF q
    <3>2. Leads(t, Chunked(b, c, e))
      BY <1>6, <2>4
    <3> QED
      BY <1>6, <2>3, <2>4, <2>6, <2>8, <3>1, <3>2, DecodedIsWhole
  <2>15. b # <<>>
    BY <2>3
  <2>16. Unchunked(t) = b
    BY <2>14, <2>15 DEF Unchunked
  <2> QED
    BY <1>7, <2>3, <2>7, <2>16
<1> QED
  BY <1>8, <1>9 DEF Answers

-----------------------------------------------------------------------------
(* A whole answer is accepted.                                             *)

\* The records without one of them.
LEMMA WithoutHolds ==
  ASSUME NEW s \in Seq(TlsRecord), NEW i \in 1..Len(s)
  PROVE  /\ Len(Without(s, i)) = Len(s) - 1
         /\ \A k \in 1..(i - 1) : Without(s, i)[k] = s[k]
         /\ \A k \in i..(Len(s) - 1) : Without(s, i)[k] = s[k + 1]
<1> DEFINE n == Len(s)
           l == i - 1
           m == i + 1
           a == SubSeq(s, 1, l)
           b == SubSeq(s, m, n)
<1>1. n \in Nat /\ 1 \in 1..(n + 1) /\ l \in (1 - 1)..n /\ m \in 1..(n + 1) /\ n \in (m - 1)..n
      /\ l - 1 + 1 = l
  OBVIOUS
<1>2. Without(s, i) = a \o b
  BY DEF Without
<1> HIDE DEF n, l, m
<1>3. a \in Seq(TlsRecord) /\ Len(a) = l - 1 + 1 /\ \A k \in 1..(l - 1 + 1) : a[k] = s[1 + k - 1]
  BY <1>1, Stretch DEF n
<1>4. b \in Seq(TlsRecord) /\ Len(b) = n - m + 1 /\ \A k \in 1..(n - m + 1) : b[k] = s[m + k - 1]
  BY <1>1, Stretch DEF n
<1> HIDE DEF a, b
<1> DEFINE x == a \o b
<1>5. /\ Len(x) = Len(a) + Len(b)
      /\ \A k \in 1..(Len(a) + Len(b)) : x[k] = IF k <= Len(a) THEN a[k] ELSE b[k - Len(a)]
  BY <1>3, <1>4, ConcatProperties
<1> HIDE DEF x
<1>6. Len(a) = i - 1 /\ Len(b) = n - i /\ i \in 1..n
  BY <1>1, <1>3, <1>4 DEF l, m, n
<1>7. Len(x) = n - 1
  BY <1>1, <1>5, <1>6
<1>8. ASSUME NEW k \in 1..(i - 1) PROVE x[k] = s[k]
  <2>1. k \in 1..(Len(a) + Len(b)) /\ k <= Len(a) /\ k \in 1..(l - 1 + 1) /\ 1 + k - 1 = k
    BY <1>1, <1>6 DEF l
  <2>2. x[k] = a[k]
    BY <1>5, <2>1
  <2>3. a[k] = s[k]
    BY <1>3, <2>1, Zenon
  <2> QED
    BY <2>2, <2>3
<1>9. ASSUME NEW k \in i..(n - 1) PROVE x[k] = s[k + 1]
  <2> DEFINE j == k - (i - 1)
  <2>1. k \in 1..(Len(a) + Len(b)) /\ ~(k <= Len(a)) /\ j = k - Len(a)
        /\ j \in 1..(n - m + 1) /\ m + j - 1 = k + 1
    BY <1>1, <1>6 DEF m
  <2> HIDE DEF j
  <2>2. x[k] = b[j]
    BY <1>5, <2>1
  <2>3. b[j] = s[k + 1]
    BY <1>4, <2>1, Zenon
  <2> QED
    BY <2>2, <2>3
<1> QED
  BY <1>2, <1>7, <1>8, <1>9 DEF x, n

\* Behind the last data of the answer there is at most the alert (SendOther).
LEMMA DataEnds ==
  ASSUME ResponseInv, SentInShape, unsent = <<>>
  PROVE  \E d \in 1..Len(records) :
           /\ records[d].type = "data" /\ d + 1 >= Len(records)
           /\ \A m \in d..Len(records) : Joined(records)[m] = Stream
<1> DEFINE N == Len(records)
           j == Joined(records)
<1>1. records \in Seq(TlsRecord) /\ N \in Nat /\ j[N] \in Bytes /\ Cat(j[N], unsent) = Stream
  BY SentTypes
<1>2. N > 0 /\ records[N].type # "ticket"
      /\ (records[N].type = "alert" => N > 1 /\ records[N - 1].type = "data")
  <2>1. N > 0 /\ records[N].type # "ticket"
    BY DEF SentInShape
  <2>2. N \in 1..N
    BY <1>1, <2>1
  <2> QED
    BY <2>1, <2>2 DEF SentInShape
<1>3. N \in 1..N
  BY <1>1, <1>2
<1>4. records[N].type \in {"data", "ticket", "alert"}
  <2>1. records[N] \in TlsRecord
    BY <1>1, <1>3, ElementOfSeq
  <2> QED
    BY <2>1 DEF TlsRecord
<1>5. j[N] = Stream
  <2>1. Cat(j[N], <<>>) = j[N]
    <3> HIDE DEF j, N
    <3> QED
      BY <1>1, ConcatEmptySeq DEF Cat, Bytes
  <2> QED
    BY <1>1, <2>1
<1>6. j[N] = Add(j[N - 1], records[N])
  BY <1>1, <1>3, JoinedStep
<1> HIDE DEF N, j
<1>7. CASE records[N].type = "data"
  <2>1. \A m \in N..N : j[m] = Stream
    BY <1>1, <1>5
  <2> QED
    BY <1>1, <1>3, <1>7, <2>1 DEF N, j
<1>8. CASE records[N].type = "alert"
  <2> DEFINE d == N - 1
  <2>1. d \in 1..N /\ records[d].type = "data" /\ d + 1 >= N /\ \A m \in d..N : m = d \/ m = N
    BY <1>1, <1>2, <1>8
  <2>2. j[d] = Stream
    BY <1>5, <1>6, <1>8 DEF Add
  <2> HIDE DEF d
  <2>3. \A m \in d..N : j[m] = Stream
    BY <1>5, <2>1, <2>2
  <2> QED
    BY <2>1, <2>3 DEF N, j
<1> QED
  BY <1>2, <1>4, <1>7, <1>8

\* A host that leaves out no data hands over the answer, record by record (HandOver).
LEMMA HandsOverWhole ==
  ASSUME ResponseInv, SentInShape, HandOver, Whole'
  PROVE  GivenInPlace'
<1> DEFINE N == Len(records)
           c == capture'
<1>1. records \in Seq(TlsRecord) /\ N \in Nat /\ \A i \in 1..N : records[i].seq = i - 1
  BY SentTypes DEF ResponseInv, SentInOrder
<1>2. unsent = <<>> /\ records' = records /\ answer' = answer
  BY DEF HandOver
<1>3. PICK d \in 1..N :
           /\ records[d].type = "data" /\ d + 1 >= N
           /\ \A m \in d..N : Joined(records)[m] = Stream
  BY <1>2, DataEnds
<1>4. d <= Len(c) /\ \A j \in 1..d : c[j] = records[j]
  <2>1. DOMAIN records = 1..N
    BY <1>1
  <2> QED
    BY <1>2, <1>3, <2>1 DEF Whole
<1>5. Stream' = Stream
  BY <1>2 DEF Stream
<1>6. ASSUME Len(c) \in Nat, Len(c) <= N, \A j \in 1..Len(c) : c[j] = records[j]
      PROVE  GivenInPlace'
  <2>1. Len(c) \in d..N
    BY <1>1, <1>4, <1>6
  <2>2. Joined(records)[Len(c)] = Stream
    BY <1>3, <2>1
  <2> QED
    BY <1>2, <1>5, <1>6, <2>2 DEF GivenInPlace
<1>7. ASSUME NEW i \in 1..(N - 1), i <= d, c[i] = records[i + 1] PROVE FALSE
  <2>1. i \in 1..d /\ i \in 1..N /\ i + 1 \in 1..N
    BY <1>1, <1>7
  <2>2. records[i].seq = i - 1 /\ records[i + 1].seq = (i + 1) - 1
    BY <1>1, <2>1
  <2>3. c[i] = records[i]
    BY <1>4, <2>1
  <2> HIDE DEF c
  <2> QED
    BY <1>7, <2>2, <2>3
<1> HIDE DEF c
<1>8. ASSUME NEW n \in 1..N, c = SubSeq(records, 1, n) PROVE GivenInPlace'
  <2>1. 1 \in 1..(N + 1) /\ n \in (1 - 1)..N /\ n - 1 + 1 = n /\ n \in Nat /\ n <= N
    BY <1>1
  <2>2. Len(c) = n - 1 + 1 /\ \A k \in 1..(n - 1 + 1) : c[k] = records[1 + k - 1]
    BY <1>1, <1>8, <2>1, Stretch
  <2>3. Len(c) = n /\ \A k \in 1..n : c[k] = records[k]
    <3>1. \A k \in 1..n : 1 + k - 1 = k
      OBVIOUS
    <3> QED
      BY <2>1, <2>2, <3>1, Zenon
  <2> QED
    BY <1>6, <2>1, <2>3
<1>9. ASSUME NEW i \in 1..N, c = Without(records, i) PROVE GivenInPlace'
  <2>1. /\ Len(c) = N - 1
        /\ \A k \in 1..(i - 1) : c[k] = records[k]
        /\ \A k \in i..(N - 1) : c[k] = records[k + 1]
    BY <1>1, <1>9, WithoutHolds
  <2>2. Len(c) \in Nat /\ Len(c) <= N
    BY <1>1, <2>1
  <2>3. CASE i = N
    <3>1. \A j \in 1..Len(c) : c[j] = records[j]
      BY <2>1, <2>3
    <3> QED
      BY <1>6, <2>2, <3>1
  <2>4. CASE i # N
    <3>1. i \in 1..(N - 1) /\ i \in i..(N - 1) /\ i <= d
      BY <1>1, <1>3, <2>4
    <3>2. c[i] = records[i + 1]
      BY <2>1, <3>1
    <3> QED
      BY <1>7, <3>1, <3>2
  <2> QED
    BY <2>3, <2>4
<1>10. ASSUME NEW i \in 1..(N - 1), c = Swapped(records, i) PROVE FALSE
  <2>1. i <= d /\ i \in 1..N /\ i + 1 # i
    BY <1>1, <1>3
  <2>2. c[i] = records[i + 1]
    BY <1>1, <1>10, <2>1 DEF Swapped
  <2> QED
    BY <1>7, <2>1, <2>2
<1> QED
  BY <1>8, <1>9, <1>10 DEF HandOver, c

\* The shape of what the server sends.
LEMMA ShapeSends ==
  ASSUME ResponseInv, SentInShape, SendData \/ SendOther
  PROVE  SentInShape'
<1> DEFINE N == Len(records)
<1>1. records \in Seq(TlsRecord) /\ N \in Nat
  BY SentTypes
<1>2. /\ \A i \in 1..N : records[i].type = "ticket" => i = 1
      /\ \A i \in 1..N : records[i].type = "alert" =>
           i = N /\ i > 1 /\ records[i - 1].type = "data" /\ unsent = <<>>
      /\ unsent = <<>> => N > 0 /\ records[N].type # "ticket"
  BY DEF SentInShape
<1>3. PICK type, x : Record(type, x)
      /\ \/ type = "data" /\ unsent # <<>>
         \/ type = "ticket" /\ records = <<>> /\ unsent' = unsent
         \/ type = "alert" /\ unsent = <<>> /\ unsent' = unsent /\ records[N].type = "data"
  <2>1. CASE SendData
    <3>1. unsent # <<>> /\ \E k \in IF DataSent + 1 = MaxRecords THEN {Len(unsent)} ELSE 1..Len(unsent) :
                             Record("data", SubSeq(unsent, 1, k))
      BY <2>1 DEF SendData
    <3> QED
      BY <3>1
  <2>2. CASE SendOther
    BY <2>2 DEF SendOther
  <2> QED
    BY <2>1, <2>2
<1> DEFINE r == [seq |-> N, type |-> type, content |-> x]
<1>4. records' = Append(records, r) /\ r.type = type
  BY <1>3 DEF Record
<1> HIDE DEF r
<1>5. Len(records') = N + 1 /\ records'[N + 1] = r /\ \A i \in 1..N : records'[i] = records[i]
  BY <1>1, <1>4
<1>6. records = <<>> => N = 0
  OBVIOUS
<1> HIDE DEF N
<1>7. ASSUME NEW i \in 1..Len(records'), records'[i].type = "ticket" PROVE i = 1
  <2>1. CASE i \in 1..N
    BY <1>2, <1>5, <1>7, <2>1
  <2>2. CASE i = N + 1
    BY <1>3, <1>4, <1>5, <1>6, <1>7, <2>2
  <2> QED
    BY <1>1, <1>5, <2>1, <2>2
<1>8. ASSUME NEW i \in 1..Len(records'), records'[i].type = "alert"
      PROVE  i = Len(records') /\ i > 1 /\ records'[i - 1].type = "data" /\ unsent' = <<>>
  <2>1. ASSUME i \in 1..N PROVE FALSE
    <3>1. i = N /\ i > 1 /\ records[N].type = "alert" /\ unsent = <<>>
      BY <1>2, <1>5, <1>8, <2>1
    <3>2. records # <<>>
      BY <1>6, <3>1
    <3> QED
      BY <1>3, <3>1, <3>2
  <2>2. i = N + 1
    BY <1>1, <1>5, <2>1
  <2>3. type = "alert"
    BY <1>4, <1>5, <1>8, <2>2
  <2>4. unsent = <<>> /\ unsent' = unsent /\ records[N].type = "data"
    BY <1>3, <2>3
  <2>5. N > 0
    BY <1>2, <2>4
  <2>6. N \in 1..N /\ i - 1 = N /\ i > 1
    BY <1>1, <2>2, <2>5
  <2> QED
    BY <1>5, <2>2, <2>4, <2>6
<1>9. ASSUME unsent' = <<>> PROVE Len(records') > 0 /\ records'[Len(records')].type # "ticket"
  <2>1. type # "ticket"
    <3> SUFFICES ASSUME type = "ticket" PROVE FALSE
      OBVIOUS
    <3>1. records = <<>> /\ unsent = <<>>
      BY <1>3, <1>9
    <3>2. N > 0 /\ N = 0
      BY <1>2, <1>6, <3>1
    <3> QED
      BY <3>2
  <2> QED
    BY <1>1, <1>4, <1>5, <2>1
<1> QED
  BY <1>7, <1>8, <1>9 DEF SentInShape

\* The records the server has still to send decide nothing.
LEMMA AcceptSends ==
  ASSUME ResponseInv, AcceptInv, SendData \/ SendOther
  PROVE  AcceptInv'
<1>1. verdict = Waiting /\ UNCHANGED <<path, padded, answer, verdict>>
  BY DEF SendData, SendOther
<1>2. Waiting # Refused
  BY DEF Waiting, Refused
<1>3. SentInShape'
  BY ShapeSends DEF AcceptInv
<1>4. GivenInPlace'
  BY <1>1 DEF GivenInPlace
<1>5. WholeAnswerAccepted'
  BY <1>1, <1>2 DEF WholeAnswerAccepted
<1> QED
  BY <1>1, <1>3, <1>4, <1>5 DEF AcceptInv

\* What is handed over is in place if it is whole.
LEMMA AcceptHandsOver ==
  ASSUME ResponseInv, AcceptInv, HandOver
  PROVE  AcceptInv'
<1>1. verdict' = Running /\ UNCHANGED <<path, padded, answer, unsent, records>>
  BY DEF HandOver
<1>2. Running # Refused
  BY DEF Running, Refused
<1>3. SentInShape /\ SentInShape'
  BY <1>1 DEF AcceptInv, SentInShape
<1>4. GivenInPlace'
  <2>1. CASE Whole'
    BY <1>3, <2>1, HandsOverWhole
  <2>2. CASE ~Whole'
    BY <2>2 DEF GivenInPlace
  <2> QED
    BY <2>1, <2>2
<1>5. WholeAnswerAccepted'
  BY <1>1, <1>2 DEF WholeAnswerAccepted
<1> QED
  BY <1>1, <1>3, <1>4, <1>5 DEF AcceptInv

\* Once the records are handed over they stay.
LEMMA AcceptStays ==
  ASSUME AcceptInv, UNCHANGED <<path, padded, answer, unsent, records, capture>>,
         verdict # Waiting, WholeAnswerAccepted'
  PROVE  AcceptInv'
<1>1. SentInShape'
  BY DEF AcceptInv, SentInShape
<1>2. Whole' <=> Whole
  BY DEF Whole
<1>3. GivenInPlace'
  BY <1>2 DEF AcceptInv, GivenInPlace, Stream
<1> QED
  BY <1>1, <1>3 DEF AcceptInv

\* A record in its place authenticates.
LEMMA AcceptOpens ==
  ASSUME ResponseInv, AcceptInv, OpenNext
  PROVE  AcceptInv'
<1>1. /\ verdict = Running /\ opened < Len(capture)
      /\ UNCHANGED <<path, padded, answer, unsent, records, capture>>
      /\ (capture[opened + 1].seq = opened => verdict' = verdict)
  BY DEF OpenNext
<1>2. Running # Waiting /\ Running # Refused
  BY DEF Running, Waiting, Refused
<1>3. Whole' <=> Whole
  BY <1>1 DEF Whole
<1>4. ASSUME Whole PROVE verdict' # Refused
  <2>1. Len(capture) <= Len(records) /\ \A j \in 1..Len(capture) : capture[j] = records[j]
    BY <1>1, <1>2, <1>4 DEF AcceptInv, GivenInPlace
  <2>2. /\ capture \in Seq(TlsRecord) /\ opened \in 0..Len(capture)
        /\ \A i \in 1..Len(records) : records[i].seq = i - 1
    BY DEF ResponseInv, ResponseTypes, SentInOrder
  <2>3. Len(capture) \in Nat /\ Len(records) \in Nat
    BY <2>2, SentTypes
  <2>4. opened + 1 \in 1..Len(capture) /\ opened + 1 \in 1..Len(records) /\ (opened + 1) - 1 = opened
    BY <1>1, <2>1, <2>2, <2>3
  <2>5. capture[opened + 1].seq = opened
    BY <2>1, <2>2, <2>4
  <2> QED
    BY <1>1, <1>2, <2>5
<1>5. WholeAnswerAccepted'
  BY <1>3, <1>4 DEF WholeAnswerAccepted
<1> QED
  BY <1>1, <1>2, <1>5, AcceptStays

\* The text of a whole answer is the answer, and it is decoded.
LEMMA AcceptClaims ==
  ASSUME ResponseInv, AcceptInv, Claim, "self_prove" \notin PaddedPaths
  PROVE  AcceptInv'
<1> DEFINE body == Unchunked(RawBody(text))
<1>1. /\ verdict = Running /\ opened = Len(capture)
      /\ UNCHANGED <<path, padded, answer, unsent, records, capture>>
  BY DEF Claim
<1>2. verdict' = IF Utf8(text) /\ IsObject(body) /\ answer.above THEN Significant(body) ELSE Refused
  BY DEF Claim
<1>3. Running # Waiting
  BY DEF Running, Waiting
<1>4. Whole' <=> Whole
  BY <1>1 DEF Whole
<1>5. ASSUME Whole, answer.above, ~BlankInside, ~CharacterSplit PROVE verdict' # Refused
  <2>1. Joined(records)[Len(capture)] = Stream
    BY <1>1, <1>3, <1>5 DEF AcceptInv, GivenInPlace
  <2>2. ~(path = "self_prove" /\ padded)
    BY DEF AcceptInv
  <2>3. text = Stream
    BY <1>1, <2>1, <2>2 DEF ResponseInv, OpenedInOrder
  <2>4. Utf8(text) /\ IsObject(body)
    <3>1. Utf8(Stream) /\ IsObject(Unchunked(RawBody(Stream)))
      BY <1>5, WholeDecodes DEF AcceptInv
    <3> QED
      BY <2>3, <3>1
  <2> HIDE DEF body
  <2>5. verdict' = Significant(body)
    BY <1>2, <1>5, <2>4
  <2>6. Len(Significant(body)) >= 3
    BY <2>4 DEF IsObject
  <2>7. Len(Refused) = 1
    BY DEF Refused
  <2>8. ASSUME verdict' = Refused PROVE FALSE
    <3>1. Len(Significant(body)) = 1
      BY <2>5, <2>7, <2>8, Zenon
    <3> QED
      BY <2>6, <3>1
  <2> QED
    BY <2>8
<1>6. BlankInside' = BlankInside /\ CharacterSplit' = CharacterSplit /\ answer' = answer
  BY <1>1 DEF BlankInside, CharacterSplit
<1>7. WholeAnswerAccepted'
  BY <1>4, <1>5, <1>6 DEF WholeAnswerAccepted
<1> QED
  BY <1>1, <1>3, <1>7, AcceptStays

\* Unless the server pads on the self-proving path, which takes a padded record for none
\* (parse_captured, the last byte for the type): an answer that satisfies the claim and
\* whose data is all there is accepted by the guest (main), whatever the framing, whatever
\* the cut into records, with or without the alert; except where the body holds a blank
\* line or a chunk ends inside a character.
THEOREM WholeIsAccepted ==
  ASSUME "self_prove" \notin PaddedPaths
  PROVE  Spec => []WholeAnswerAccepted
<1>1. Init => AcceptInv
  <2> SUFFICES ASSUME Init PROVE AcceptInv
    OBVIOUS
  <2>1. /\ answer \in Answers /\ records = <<>> /\ verdict = Waiting
        /\ unsent = Crlf \o Crlf \o answer.raw
    BY DEF Init
  <2>2. padded => path \in PaddedPaths
    BY DEF Init
  <2>3. Waiting # Refused
    BY DEF Waiting, Refused
  <2>4. SentInShape
    <3>1. unsent # <<>>
      <4> DEFINE w == answer.raw
                 st == Cat(Cat(Crlf, Crlf), w)
      <4>1. w \in Bytes /\ unsent = st
        BY <2>1, AnswerTypes DEF Cat
      <4> HIDE DEF w
      <4>2. st \in Bytes /\ Len(st) = 4 + Len(w)
        BY <4>1, StreamHolds
      <4>3. Len(w) \in Nat
        BY <4>1 DEF Bytes
      <4> HIDE DEF st
      <4>4. Len(st) # 0
        BY <4>2, <4>3
      <4> QED
        BY <4>1, <4>4
    <3>2. Len(records) = 0
      BY <2>1
    <3> QED
      BY <3>1, <3>2 DEF SentInShape
  <2>5. GivenInPlace /\ WholeAnswerAccepted
    BY <2>1, <2>3 DEF GivenInPlace, WholeAnswerAccepted
  <2> QED
    BY <2>1, <2>2, <2>4, <2>5 DEF AcceptInv
<1>2. ResponseInv /\ AcceptInv /\ [Next]_vars => AcceptInv'
  <2> SUFFICES ASSUME ResponseInv, AcceptInv, [Next]_vars PROVE AcceptInv'
    OBVIOUS
  <2>1. CASE UNCHANGED vars
    <3>1. UNCHANGED <<path, padded, answer, unsent, records, capture, verdict>>
      BY <2>1 DEF vars
    <3> QED
      BY <3>1 DEF AcceptInv, SentInShape, GivenInPlace, WholeAnswerAccepted, Whole, Stream,
                  BlankInside, CharacterSplit
  <2> QED
    BY <2>1, AcceptSends, AcceptHandsOver, AcceptOpens, AcceptClaims DEF Next
<1>3. AcceptInv => WholeAnswerAccepted
  BY DEF AcceptInv
<1> QED
  BY <1>1, <1>2, <1>3, ResponseInductive, PTL DEF Spec

=============================================================================
