------------------------- MODULE SigningBytesProof -------------------------
(***************************************************************************)
(* The signing bytes of a NotaryBundle determine its content, for names    *)
(* and logs of any length that its length fields hold: nothing of one      *)
(* field can be read as another's.  (BundleWide shows a length that does   *)
(* not fit, and two contents with the same bytes.)                         *)
(***************************************************************************)
EXTENDS BundleSignature, SequenceTheorems, WellFoundedInduction, TLAPS

Bytes == Seq(Nat)
LogRecord == [op : Nat, seq : Nat, aad : Bytes, commit_hash : Nat]

\* A log whose additional data has lengths that can be written down.
FitsLog(l) == \A i \in DOMAIN l : Len(l[i].aad) < LenLimit

\* Concatenation under a name of its own, which the provers need not look into.
Cat(a, b) == a \o b

\* A set of numbers that is not empty has a least element; what the proofs below by
\* induction on a length rest on.
LEMMA LeastNumber ==
  ASSUME NEW T, T \subseteq Nat, T # {}
  PROVE  \E n \in T : \A m \in T : ~(m < n)
<1> DEFINE R == OpToRel(<, Nat)
<1>1. IsWellFoundedOn(R, Nat)
  BY NatLessThanWellFounded
<1>2. \E x \in T : \A y \in T : ~(<<y, x>> \in R)
  <2> HIDE DEF R
  <2> QED
    BY <1>1, WFMin
<1> QED
  BY <1>2 DEF OpToRel

-----------------------------------------------------------------------------
(* Taking bytes off the front.                                             *)

\* What concatenation does to strings of bytes.
LEMMA Joined ==
  ASSUME NEW a \in Bytes, NEW t \in Bytes
  PROVE  /\ Cat(a, t) \in Bytes /\ Len(a) \in Nat /\ Len(Cat(a, t)) = Len(a) + Len(t)
         /\ \A i \in 1..Len(a) : Cat(a, t)[i] = a[i]
         /\ \A i \in 1..Len(t) : Cat(a, t)[Len(a) + i] = t[i]
<1>1. /\ a \in Seq(Nat) /\ t \in Seq(Nat)
      /\ Len(a) \in Nat /\ Len(t) \in Nat
  BY LenProperties DEF Bytes
<1>2. /\ a \o t \in Seq(Nat) /\ Len(a \o t) = Len(a) + Len(t)
      /\ \A i \in 1..(Len(a) + Len(t)) : (a \o t)[i] = IF i <= Len(a) THEN a[i] ELSE t[i - Len(a)]
  BY <1>1, ConcatProperties
<1>3. ASSUME NEW i \in 1..Len(t) PROVE (a \o t)[Len(a) + i] = t[i]
  <2> DEFINE k == Len(a) + i
  <2>1. k \in 1..(Len(a) + Len(t)) /\ ~(k <= Len(a)) /\ k - Len(a) = i
    BY <1>1
  <2> HIDE DEF k
  <2>2. (a \o t)[k] = t[i]
    BY <1>2, <2>1
  <2> QED
    BY <2>2 DEF k
<1>4. ASSUME NEW i \in 1..Len(a) PROVE (a \o t)[i] = a[i]
  <2>1. i \in 1..(Len(a) + Len(t)) /\ i <= Len(a)
    BY <1>1
  <2> QED
    BY <1>2, <2>1
<1> QED
  BY <1>1, <1>2, <1>3, <1>4 DEF Bytes, Cat

\* In which order three strings are joined does not matter.
LEMMA JoinedThree ==
  ASSUME NEW a \in Bytes, NEW b \in Bytes, NEW c \in Bytes
  PROVE  Cat(Cat(a, b), c) = Cat(a, Cat(b, c))
  BY ConcatAssociative DEF Bytes, Cat

\* Two strings that begin with as many bytes begin and go on alike.
LEMMA PeelSameLength ==
  ASSUME NEW a \in Bytes, NEW b \in Bytes, NEW t \in Bytes, NEW u \in Bytes,
         Len(a) = Len(b), Cat(a, t) = Cat(b, u)
  PROVE  a = b /\ t = u
<1>1. Len(t) = Len(u)
  <2>1. /\ Len(Cat(a, t)) = Len(a) + Len(t) /\ Len(Cat(b, u)) = Len(b) + Len(u)
        /\ Len(a) \in Nat /\ Len(t) \in Nat /\ Len(u) \in Nat
    BY Joined
  <2> QED
    BY <2>1
<1>2. \A i \in 1..Len(a) : a[i] = b[i]
  <2> TAKE i \in 1..Len(a)
  <2>1. Cat(a, t)[i] = a[i]
    BY Joined
  <2>2. i \in 1..Len(b)
    OBVIOUS
  <2>3. Cat(b, u)[i] = b[i]
    BY <2>2, Joined
  <2> QED
    BY <2>1, <2>3
<1>3. \A i \in 1..Len(t) : t[i] = u[i]
  <2> TAKE i \in 1..Len(t)
  <2>1. Cat(a, t)[Len(a) + i] = t[i]
    BY Joined
  <2>2. i \in 1..Len(u)
    BY <1>1
  <2>3. Cat(b, u)[Len(b) + i] = u[i]
    BY <2>2, Joined
  <2> QED
    BY <2>1, <2>3
<1> QED
  BY <1>1, <1>2, <1>3, SeqEqual DEF Bytes

\* One byte alone, and two, are strings of bytes.
LEMMA FewBytes ==
  ASSUME NEW x \in Nat, NEW y \in Nat
  PROVE  /\ <<x>> \in Bytes /\ Len(<<x>>) = 1
         /\ <<x, y>> \in Bytes /\ Len(<<x, y>>) = 2
  BY DEF Bytes

\* A number below the limit of its field is written as it is ("as u16", "as u32"), and
\* any other as some number.
LEMMA Written ==
  ASSUME NEW n \in Nat, NEW limit \in Nat \ {0}
  PROVE  /\ n % limit \in Nat
         /\ n < limit => n % limit = n
<1>1. n % limit \in 0..(limit - 1)
  OBVIOUS
<1>2. ASSUME n < limit PROVE n % limit = n
  BY <1>2
<1> QED
  BY <1>1, <1>2

\* The bytes of a name with its length in front, before what follows.
LEMMA PrefixedInFront ==
  ASSUME NEW a \in Bytes, NEW t \in Bytes
  PROVE  /\ Prefixed(a) \in Bytes
         /\ Cat(Prefixed(a), t) = Cat(<<Len(a) % LenLimit>>, Cat(a, t))
<1>1. Len(a) % LenLimit \in Nat
  BY Joined, Written, BundleAssumption
<1>2. <<Len(a) % LenLimit>> \in Bytes
  BY <1>1, FewBytes
<1>3. Prefixed(a) = Cat(<<Len(a) % LenLimit>>, a)
  BY DEF Prefixed, Cat
<1> QED
  BY <1>2, <1>3, Joined, JoinedThree

\* A length in front that says how long the name is: where the name ends, and so what
\* it is, is known.
LEMMA PeelPrefixed ==
  ASSUME NEW a \in Bytes, NEW b \in Bytes, NEW t \in Bytes, NEW u \in Bytes,
         Len(a) < LenLimit, Len(b) < LenLimit,
         Cat(Prefixed(a), t) = Cat(Prefixed(b), u)
  PROVE  a = b /\ t = u
<1> DEFINE x == <<Len(a) % LenLimit>>
           y == <<Len(b) % LenLimit>>
<1>1. Len(a) \in Nat /\ Len(b) \in Nat /\ Cat(a, t) \in Bytes /\ Cat(b, u) \in Bytes
  BY Joined
<1>2. /\ x \in Bytes /\ y \in Bytes /\ Len(x) = Len(y)
      /\ x = y => Len(a) = Len(b)
  <2>1. Len(a) % LenLimit = Len(a) /\ Len(b) % LenLimit = Len(b)
    BY <1>1, Written, BundleAssumption
  <2> QED
    BY <1>1, <2>1, FewBytes
<1>3. Cat(x, Cat(a, t)) = Cat(y, Cat(b, u))
  BY PrefixedInFront
<1> HIDE DEF x, y
<1>4. x = y /\ Cat(a, t) = Cat(b, u)
  BY <1>1, <1>2, <1>3, PeelSameLength
<1> QED
  BY <1>2, <1>4, PeelSameLength

\* The bytes of a record, before what follows.
LEMMA RecordInFront ==
  ASSUME NEW r \in LogRecord, NEW t \in Bytes
  PROVE  /\ RecordBytes(r) \in Bytes
         /\ Cat(RecordBytes(r), t)
              = Cat(<<r.op, r.seq>>, Cat(Prefixed(r.aad), Cat(<<r.commit_hash>>, t)))
<1> DEFINE a == <<r.op, r.seq>>
           p == Prefixed(r.aad)
           c == <<r.commit_hash>>
<1>1. a \in Bytes /\ p \in Bytes /\ c \in Bytes
  BY FewBytes, PrefixedInFront DEF LogRecord
<1>2. RecordBytes(r) = Cat(Cat(a, p), c)
  BY DEF RecordBytes, Cat
<1> HIDE DEF a, p, c
<1>3. Cat(a, p) \in Bytes /\ Cat(c, t) \in Bytes
  BY <1>1, Joined
<1>4. Cat(Cat(Cat(a, p), c), t) = Cat(a, Cat(p, Cat(c, t)))
  BY <1>1, <1>3, JoinedThree
<1> QED
  BY <1>1, <1>2, <1>3, <1>4, Joined DEF a, p, c

\* Where a record of the log ends, and which record it is, is known.
LEMMA PeelRecord ==
  ASSUME NEW r \in LogRecord, NEW s \in LogRecord, NEW t \in Bytes, NEW u \in Bytes,
         Len(r.aad) < LenLimit, Len(s.aad) < LenLimit,
         Cat(RecordBytes(r), t) = Cat(RecordBytes(s), u)
  PROVE  r = s /\ t = u
<1> DEFINE a == <<r.op, r.seq>>
           b == <<s.op, s.seq>>
           c == <<r.commit_hash>>
           d == <<s.commit_hash>>
           x == Cat(Prefixed(r.aad), Cat(c, t))
           y == Cat(Prefixed(s.aad), Cat(d, u))
<1>1. /\ a \in Bytes /\ b \in Bytes /\ Len(a) = Len(b)
      /\ c \in Bytes /\ d \in Bytes /\ Len(c) = Len(d)
      /\ r.aad \in Bytes /\ s.aad \in Bytes
  BY FewBytes DEF LogRecord
<1>2. Cat(a, x) = Cat(b, y)
  BY RecordInFront
<1>3. a = b => r.op = s.op /\ r.seq = s.seq
  OBVIOUS
<1>4. c = d => r.commit_hash = s.commit_hash
  OBVIOUS
<1> HIDE DEF a, b, c, d
<1>5. Cat(c, t) \in Bytes /\ Cat(d, u) \in Bytes
  BY <1>1, Joined
<1>6. x \in Bytes /\ y \in Bytes
  BY <1>1, <1>5, Joined, PrefixedInFront
<1>7. a = b /\ x = y
  <2> HIDE DEF x, y
  <2> QED
    BY <1>1, <1>2, <1>6, PeelSameLength
<1>8. r.aad = s.aad /\ Cat(c, t) = Cat(d, u)
  BY <1>1, <1>5, <1>7, PeelPrefixed
<1>9. c = d /\ t = u
  BY <1>1, <1>8, PeelSameLength
<1> QED
  BY <1>3, <1>4, <1>7, <1>8, <1>9 DEF LogRecord

-----------------------------------------------------------------------------
(* The log: FlattenSeq joins the records one by one.                       *)

\* f lists what FlattenSeq has joined after each of the first n strings of s.
JoinsUpTo(f, s, n) == f = [i \in 1..n |-> IF i = 1 THEN s[i] ELSE f[i - 1] \o s[i]]

\* There is such a list, for any number of strings.
LEMMA JoinsExist ==
  ASSUME NEW s, NEW n \in Nat
  PROVE  \E f : JoinsUpTo(f, s, n)
<1> DEFINE T == {k \in Nat : ~ \E f : JoinsUpTo(f, s, k)}
<1> SUFFICES ASSUME T # {} PROVE FALSE
  OBVIOUS
<1>1. PICK k \in T : \A m \in T : ~(m < k)
  <2>1. T \subseteq Nat
    OBVIOUS
  <2> HIDE DEF T
  <2> QED
    BY <2>1, LeastNumber
<1>2. CASE k = 0
  <2>1. JoinsUpTo([i \in 1..0 |-> s[i]], s, 0)
    BY DEF JoinsUpTo
  <2> QED
    BY <1>2, <2>1
<1>3. CASE k # 0
  <2>1. k - 1 \in Nat /\ k - 1 \notin T
    BY <1>1, <1>3
  <2>2. PICK f : JoinsUpTo(f, s, k - 1)
    BY <2>1
  <2> DEFINE last == IF k = 1 THEN s[k] ELSE f[k - 1] \o s[k]
             g == [i \in 1..k |-> IF i = k THEN last ELSE f[i]]
  <2>3. \A i \in 1..k : g[i] = IF i = 1 THEN s[i] ELSE g[i - 1] \o s[i]
    <3> TAKE i \in 1..k
    <3>1. CASE i = k
      <4>1. k # 1 => k - 1 \in 1..k /\ k - 1 # k /\ g[k - 1] = f[k - 1]
        BY <2>1
      <4> QED
        BY <3>1, <4>1
    <3>2. CASE i # k
      <4>1. i \in 1..(k - 1) /\ g[i] = f[i]
        BY <3>2, <2>1
      <4>2. f[i] = IF i = 1 THEN s[i] ELSE f[i - 1] \o s[i]
        BY <4>1, <2>2 DEF JoinsUpTo
      <4>3. i # 1 => g[i - 1] = f[i - 1]
        BY <4>1, <2>1
      <4> QED
        BY <4>1, <4>2, <4>3
    <3> QED
      BY <3>1, <3>2
  <2>4. JoinsUpTo(g, s, k)
    BY <2>3 DEF JoinsUpTo
  <2> QED
    BY <2>4, <1>1
<1> QED
  BY <1>1, <1>2, <1>3

\* FlattenSeq is the last of the list.
LEMMA FlattenIsLast ==
  ASSUME NEW s, Len(s) \in Nat, Len(s) # 0
  PROVE  \E f : JoinsUpTo(f, s, Len(s)) /\ FlattenSeq(s) = f[Len(s)]
<1> DEFINE h == CHOOSE f : f = [i \in 1..Len(s) |-> IF i = 1 THEN s[i] ELSE f[i - 1] \o s[i]]
<1>1. \E f : f = [i \in 1..Len(s) |-> IF i = 1 THEN s[i] ELSE f[i - 1] \o s[i]]
  BY JoinsExist DEF JoinsUpTo
<1>2. h = [i \in 1..Len(s) |-> IF i = 1 THEN s[i] ELSE h[i - 1] \o s[i]]
  BY <1>1
<1>3. FlattenSeq(s) = h[Len(s)]
  BY DEF FlattenSeq
<1> QED
  BY <1>2, <1>3 DEF JoinsUpTo

\* The bytes of a log, as they stand in the signing bytes.
LogBytes(l) == FlattenSeq([i \in DOMAIN l |-> RecordBytes(l[i])])

\* f lists the bytes of the first, the first two, ... records of l.
Grows(f, l) == \A i \in 1..Len(l) :
  /\ f[i] \in Bytes
  /\ i = 1 => f[i] = RecordBytes(l[i])
  /\ i # 1 => f[i] = Cat(f[i - 1], RecordBytes(l[i]))

\* The bytes of a log that is not empty grow record by record.
LEMMA LogGrows ==
  ASSUME NEW l \in Seq(LogRecord), l # <<>>
  PROVE  \E f : Grows(f, l) /\ LogBytes(l) = f[Len(l)]
<1> DEFINE e == [i \in DOMAIN l |-> RecordBytes(l[i])]
<1>1. /\ Len(l) \in Nat /\ Len(l) # 0 /\ DOMAIN l = 1..Len(l)
      /\ \A i \in 1..Len(l) : l[i] \in LogRecord
  OBVIOUS
<1>2. Len(e) = Len(l) /\ \A i \in 1..Len(l) : e[i] = RecordBytes(l[i])
  BY <1>1
<1>3. LogBytes(l) = FlattenSeq(e)
  BY DEF LogBytes
<1> HIDE DEF e
<1>4. PICK f : JoinsUpTo(f, e, Len(l)) /\ FlattenSeq(e) = f[Len(l)]
  <2>1. \E f : JoinsUpTo(f, e, Len(e)) /\ FlattenSeq(e) = f[Len(e)]
    BY <1>1, <1>2, FlattenIsLast
  <2> QED
    BY <1>2, <2>1
<1>5. \A i \in 1..Len(l) : (i = 1 => f[i] = RecordBytes(l[i]))
                            /\ (i # 1 => f[i] = Cat(f[i - 1], RecordBytes(l[i])))
  BY <1>2, <1>4 DEF JoinsUpTo, Cat
<1>6. \A i \in 1..Len(l) : f[i] \in Bytes
  <2> DEFINE T == {i \in 1..Len(l) : f[i] \notin Bytes}
  <2> SUFFICES ASSUME T # {} PROVE FALSE
    OBVIOUS
  <2>1. PICK k \in T : \A m \in T : ~(m < k)
    <3>1. T \subseteq Nat
      OBVIOUS
    <3> HIDE DEF T
    <3> QED
      BY <3>1, LeastNumber
  <2>2. RecordBytes(l[k]) \in Bytes
    <3>1. l[k] \in LogRecord /\ <<>> \in Bytes
      BY <1>1 DEF Bytes
    <3> QED
      BY <3>1, RecordInFront
  <2>3. CASE k = 1
    <3>1. k \in 1..Len(l) /\ f[k] \notin Bytes
      BY <2>1
    <3>2. f[k] = RecordBytes(l[k])
      BY <1>5, <2>3, <3>1
    <3> QED
      BY <2>2, <3>1, <3>2
  <2>4. CASE k # 1
    <3>1. k - 1 \in 1..Len(l) /\ k - 1 < k
      BY <1>1, <2>4
    <3>2. f[k - 1] \in Bytes
      BY <2>1, <3>1
    <3>3. Cat(f[k - 1], RecordBytes(l[k])) \in Bytes
      BY <2>2, <3>2, Joined
    <3> QED
      BY <1>5, <2>4, <3>3
  <2> QED
    BY <2>3, <2>4
<1>7. Grows(f, l)
  BY <1>5, <1>6 DEF Grows
<1>8. LogBytes(l) = f[Len(l)]
  BY <1>3, <1>4
<1> QED
  BY <1>7, <1>8

\* Of two logs of the same length with the same bytes, with whatever follows them,
\* every record is the same.
LEMMA PeelLog ==
  ASSUME NEW l \in Seq(LogRecord), NEW m \in Seq(LogRecord), Len(l) = Len(m),
         FitsLog(l), FitsLog(m),
         NEW t \in Bytes, NEW u \in Bytes, Cat(LogBytes(l), t) = Cat(LogBytes(m), u)
  PROVE  l = m /\ t = u
<1>1. CASE l = <<>>
  <2>1. m = <<>> /\ l = m
    BY <1>1
  <2>2. LogBytes(l) = <<>> /\ LogBytes(m) = <<>>
    BY <1>1, <2>1 DEF LogBytes, FlattenSeq
  <2>3. <<>> \in Bytes
    BY DEF Bytes
  <2> QED
    BY <2>1, <2>2, <2>3, PeelSameLength
<1>2. CASE l # <<>>
  <2>1. m # <<>> /\ Len(l) \in Nat /\ Len(l) # 0
    BY <1>2
  <2>2. PICK f : Grows(f, l) /\ LogBytes(l) = f[Len(l)]
    BY <1>2, LogGrows
  <2>3. PICK g : Grows(g, m) /\ LogBytes(m) = g[Len(m)]
    BY <2>1, LogGrows
  <2> DEFINE Same(n) == \A i \in 1..n : l[i] = m[i]
             Bad(n, x, y) == Cat(f[n], x) = Cat(g[n], y) /\ ~(x = y /\ Same(n))
             T == {n \in 1..Len(l) : \E x, y \in Bytes : Bad(n, x, y)}
  <2>4. T = {}
    <3> SUFFICES ASSUME T # {} PROVE FALSE
      OBVIOUS
    <3>1. PICK k \in T : \A n \in T : ~(n < k)
      <4>1. T \subseteq Nat
        OBVIOUS
      <4> HIDE DEF T
      <4> QED
        BY <4>1, LeastNumber
    <3>2. k \in 1..Len(l) /\ k \in 1..Len(m)
      BY <3>1
    <3>3. PICK x \in Bytes, y \in Bytes : Bad(k, x, y)
      BY <3>1
    <3>4. /\ l[k] \in LogRecord /\ m[k] \in LogRecord
          /\ Len(l[k].aad) < LenLimit /\ Len(m[k].aad) < LenLimit
      BY <3>2, ElementOfSeq DEF FitsLog
    <3>5. CASE k = 1
      <4>1. Cat(RecordBytes(l[k]), x) = Cat(RecordBytes(m[k]), y)
        BY <2>2, <2>3, <3>2, <3>3, <3>5 DEF Grows
      <4>2. x = y /\ l[k] = m[k]
        BY <3>4, <4>1, PeelRecord
      <4>3. Same(k)
        BY <3>5, <4>2
      <4> QED
        BY <3>3, <4>2, <4>3
    <3>6. CASE k # 1
      <4> DEFINE j == k - 1
      <4>1. j \in 1..Len(l) /\ j \in 1..Len(m) /\ j < k
        BY <3>2, <3>6
      <4>2. /\ f[j] \in Bytes /\ f[k] = Cat(f[j], RecordBytes(l[k]))
            /\ g[j] \in Bytes /\ g[k] = Cat(g[j], RecordBytes(m[k]))
        BY <2>2, <2>3, <3>2, <3>6, <4>1 DEF Grows
      <4>3. /\ RecordBytes(l[k]) \in Bytes /\ Cat(RecordBytes(l[k]), x) \in Bytes
            /\ RecordBytes(m[k]) \in Bytes /\ Cat(RecordBytes(m[k]), y) \in Bytes
        BY <3>4, RecordInFront, Joined
      <4>4. Cat(f[j], Cat(RecordBytes(l[k]), x)) = Cat(g[j], Cat(RecordBytes(m[k]), y))
        <5>1. Cat(f[k], x) = Cat(g[k], y)
          BY <3>3
        <5> QED
          BY <5>1, <4>2, <4>3, JoinedThree
      <4>5. j \notin T
        BY <3>1, <4>1
      <4>6. Cat(RecordBytes(l[k]), x) = Cat(RecordBytes(m[k]), y) /\ Same(j)
        BY <4>1, <4>3, <4>4, <4>5
      <4>7. x = y /\ l[k] = m[k]
        BY <3>4, <4>6, PeelRecord
      <4>8. Same(k)
        BY <3>2, <4>6, <4>7
      <4> QED
        BY <3>3, <4>7, <4>8
    <3> QED
      BY <3>5, <3>6
  <2>5. Len(l) \notin T /\ Len(l) \in 1..Len(l)
    BY <2>1, <2>4
  <2>6. ~Bad(Len(l), t, u)
    BY <2>5
  <2>7. t = u /\ Same(Len(l))
    BY <2>2, <2>3, <2>6
  <2> QED
    BY <2>7, SeqEqual
<1> QED
  BY <1>1, <1>2

\* The bytes of a log are bytes.
LEMMA LogIsBytes ==
  ASSUME NEW l \in Seq(LogRecord)
  PROVE  LogBytes(l) \in Bytes
<1>1. CASE l = <<>>
  BY <1>1 DEF LogBytes, FlattenSeq, Bytes
<1>2. CASE l # <<>>
  <2>1. PICK f : Grows(f, l) /\ LogBytes(l) = f[Len(l)]
    BY <1>2, LogGrows
  <2>2. Len(l) \in 1..Len(l)
    BY <1>2
  <2> QED
    BY <2>1, <2>2 DEF Grows
<1> QED
  BY <1>1, <1>2

-----------------------------------------------------------------------------
(* The bytes of a whole bundle.                                            *)

\* What a bundle holds, field by field.
LEMMA ContentFields ==
  ASSUME NEW b \in Content
  PROVE  /\ b.version \in {LEGACY, BINDING} /\ b.version \in Nat /\ b.notary_pubkey \in Nat
         /\ b.session_id \in Bytes /\ b.server_name \in Bytes
         /\ b.records \in Seq(LogRecord)
         /\ b.binding \in Binding
<1>1. /\ b.version \in {LEGACY, BINDING} /\ b.notary_pubkey \in PubKeys /\ b.records \in Logs
      /\ b.session_id \in Names /\ b.server_name \in Names /\ b.binding \in Binding
  BY DEF Content
<1>2. b.version \in Nat
  BY <1>1 DEF LEGACY, BINDING
<1>3. /\ PubKeys \subseteq Nat /\ \A n \in Names : n \in Bytes
      /\ \A l \in Logs : l \in Seq(LogRecord)
  BY BundleAssumption DEF Bytes, LogRecord
<1> QED
  BY <1>1, <1>2, <1>3

\* The fields of a v0 bundle, one behind the other, before what follows (t): from the
\* log on, from its length on, from the server name on, from the session id on, all.
FromLog(b, t) == Cat(LogBytes(b.records), Cat(Keys, t))
FromCount(b, t) == Cat(<<Len(b.records) % CountLimit>>, FromLog(b, t))
FromServerName(b, t) == Cat(Prefixed(b.server_name), FromCount(b, t))
FromSessionId(b, t) == Cat(Prefixed(b.session_id), FromServerName(b, t))
LegacyFields(b, t) == Cat(<<b.notary_pubkey, Time>>, FromSessionId(b, t))

\* Each of the six parts is a string of bytes.
LEMMA LegacyParts ==
  ASSUME NEW b \in Content
  PROVE  /\ <<b.notary_pubkey, Time>> \in Bytes /\ Len(<<b.notary_pubkey, Time>>) = 2
         /\ Prefixed(b.session_id) \in Bytes /\ Prefixed(b.server_name) \in Bytes
         /\ <<Len(b.records) % CountLimit>> \in Bytes /\ Len(<<Len(b.records) % CountLimit>>) = 1
         /\ LogBytes(b.records) \in Bytes /\ Keys \in Bytes
<1>1. Keys \in Bytes
  BY DEF Keys, Bytes
<1>2. /\ b.notary_pubkey \in Nat /\ Time \in Nat /\ Len(b.records) % CountLimit \in Nat
      /\ <<>> \in Bytes
  <2>1. Len(b.records) \in Nat
    BY ContentFields
  <2>2. Len(b.records) % CountLimit \in Nat
    BY <2>1, Written, BundleAssumption
  <2> QED
    BY <2>2, ContentFields DEF Time, Bytes
<1>3. Prefixed(b.session_id) \in Bytes /\ Prefixed(b.server_name) \in Bytes
  BY <1>2, ContentFields, PrefixedInFront
<1>4. LogBytes(b.records) \in Bytes
  BY ContentFields, LogIsBytes
<1> QED
  BY <1>1, <1>2, <1>3, <1>4, FewBytes

\* legacy_signing_bytes_pre_binding writes those fields.
LEMMA LegacyInFront ==
  ASSUME NEW b \in Content, NEW t \in Bytes
  PROVE  LegacyBytes(b) \in Bytes /\ Cat(LegacyBytes(b), t) = LegacyFields(b, t)
<1> DEFINE h == <<b.notary_pubkey, Time>>
           p == Prefixed(b.session_id)
           q == Prefixed(b.server_name)
           n == <<Len(b.records) % CountLimit>>
           r == LogBytes(b.records)
<1>1. h \in Bytes /\ p \in Bytes /\ q \in Bytes /\ n \in Bytes /\ r \in Bytes /\ Keys \in Bytes
  BY LegacyParts
<1>2. LegacyBytes(b) = Cat(Cat(Cat(Cat(Cat(h, p), q), n), r), Keys)
  BY DEF LegacyBytes, LogBytes, Cat
<1>3. LegacyFields(b, t) = Cat(h, Cat(p, Cat(q, Cat(n, Cat(r, Cat(Keys, t))))))
  BY DEF LegacyFields, FromSessionId, FromServerName, FromCount, FromLog
<1> HIDE DEF h, p, q, n, r
<1>4. Cat(Keys, t) \in Bytes
  BY <1>1, Joined
<1>5. Cat(r, Cat(Keys, t)) \in Bytes
  BY <1>1, <1>4, Joined
<1>6. Cat(n, Cat(r, Cat(Keys, t))) \in Bytes
  BY <1>1, <1>5, Joined
<1>7. Cat(q, Cat(n, Cat(r, Cat(Keys, t)))) \in Bytes
  BY <1>1, <1>6, Joined
<1>8. Cat(h, p) \in Bytes
  BY <1>1, Joined
<1>9. Cat(Cat(h, p), q) \in Bytes
  BY <1>1, <1>8, Joined
<1>10. Cat(Cat(Cat(h, p), q), n) \in Bytes
  BY <1>1, <1>9, Joined
<1>11. Cat(Cat(Cat(Cat(h, p), q), n), r) \in Bytes
  BY <1>1, <1>10, Joined
<1>12. Cat(Cat(Cat(Cat(Cat(Cat(h, p), q), n), r), Keys), t)
         = Cat(Cat(Cat(Cat(Cat(h, p), q), n), r), Cat(Keys, t))
  BY <1>1, <1>11, JoinedThree
<1>13. @ = Cat(Cat(Cat(Cat(h, p), q), n), Cat(r, Cat(Keys, t)))
  BY <1>1, <1>4, <1>10, JoinedThree
<1>14. @ = Cat(Cat(Cat(h, p), q), Cat(n, Cat(r, Cat(Keys, t))))
  BY <1>1, <1>5, <1>9, JoinedThree
<1>15. @ = Cat(Cat(h, p), Cat(q, Cat(n, Cat(r, Cat(Keys, t)))))
  BY <1>1, <1>6, <1>8, JoinedThree
<1>16. @ = Cat(h, Cat(p, Cat(q, Cat(n, Cat(r, Cat(Keys, t))))))
  BY <1>1, <1>7, JoinedThree
<1> QED
  BY <1>1, <1>2, <1>3, <1>11, <1>12, <1>13, <1>14, <1>15, <1>16, Joined

\* Each of the remainders is a string of bytes.
LEMMA LegacyRests ==
  ASSUME NEW b \in Content, NEW t \in Bytes
  PROVE  /\ Cat(Keys, t) \in Bytes /\ FromLog(b, t) \in Bytes /\ FromCount(b, t) \in Bytes
         /\ FromServerName(b, t) \in Bytes /\ FromSessionId(b, t) \in Bytes
<1>1. /\ Prefixed(b.session_id) \in Bytes /\ Prefixed(b.server_name) \in Bytes
      /\ <<Len(b.records) % CountLimit>> \in Bytes /\ LogBytes(b.records) \in Bytes /\ Keys \in Bytes
  BY LegacyParts
<1>2. Cat(Keys, t) \in Bytes
  BY <1>1, Joined
<1>3. FromLog(b, t) \in Bytes
  BY <1>1, <1>2, Joined DEF FromLog
<1>4. FromCount(b, t) \in Bytes
  BY <1>1, <1>3, Joined DEF FromCount
<1>5. FromServerName(b, t) \in Bytes
  BY <1>1, <1>4, Joined DEF FromServerName
<1> QED
  BY <1>1, <1>2, <1>3, <1>4, <1>5, Joined DEF FromSessionId

\* The same v0 bytes, with whatever follows them, are those of the same fields.
LEMMA PeelLegacy ==
  ASSUME NEW b \in Content, NEW c \in Content, NEW t \in Bytes, NEW u \in Bytes,
         Fits(b), Fits(c), Cat(LegacyBytes(b), t) = Cat(LegacyBytes(c), u)
  PROVE  /\ b.notary_pubkey = c.notary_pubkey /\ b.session_id = c.session_id
         /\ b.server_name = c.server_name /\ b.records = c.records /\ t = u
<1> DEFINE h == <<b.notary_pubkey, Time>>
           k == <<c.notary_pubkey, Time>>
           n == <<Len(b.records) % CountLimit>>
           m == <<Len(c.records) % CountLimit>>
<1>1. Cat(h, FromSessionId(b, t)) = Cat(k, FromSessionId(c, u))
  BY LegacyInFront DEF LegacyFields
<1>2. /\ h = k => b.notary_pubkey = c.notary_pubkey
      /\ n = m => Len(b.records) = Len(c.records)
  <2>1. Len(b.records) \in Nat /\ Len(c.records) \in Nat
    BY ContentFields
  <2>2. Len(b.records) % CountLimit = Len(b.records) /\ Len(c.records) % CountLimit = Len(c.records)
    BY <2>1, Written, BundleAssumption DEF Fits
  <2> QED
    BY <2>2
<1>3. /\ h \in Bytes /\ k \in Bytes /\ Len(h) = 2 /\ Len(k) = 2
      /\ n \in Bytes /\ m \in Bytes /\ Len(n) = 1 /\ Len(m) = 1
  BY LegacyParts
<1> HIDE DEF h, k, n, m
<1>4. h = k /\ FromSessionId(b, t) = FromSessionId(c, u)
  <2>1. FromSessionId(b, t) \in Bytes /\ FromSessionId(c, u) \in Bytes
    BY LegacyRests
  <2> QED
    BY <1>1, <1>3, <2>1, PeelSameLength
<1>5. b.session_id = c.session_id /\ FromServerName(b, t) = FromServerName(c, u)
  <2>1. FromServerName(b, t) \in Bytes /\ FromServerName(c, u) \in Bytes
    BY LegacyRests
  <2>2. /\ b.session_id \in Bytes /\ c.session_id \in Bytes
        /\ Len(b.session_id) < LenLimit /\ Len(c.session_id) < LenLimit
    BY ContentFields DEF Fits
  <2> QED
    BY <1>4, <2>1, <2>2, PeelPrefixed DEF FromSessionId
<1>6. b.server_name = c.server_name /\ FromCount(b, t) = FromCount(c, u)
  <2>1. FromCount(b, t) \in Bytes /\ FromCount(c, u) \in Bytes
    BY LegacyRests
  <2>2. /\ b.server_name \in Bytes /\ c.server_name \in Bytes
        /\ Len(b.server_name) < LenLimit /\ Len(c.server_name) < LenLimit
    BY ContentFields DEF Fits
  <2> QED
    BY <1>5, <2>1, <2>2, PeelPrefixed DEF FromServerName
<1>7. n = m /\ FromLog(b, t) = FromLog(c, u)
  <2>1. FromLog(b, t) \in Bytes /\ FromLog(c, u) \in Bytes
    BY LegacyRests
  <2>2. Cat(n, FromLog(b, t)) = Cat(m, FromLog(c, u))
    BY <1>6 DEF FromCount, n, m
  <2> QED
    BY <1>3, <2>1, <2>2, PeelSameLength
<1>8. b.records = c.records /\ Cat(Keys, t) = Cat(Keys, u)
  <2>1. Cat(Keys, t) \in Bytes /\ Cat(Keys, u) \in Bytes
    BY LegacyRests
  <2>2. /\ b.records \in Seq(LogRecord) /\ c.records \in Seq(LogRecord)
        /\ FitsLog(b.records) /\ FitsLog(c.records)
    BY ContentFields DEF Fits, FitsLog
  <2> QED
    BY <1>2, <1>7, <2>1, <2>2, PeelLog DEF FromLog
<1>9. t = u
  BY <1>8, LegacyParts, PeelSameLength
<1> QED
  BY <1>2, <1>4, <1>5, <1>6, <1>8, <1>9

\* Two bundles with the same canonical_signing_bytes have the same content, if they
\* have a binding.
LEMMA PeelCanonical ==
  ASSUME NEW b \in Content, NEW c \in Content, b.version = BINDING,
         Fits(b), Fits(c), CanonicalBytes(b) = CanonicalBytes(c)
  PROVE  b = c
<1> DEFINE v(x) == <<x.version>>
           tail(x) == IF x.version >= BINDING THEN <<x.binding.epk, x.binding.transcript>> ELSE <<>>
<1>1. ASSUME NEW x \in Content
      PROVE  /\ v(x) \in Bytes /\ Len(v(x)) = 1 /\ tail(x) \in Bytes
             /\ LegacyBytes(x) \in Bytes /\ Cat(LegacyBytes(x), tail(x)) \in Bytes
             /\ CanonicalBytes(x) = Cat(v(x), Cat(LegacyBytes(x), tail(x)))
  <2>1. v(x) \in Bytes /\ Len(v(x)) = 1
    BY ContentFields, FewBytes
  <2>2. /\ x.binding.epk \in Nat /\ x.binding.transcript \in Nat
        /\ <<>> \in Bytes
    BY ContentFields DEF Binding, Bytes
  <2>3. tail(x) \in Bytes
    BY <2>2, FewBytes
  <2>4. CanonicalBytes(x) = Cat(Cat(v(x), LegacyBytes(x)), tail(x))
    BY DEF CanonicalBytes, Cat
  <2> HIDE DEF v, tail
  <2>5. LegacyBytes(x) \in Bytes
    BY <2>2, LegacyInFront
  <2>6. Cat(LegacyBytes(x), tail(x)) \in Bytes
    BY <2>3, <2>5, Joined
  <2> QED
    BY <2>1, <2>3, <2>4, <2>5, <2>6, JoinedThree
<1>2. v(b) = v(c) => b.version = c.version
  OBVIOUS
<1>3. b.version = c.version /\ tail(b) = tail(c) =>
        b.binding.epk = c.binding.epk /\ b.binding.transcript = c.binding.transcript
  BY DEF BINDING
<1> HIDE DEF v, tail
<1>4. v(b) = v(c) /\ Cat(LegacyBytes(b), tail(b)) = Cat(LegacyBytes(c), tail(c))
  BY <1>1, PeelSameLength
<1>5. /\ b.notary_pubkey = c.notary_pubkey /\ b.session_id = c.session_id
      /\ b.server_name = c.server_name /\ b.records = c.records /\ tail(b) = tail(c)
  BY <1>1, <1>4, PeelLegacy
<1>6. b.binding = c.binding
  BY <1>2, <1>3, <1>4, <1>5, ContentFields DEF Binding
<1> QED
  BY <1>2, <1>4, <1>5, <1>6 DEF Content

\* The v0 bytes begin with the key and the time.
LEMMA LegacyBegins ==
  ASSUME NEW b \in Content
  PROVE  /\ LegacyBytes(b) \in Bytes /\ 1 \in 1..Len(LegacyBytes(b)) /\ 2 \in 1..Len(LegacyBytes(b))
         /\ LegacyBytes(b)[1] = b.notary_pubkey /\ LegacyBytes(b)[2] = Time
<1> DEFINE e == <<>>
           h == <<b.notary_pubkey, Time>>
           r == FromSessionId(b, e)
<1>1. e \in Bytes /\ Len(e) = 0
  BY DEF Bytes
<1>2. h[1] = b.notary_pubkey /\ h[2] = Time
  OBVIOUS
<1>3. h \in Bytes /\ Len(h) = 2
  BY LegacyParts
<1> HIDE DEF e, h
<1>4. r \in Bytes /\ LegacyBytes(b) \in Bytes /\ Cat(LegacyBytes(b), e) = Cat(h, r)
  BY <1>1, LegacyInFront, LegacyRests DEF LegacyFields, h
<1> HIDE DEF r
<1>5. /\ Len(Cat(h, r)) = Len(h) + Len(r) /\ Len(r) \in Nat
      /\ \A i \in 1..Len(h) : Cat(h, r)[i] = h[i]
  BY <1>3, <1>4, Joined
<1>6. /\ Len(Cat(LegacyBytes(b), e)) = Len(LegacyBytes(b)) + Len(e)
      /\ Len(LegacyBytes(b)) \in Nat
      /\ \A i \in 1..Len(LegacyBytes(b)) : Cat(LegacyBytes(b), e)[i] = LegacyBytes(b)[i]
  BY <1>1, <1>4, Joined
<1>7. Len(LegacyBytes(b)) = 2 + Len(r)
  BY <1>1, <1>3, <1>4, <1>5, <1>6
<1>8. 1 \in 1..Len(LegacyBytes(b)) /\ 2 \in 1..Len(LegacyBytes(b))
  BY <1>5, <1>6, <1>7
<1>9. 1 \in 1..Len(h) /\ 2 \in 1..Len(h)
  BY <1>3
<1>10. LegacyBytes(b)[1] = h[1] /\ LegacyBytes(b)[2] = h[2]
  BY <1>4, <1>5, <1>6, <1>8, <1>9
<1> QED
  BY <1>2, <1>4, <1>8, <1>10

\* The v0 bytes of a bundle are never those sign_with_version signs under the same
\* key: the second byte would have to be the key and the time, and the first the key
\* and a version.
LEMMA LegacyNotCanonical ==
  ASSUME NEW b \in Content, NEW c \in Content, b.notary_pubkey = c.notary_pubkey
  PROVE  LegacyBytes(b) # CanonicalBytes(c)
<1> SUFFICES ASSUME LegacyBytes(b) = CanonicalBytes(c) PROVE FALSE
  OBVIOUS
<1> DEFINE tail == IF c.version >= BINDING THEN <<c.binding.epk, c.binding.transcript>> ELSE <<>>
<1>1. <<>> \in Bytes /\ c.binding.epk \in Nat /\ c.binding.transcript \in Nat
  BY ContentFields DEF Binding, Bytes
<1>2. tail \in Bytes
  BY <1>1, FewBytes
<1>3. CanonicalBytes(c) = Cat(Cat(<<c.version>>, LegacyBytes(c)), tail)
  BY DEF CanonicalBytes, Cat
<1> DEFINE v == <<c.version>>
           x == Cat(v, LegacyBytes(c))
<1>4. v \in Bytes /\ Len(v) = 1 /\ v[1] = c.version /\ 1 \in 1..Len(v)
  <2>1. v \in Bytes /\ Len(v) = 1
    BY ContentFields, FewBytes
  <2> QED
    BY <2>1
<1> HIDE DEF tail, v
<1>5. LegacyBytes(c) \in Bytes /\ 1 \in 1..Len(LegacyBytes(c)) /\ LegacyBytes(c)[1] = c.notary_pubkey
  BY LegacyBegins
<1>6. /\ x \in Bytes /\ Len(x) = Len(v) + Len(LegacyBytes(c)) /\ Len(LegacyBytes(c)) \in Nat
      /\ x[1] = c.version /\ x[Len(v) + 1] = c.notary_pubkey
  BY <1>4, <1>5, Joined
<1>7. 1 \in 1..Len(x) /\ 2 \in 1..Len(x) /\ x[2] = c.notary_pubkey
  BY <1>4, <1>5, <1>6
<1>8. CanonicalBytes(c) = Cat(x, tail)
  BY <1>3 DEF v
<1> HIDE DEF x
<1>9. CanonicalBytes(c)[1] = c.version /\ CanonicalBytes(c)[2] = c.notary_pubkey
  <2>1. \A i \in 1..Len(x) : Cat(x, tail)[i] = x[i]
    BY <1>2, <1>6, Joined
  <2> QED
    BY <2>1, <1>6, <1>7, <1>8
<1>10. b.notary_pubkey = c.version /\ Time = c.notary_pubkey
  BY <1>9, LegacyBegins
<1> QED
  BY <1>10, ContentFields DEF Time, LEGACY, BINDING

\* What sign_with_version signed verifies under one bundle alone, the one it was made
\* of: a signature cannot be carried over to other names, another log, another binding
\* or another version, of any lengths that the length fields hold.
THEOREM SignatureTellsContent ==
  ASSUME NEW b \in Content, NEW c \in Content, Fits(b), Fits(c),
         Verifies(b, Signature(c.notary_pubkey, CanonicalBytes(c)))
  PROVE  b = c
<1>1. /\ b.notary_pubkey = c.notary_pubkey
      /\ CanonicalBytes(c) = IF b.version >= BINDING THEN CanonicalBytes(b) ELSE LegacyBytes(b)
  BY DEF Verifies, VerifiedBytes, Signature
<1>2. CASE b.version = BINDING
  <2>1. CanonicalBytes(b) = CanonicalBytes(c)
    BY <1>1, <1>2 DEF BINDING
  <2> QED
    BY <1>2, <2>1, PeelCanonical
<1>3. CASE b.version = LEGACY
  <2>1. CanonicalBytes(c) = LegacyBytes(b)
    BY <1>1, <1>3 DEF BINDING, LEGACY
  <2> QED
    BY <1>1, <2>1, LegacyNotCanonical
<1> QED
  BY <1>2, <1>3, ContentFields

=============================================================================
