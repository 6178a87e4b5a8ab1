----------------------- MODULE NotarizedWitnessProof -----------------------
(***************************************************************************)
(* Theorems about NotarizedWitness for every number of tickets and of      *)
(* response records, and every point at which the drain may stop.          *)
(***************************************************************************)
EXTENDS NotarizedWitness, SequenceTheorems, WellFoundedInduction, TLAPS

\* Induction over the numbers, for a set of them.
LEMMA CountUp ==
  ASSUME NEW T, 0 \in T, \A n \in Nat : n \in T => n + 1 \in T
  PROVE  \A n \in Nat : n \in T
<1> DEFINE R == OpToRel(<, Nat)
           F == Nat \ T
<1> SUFFICES ASSUME F # {} PROVE FALSE
  OBVIOUS
<1>1. IsWellFoundedOn(R, Nat)
  BY NatLessThanWellFounded
<1>2. \E x \in F : \A y \in F : ~(<<y, x>> \in R)
  <2>1. F \subseteq Nat
    OBVIOUS
  <2> HIDE DEF R, F
  <2> QED
    BY <1>1, <2>1, WFMin
<1>3. PICK x \in F : \A y \in F : ~(y < x)
  BY <1>2 DEF OpToRel
<1>4. x - 1 \in Nat /\ x - 1 \notin F
  BY <1>3
<1> QED
  BY <1>4

-----------------------------------------------------------------------------
(* Kept: the records of one kind among the first i.                        *)

\* f lists what is kept of the first records, up to n of them.
KeepsUpTo(f, s, k, n) == f = [i \in 0..n |->
  IF i = 0 THEN <<>> ELSE IF s[i].kind = k THEN Append(f[i - 1], s[i]) ELSE f[i - 1]]

\* The recursive definition defines something, for any stream.
LEMMA KeptExists ==
  ASSUME NEW s, NEW k, NEW n \in Nat
  PROVE  \E f : KeepsUpTo(f, s, k, n)
<1> DEFINE T == {m \in Nat : \E f : KeepsUpTo(f, s, k, m)}
<1>1. 0 \in T
  <2>1. KeepsUpTo([i \in 0..0 |-> <<>>], s, k, 0)
    BY DEF KeepsUpTo
  <2> QED
    BY <2>1
<1>2. ASSUME NEW m \in Nat, m \in T PROVE m + 1 \in T
  <2>1. PICK f : KeepsUpTo(f, s, k, m)
    BY <1>2
  <2> DEFINE last == IF s[m + 1].kind = k THEN Append(f[m], s[m + 1]) ELSE f[m]
             g == [i \in 0..(m + 1) |-> IF i = m + 1 THEN last ELSE f[i]]
  <2>2. \A i \in 0..(m + 1) : g[i] =
          IF i = 0 THEN <<>> ELSE IF s[i].kind = k THEN Append(g[i - 1], s[i]) ELSE g[i - 1]
    <3> TAKE i \in 0..(m + 1)
    <3>1. CASE i = m + 1
      <4>1. m \in 0..(m + 1) /\ m # m + 1
        OBVIOUS
      <4>2. g[m] = f[m]
        BY <4>1
      <4>3. i # 0 /\ i - 1 = m /\ g[i] = last
        BY <3>1
      <4> HIDE DEF g
      <4> QED
        BY <3>1, <4>2, <4>3
    <3>2. CASE i # m + 1
      <4>1. i \in 0..m /\ g[i] = f[i]
        BY <3>2
      <4>2. f[i] = IF i = 0 THEN <<>> ELSE IF s[i].kind = k THEN Append(f[i - 1], s[i]) ELSE f[i - 1]
        BY <2>1, <4>1 DEF KeepsUpTo
      <4>3. i # 0 => g[i - 1] = f[i - 1]
        BY <4>1
      <4> QED
        BY <4>1, <4>2, <4>3
    <3> QED
      BY <3>1, <3>2
  <2>3. KeepsUpTo(g, s, k, m + 1)
    BY <2>2 DEF KeepsUpTo
  <2> QED
    BY <2>3
<1> HIDE DEF T
<1>3. n \in T
  BY <1>1, <1>2, CountUp
<1> QED
  BY <1>3 DEF T

\* Kept is what its definition says.
LEMMA KeptIs ==
  ASSUME NEW s, NEW k, Len(s) \in Nat
  PROVE  KeepsUpTo(Kept(s, k), s, k, Len(s))
<1> DEFINE h == CHOOSE f : f = [j \in 0..Len(s) |->
             IF j = 0 THEN <<>> ELSE IF s[j].kind = k THEN Append(f[j - 1], s[j]) ELSE f[j - 1]]
<1>1. \E f : f = [j \in 0..Len(s) |->
        IF j = 0 THEN <<>> ELSE IF s[j].kind = k THEN Append(f[j - 1], s[j]) ELSE f[j - 1]]
  <2>1. PICK f : KeepsUpTo(f, s, k, Len(s))
    BY KeptExists
  <2> WITNESS f
  <2> QED
    BY <2>1 DEF KeepsUpTo
<1>2. h = [j \in 0..Len(s) |->
        IF j = 0 THEN <<>> ELSE IF s[j].kind = k THEN Append(h[j - 1], s[j]) ELSE h[j - 1]]
  BY <1>1
<1>3. Kept(s, k) = h
  BY DEF Kept
<1> HIDE DEF h
<1> QED
  BY <1>2, <1>3 DEF KeepsUpTo

\* One step of it.
LEMMA KeptStep ==
  ASSUME NEW s, NEW k, Len(s) \in Nat
  PROVE  /\ Kept(s, k)[0] = <<>>
         /\ \A i \in 1..Len(s) : Kept(s, k)[i] =
              IF s[i].kind = k THEN Append(Kept(s, k)[i - 1], s[i]) ELSE Kept(s, k)[i - 1]
<1> DEFINE f == Kept(s, k)
<1>1. f = [i \in 0..Len(s) |->
        IF i = 0 THEN <<>> ELSE IF s[i].kind = k THEN Append(f[i - 1], s[i]) ELSE f[i - 1]]
  BY KeptIs DEF KeepsUpTo
<1> HIDE DEF f
<1>2. f[0] = <<>>
  BY <1>1
<1>3. ASSUME NEW i \in 1..Len(s)
      PROVE  f[i] = IF s[i].kind = k THEN Append(f[i - 1], s[i]) ELSE f[i - 1]
  <2>1. i \in 0..Len(s) /\ i # 0
    OBVIOUS
  <2> QED
    BY <1>1, <2>1
<1> QED
  BY <1>2, <1>3 DEF f

\* What is kept are records, in any stream.
LEMMA KeptTypes ==
  ASSUME NEW s \in Seq(Rec), NEW k
  PROVE  \A i \in 0..Len(s) : Kept(s, k)[i] \in Seq(Rec)
<1> DEFINE T == {n \in Nat : n <= Len(s) => Kept(s, k)[n] \in Seq(Rec)}
<1>0. Len(s) \in Nat
  OBVIOUS
<1>1. 0 \in T
  <2>1. Kept(s, k)[0] = <<>> /\ <<>> \in Seq(Rec)
    BY <1>0, KeptStep
  <2> QED
    BY <2>1
<1>2. ASSUME NEW n \in Nat, n \in T PROVE n + 1 \in T
  <2> SUFFICES ASSUME n + 1 <= Len(s) PROVE Kept(s, k)[n + 1] \in Seq(Rec)
    OBVIOUS
  <2>1. n + 1 \in 1..Len(s) /\ (n + 1) - 1 = n
    BY <1>0
  <2>2. Kept(s, k)[n] \in Seq(Rec)
    BY <1>2, <2>1
  <2>3. s[n + 1] \in Rec
    BY <2>1, ElementOfSeq
  <2>4. Kept(s, k)[n + 1] = IF s[n + 1].kind = k THEN Append(Kept(s, k)[n], s[n + 1]) ELSE Kept(s, k)[n]
    BY <1>0, <2>1, KeptStep
  <2> QED
    BY <2>2, <2>3, <2>4
<1>3. \A n \in Nat : n \in T
  <2> HIDE DEF T
  <2> QED
    BY <1>1, <1>2, CountUp
<1> QED
  BY <1>0, <1>3

\* A later record leaves what is kept of the earlier ones as it is.
LEMMA KeptAppend ==
  ASSUME NEW s \in Seq(Rec), NEW r \in Rec, NEW k
  PROVE  \A i \in 0..Len(s) : Kept(Append(s, r), k)[i] = Kept(s, k)[i]
<1> DEFINE t == Append(s, r)
           T == {n \in Nat : n <= Len(s) => Kept(t, k)[n] = Kept(s, k)[n]}
<1>0. Len(s) \in Nat /\ Len(t) = Len(s) + 1 /\ \A i \in 1..Len(s) : t[i] = s[i]
  OBVIOUS
<1> HIDE DEF t
<1>1. 0 \in T
  <2>1. Kept(s, k)[0] = <<>> /\ Kept(t, k)[0] = <<>>
    BY <1>0, KeptStep
  <2> QED
    BY <2>1
<1>2. ASSUME NEW n \in Nat, n \in T PROVE n + 1 \in T
  <2> SUFFICES ASSUME n + 1 <= Len(s) PROVE Kept(t, k)[n + 1] = Kept(s, k)[n + 1]
    OBVIOUS
  <2>1. n + 1 \in 1..Len(s) /\ n + 1 \in 1..Len(t) /\ (n + 1) - 1 = n
    BY <1>0
  <2>2. Kept(t, k)[n] = Kept(s, k)[n] /\ t[n + 1] = s[n + 1]
    BY <1>0, <1>2, <2>1
  <2>3. Kept(s, k)[n + 1] = IF s[n + 1].kind = k THEN Append(Kept(s, k)[n], s[n + 1]) ELSE Kept(s, k)[n]
    BY <1>0, <2>1, KeptStep
  <2>4. Kept(t, k)[n + 1] = IF t[n + 1].kind = k THEN Append(Kept(t, k)[n], t[n + 1]) ELSE Kept(t, k)[n]
    <3>1. Len(t) \in Nat
      BY <1>0
    <3> QED
      BY <2>1, <3>1, KeptStep
  <2> QED
    BY <2>2, <2>3, <2>4
<1>3. \A n \in Nat : n \in T
  <2> HIDE DEF T
  <2> QED
    BY <1>1, <1>2, CountUp
<1> QED
  BY <1>0, <1>3 DEF t

\* What is kept of the first records begins what is kept of all.
LEMMA KeptPrefix ==
  ASSUME NEW s \in Seq(Rec), NEW k, NEW m \in 0..Len(s)
  PROVE  IsPrefix(Kept(s, k)[m], Kept(s, k)[Len(s)])
<1> DEFINE Begins(a, b) == Len(a) <= Len(b) /\ \A i \in 1..Len(a) : a[i] = b[i]
           T == {d \in Nat : m + d <= Len(s) => Begins(Kept(s, k)[m], Kept(s, k)[m + d])}
<1>0. Len(s) \in Nat /\ m \in Nat /\ m <= Len(s)
  OBVIOUS
<1>1. 0 \in T
  <2>1. Kept(s, k)[m] \in Seq(Rec) /\ m + 0 = m
    BY <1>0, KeptTypes
  <2> QED
    BY <2>1
<1>2. ASSUME NEW d \in Nat, d \in T PROVE d + 1 \in T
  <2> SUFFICES ASSUME m + (d + 1) <= Len(s) PROVE Begins(Kept(s, k)[m], Kept(s, k)[m + (d + 1)])
    OBVIOUS
  <2> DEFINE n == m + (d + 1)
             a == Kept(s, k)[m]
             b == Kept(s, k)[m + d]
             c == Kept(s, k)[n]
  <2>1. n \in 1..Len(s) /\ n - 1 = m + d /\ m + d \in 0..Len(s)
    BY <1>0
  <2>2. a \in Seq(Rec) /\ b \in Seq(Rec) /\ s[n] \in Rec
    BY <2>1, KeptTypes, ElementOfSeq
  <2>3. c = IF s[n].kind = k THEN Append(b, s[n]) ELSE b
    BY <1>0, <2>1, KeptStep
  <2>4. Begins(a, b)
    BY <1>2, <2>1
  <2> HIDE DEF a, b, c, n
  <2>5. Len(b) <= Len(c) /\ \A i \in 1..Len(b) : c[i] = b[i]
    BY <2>2, <2>3
  <2>6. Len(a) \in Nat /\ Len(b) \in Nat /\ Len(c) \in Nat
    BY <2>2, <2>3
  <2>7. Begins(a, c)
    BY <2>4, <2>5, <2>6
  <2> QED
    BY <2>7 DEF a, c, n
<1>3. \A d \in Nat : d \in T
  <2> HIDE DEF T
  <2> QED
    BY <1>1, <1>2, CountUp
<1> DEFINE a == Kept(s, k)[m]
           b == Kept(s, k)[Len(s)]
<1>4. Begins(a, b)
  <2>1. Len(s) - m \in Nat /\ m + (Len(s) - m) = Len(s)
    BY <1>0
  <2>2. Len(s) - m \in T
    BY <1>3, <2>1
  <2> QED
    BY <2>1, <2>2
<1>5. a \in Seq(Rec) /\ b \in Seq(Rec)
  BY <1>0, KeptTypes
<1> HIDE DEF a, b
<1>6. Len(a) <= Len(b) /\ SubSeq(a, 1, Len(a)) = SubSeq(b, 1, Len(a))
  BY <1>4, <1>5
<1> QED
  BY <1>6 DEF IsPrefix, a, b

\* Of records of one kind all are kept, and of none of that kind nothing.
LEMMA KeptAllOrNothing ==
  ASSUME NEW s \in Seq(Rec), NEW k, NEW m \in 0..Len(s)
  PROVE  /\ (\A i \in 1..m : s[i].kind = k) => Len(Kept(s, k)[m]) = m
         /\ (\A i \in 1..m : s[i].kind # k) => Kept(s, k)[m] = <<>>
<1> DEFINE T == {n \in Nat : n <= m =>
             /\ (\A i \in 1..m : s[i].kind = k) => Len(Kept(s, k)[n]) = n
             /\ (\A i \in 1..m : s[i].kind # k) => Kept(s, k)[n] = <<>>}
<1>0. Len(s) \in Nat /\ m \in Nat /\ m <= Len(s)
  OBVIOUS
<1>1. 0 \in T
  <2>1. Kept(s, k)[0] = <<>>
    BY <1>0, KeptStep
  <2> QED
    BY <2>1
<1>2. ASSUME NEW n \in Nat, n \in T PROVE n + 1 \in T
  <2> SUFFICES ASSUME n + 1 <= m
               PROVE  /\ (\A i \in 1..m : s[i].kind = k) => Len(Kept(s, k)[n + 1]) = n + 1
                      /\ (\A i \in 1..m : s[i].kind # k) => Kept(s, k)[n + 1] = <<>>
    OBVIOUS
  <2> DEFINE b == Kept(s, k)[n]
             c == Kept(s, k)[n + 1]
  <2>1. n + 1 \in 1..Len(s) /\ n + 1 \in 1..m /\ (n + 1) - 1 = n /\ n \in 0..Len(s)
    BY <1>0
  <2>2. b \in Seq(Rec) /\ s[n + 1] \in Rec
    BY <2>1, KeptTypes, ElementOfSeq
  <2>3. c = IF s[n + 1].kind = k THEN Append(b, s[n + 1]) ELSE b
    BY <1>0, <2>1, KeptStep
  <2>4. /\ (\A i \in 1..m : s[i].kind = k) => Len(b) = n
        /\ (\A i \in 1..m : s[i].kind # k) => b = <<>>
    BY <1>2, <2>1
  <2> HIDE DEF b, c
  <2>5. (\A i \in 1..m : s[i].kind = k) => Len(c) = n + 1
    BY <2>1, <2>2, <2>3, <2>4
  <2>6. (\A i \in 1..m : s[i].kind # k) => c = <<>>
    BY <2>1, <2>3, <2>4
  <2> QED
    BY <2>5, <2>6 DEF c
<1>3. \A n \in Nat : n \in T
  <2> HIDE DEF T
  <2> QED
    BY <1>1, <1>2, CountUp
<1> QED
  BY <1>0, <1>3

-----------------------------------------------------------------------------
(* The invariant, action by action.                                        *)

\* The server sends one more record, a ticket only before the request.
LEMMA InvSends ==
  ASSUME StreamInv, NEW k \in AppKeyed, ServerSends(k), ~closed, closed' \in BOOLEAN,
         k = "alert" => closed',
         ~asked => k = "nst" /\ Count("nst") < MaxTickets /\ ~closed',
         UNCHANGED <<mode, asked, stage, inbound, cut, rxSeq, log, body, binding>>
  PROVE  StreamInv'
<1> USE DEF StreamInv
<1> DEFINE r == [kind |-> k, n |-> Len(sent)]
           w == <<r, r>>
<1>1. /\ sent \in Seq(Rec) /\ wire \in Seq(Rec) /\ Len(sent) \in Nat /\ Len(wire) \in Nat
      /\ inbound \in Seq(Rec) /\ Len(inbound) \in Nat
  BY DEF StreamTypes
<1>2. r \in Rec /\ r.kind = k /\ r.n = Len(sent)
  BY <1>1 DEF Rec
<1>3. sent' = Append(sent, r) /\ wire' = wire \o w
  BY DEF ServerSends, Halves
<1>4. w \in Seq(Rec) /\ Len(w) = 2 /\ w[1] = r /\ w[2] = r
  BY <1>2
<1> HIDE DEF r, w
<1>5. /\ sent' \in Seq(Rec) /\ Len(sent') = Len(sent) + 1 /\ sent'[Len(sent) + 1] = r
      /\ \A i \in 1..Len(sent) : sent'[i] = sent[i]
  BY <1>1, <1>2, <1>3
<1>6. /\ wire' \in Seq(Rec) /\ Len(wire') = Len(wire) + 2
      /\ wire'[Len(wire) + 1] = r /\ wire'[Len(wire) + 2] = r
      /\ \A i \in 1..Len(wire) : wire'[i] = wire[i]
  <2>1. /\ wire' \in Seq(Rec) /\ Len(wire') = Len(wire) + 2
        /\ \A i \in 1..(Len(wire) + 2) :
             wire'[i] = IF i <= Len(wire) THEN wire[i] ELSE w[i - Len(wire)]
    <3>1. /\ wire \o w \in Seq(Rec) /\ Len(wire \o w) = Len(wire) + Len(w)
          /\ \A i \in 1..(Len(wire) + Len(w)) :
               (wire \o w)[i] = IF i <= Len(wire) THEN wire[i] ELSE w[i - Len(wire)]
      BY <1>1, <1>4, ConcatProperties
    <3>2. Len(w) = 2
      BY <1>4
    <3> QED
      BY <1>3, <3>1, <3>2
  <2>2. /\ Len(wire) + 1 \in 1..(Len(wire) + 2) /\ ~(Len(wire) + 1 <= Len(wire))
        /\ Len(wire) + 2 \in 1..(Len(wire) + 2) /\ ~(Len(wire) + 2 <= Len(wire))
        /\ (Len(wire) + 1) - Len(wire) = 1 /\ (Len(wire) + 2) - Len(wire) = 2
        /\ \A i \in 1..Len(wire) : i \in 1..(Len(wire) + 2) /\ i <= Len(wire)
    BY <1>1
  <2>3. wire'[Len(wire) + 1] = r /\ wire'[Len(wire) + 2] = r
    BY <1>4, <2>1, <2>2
  <2>4. \A i \in 1..Len(wire) : wire'[i] = wire[i]
    BY <2>1, <2>2
  <2> QED
    BY <2>1, <2>3, <2>4
<1>7. UNCHANGED Taken /\ Taken \in 0..Len(sent) /\ Taken \in 0..Len(sent')
  BY <1>5 DEF Taken, StreamTypes
<1>8. ASSUME NEW i \in 1..Len(sent')
      PROVE  i \in 1..Len(sent) \/ i = Len(sent) + 1
  BY <1>5, <1>1
<1>9. StreamTypes'
  BY <1>5, <1>6, <1>7 DEF StreamTypes
<1>10. Numbered'
  BY <1>1, <1>2, <1>5, <1>8 DEF Numbered
<1>11. TicketsFirst'
  <2> SUFFICES ASSUME ~asked
               PROVE  ~closed' /\ Len(sent') <= MaxTickets /\ \A i \in 1..Len(sent') : sent'[i].kind = "nst"
    BY DEF TicketsFirst
  <2>1. \A i \in 1..Len(sent) : sent[i].kind = "nst"
    BY DEF TicketsFirst
  <2>2. Len(Kept(sent, "nst")[Len(sent)]) = Len(sent)
    <3>1. Len(sent) \in 0..Len(sent)
      BY <1>1
    <3> QED
      BY <1>1, <2>1, <3>1, KeptAllOrNothing
  <2>3. Len(sent) < MaxTickets
    BY <2>2 DEF Count, OfKind
  <2> QED
    BY <1>1, <1>2, <1>5, <1>8, <2>1, <2>3, WitnessAssumption
<1>12. Captured' /\ CutAtDrain'
  <2>1. \A i \in 1..Taken : sent'[i] = sent[i]
    <3> TAKE i \in 1..Taken
    <3>1. Taken \in Nat /\ Taken <= Len(sent)
      BY <1>1, <1>7
    <3>2. i \in 1..Len(sent)
      BY <1>1, <3>1
    <3> QED
      BY <1>5, <3>2
  <2> QED
    BY <1>7, <2>1 DEF Captured, CutAtDrain
<1>13. OnItsWay'
  <2> SUFFICES ASSUME ~cut
               PROVE  /\ Len(wire') = 2 * (Len(sent') - Taken)
                      /\ \A i \in 1..(Len(sent') - Taken) :
                           wire'[2 * i - 1] = sent'[Taken + i] /\ wire'[2 * i] = sent'[Taken + i]
    BY <1>7 DEF OnItsWay
  <2>1. /\ Len(wire) = 2 * (Len(sent) - Taken)
        /\ \A i \in 1..(Len(sent) - Taken) :
             wire[2 * i - 1] = sent[Taken + i] /\ wire[2 * i] = sent[Taken + i]
    BY DEF OnItsWay
  <2>2. Len(wire') = 2 * (Len(sent') - Taken)
    BY <1>1, <1>5, <1>6, <1>7, <2>1
  <2>3. ASSUME NEW i \in 1..(Len(sent') - Taken)
        PROVE  wire'[2 * i - 1] = sent'[Taken + i] /\ wire'[2 * i] = sent'[Taken + i]
    <3>1. CASE i \in 1..(Len(sent) - Taken)
      <4>1. /\ 2 * i - 1 \in 1..Len(wire) /\ 2 * i \in 1..Len(wire) /\ Taken + i \in 1..Len(sent)
        BY <1>1, <1>7, <2>1, <3>1
      <4> QED
        BY <1>5, <1>6, <2>1, <3>1, <4>1
    <3>2. CASE i = Len(sent) - Taken + 1
      <4>1. 2 * i - 1 = Len(wire) + 1 /\ 2 * i = Len(wire) + 2 /\ Taken + i = Len(sent) + 1
        BY <1>1, <1>7, <2>1, <3>2
      <4> QED
        BY <1>5, <1>6, <4>1
    <3>3. i \in 1..(Len(sent) - Taken) \/ i = Len(sent) - Taken + 1
      <4>1. Taken \in Nat /\ Len(sent') = Len(sent) + 1
        BY <1>1, <1>5, <1>7
      <4>2. i \in 1..((Len(sent) + 1) - Taken)
        BY <4>1
      <4> QED
        BY <1>1, <4>1, <4>2
    <3> QED
      BY <3>1, <3>2, <3>3
  <2> QED
    BY <2>2, <2>3
<1>14. SeqInStep' /\ FailsOnlyOutOfStep'
  BY <1>7 DEF SeqInStep, FailsOnlyOutOfStep, TicketsUncounted, Drained
<1>15. Assembled'
  <2>1. \A i \in 0..Len(sent) : Kept(sent', "app")[i] = Kept(sent, "app")[i]
    BY <1>1, <1>2, <1>3, KeptAppend
  <2>2. \A i \in 0..Len(sent) : i \in 0..Len(sent')
    BY <1>1, <1>5
  <2> QED
    BY <1>7, <2>1, <2>2 DEF Assembled
<1>16. LoggedSince'
  <2>1. log \in Seq([seq : Nat, rec : Rec]) /\ Len(log) \in Nat
    BY DEF StreamTypes
  <2>2. ASSUME stage # "failed", NEW i \in 1..Len(log)
        PROVE  (Taken - Len(log)) + i \in 1..Len(sent)
    <3>1. Taken - Len(log) \in 0..MaxTickets
      BY <2>2 DEF LoggedSince
    <3> QED
      BY <1>1, <1>7, <2>1, <3>1, WitnessAssumption
  <2> QED
    BY <1>5, <1>7, <2>2 DEF LoggedSince
<1> QED
  BY <1>9, <1>10, <1>11, <1>12, <1>13, <1>14, <1>15, <1>16

\* Server steps: tickets before and after the request, the response after it.
LEMMA InvServer ==
  ASSUME StreamInv, Server
  PROVE  StreamInv'
<1>1. CASE SendTicket
  <2>1. "nst" \in AppKeyed
    BY DEF AppKeyed
  <2> QED
    BY <1>1, <2>1, InvSends DEF SendTicket, StreamInv, StreamTypes
<1>2. CASE SendResponse
  <2>1. "app" \in AppKeyed
    BY DEF AppKeyed
  <2> QED
    BY <1>2, <2>1, InvSends DEF SendResponse, StreamInv, StreamTypes
<1>3. CASE Close
  <2>1. CASE ServerSends("alert")
    <3>1. "alert" \in AppKeyed
      BY DEF AppKeyed
    <3> QED
      BY <1>3, <2>1, <3>1, InvSends DEF Close
  <2>2. CASE UNCHANGED <<sent, wire>>
    <3>1. /\ closed' = TRUE /\ asked
          /\ UNCHANGED <<mode, asked, stage, inbound, cut, rxSeq, log, body, binding, sent, wire>>
      BY <1>3, <2>2 DEF Close
    <3> QED
      BY <3>1 DEF StreamInv, StreamTypes, Numbered, TicketsFirst, Captured, OnItsWay, CutAtDrain,
         SeqInStep, Assembled, LoggedSince, FailsOnlyOutOfStep, TicketsUncounted, Taken, Drained
  <2> QED
    BY <1>3, <2>1, <2>2 DEF Close
<1> QED
  BY <1>1, <1>2, <1>3 DEF Server

\* One read takes k half records: whole tickets, and perhaps half of one more.
LEMMA InvDrain ==
  ASSUME StreamInv, Drain
  PROVE  StreamInv'
<1> USE DEF StreamInv
<1>1. PICK k \in 0..Len(wire) :
        /\ inbound' = inbound \o [i \in 1..(k \div 2) |-> wire[2 * i]]
        /\ wire' = SubSeq(wire, k + 1, Len(wire))
        /\ cut' = (k % 2 = 1)
        /\ rxSeq' = IF mode = 2 THEN 0 ELSE k \div 2
  BY DEF Drain
<1>2. /\ stage = "drain" /\ stage' = "request"
      /\ binding' = IF mode = 2 THEN [requests |-> 0, inbound |-> inbound'] ELSE binding
      /\ UNCHANGED <<mode, asked, closed, sent, log, body>>
  BY DEF Drain, serverVars
<1>3. /\ ~asked /\ ~closed /\ log = <<>> /\ body = <<>> /\ ~cut /\ Taken = 0 /\ rxSeq = 0
      /\ ~TicketsUncounted /\ Len(sent) <= MaxTickets /\ \A i \in 1..Len(sent) : sent[i].kind = "nst"
  BY <1>2 DEF TicketsFirst, SeqInStep, Drained
<1>4. /\ sent \in Seq(Rec) /\ wire \in Seq(Rec) /\ Len(sent) \in Nat /\ Len(wire) \in Nat
      /\ inbound \in Seq(Rec) /\ Len(inbound) = 2
  BY <1>3 DEF StreamTypes, Taken
<1>5. /\ Len(wire) = 2 * Len(sent)
      /\ \A i \in 1..Len(sent) : wire[2 * i - 1] = sent[i] /\ wire[2 * i] = sent[i]
  BY <1>3, <1>4 DEF OnItsWay
<1> DEFINE q == k \div 2
           e == [i \in 1..q |-> wire[2 * i]]
<1>6. q \in 0..Len(sent) /\ (k % 2 = 1 \/ k = 2 * q)
  BY <1>4, <1>5
<1>7. e \in Seq(Rec) /\ Len(e) = q /\ \A i \in 1..q : e[i] = sent[i]
  <2>1. \A i \in 1..q : wire[2 * i] = sent[i] /\ sent[i] \in Rec
    BY <1>4, <1>5, <1>6
  <2>2. \A i \in 1..q : e[i] = wire[2 * i]
    OBVIOUS
  <2>3. q \in Nat
    BY <1>6
  <2> HIDE DEF q
  <2>4. e \in [1..q -> Rec]
    BY <2>1
  <2>5. e \in Seq(Rec) /\ Len(e) = q
    <3> HIDE DEF e
    <3> QED
      BY <2>3, <2>4
  <2> QED
    BY <2>1, <2>2, <2>5
<1>8. inbound' = inbound \o e
  BY <1>1
<1> HIDE DEF q, e
<1>9. /\ inbound' \in Seq(Rec) /\ Len(inbound') = 2 + q /\ inbound'[2] = inbound[2]
      /\ \A i \in 1..q : inbound'[i + 2] = sent[i]
  <2>1. /\ inbound \o e \in Seq(Rec) /\ Len(inbound \o e) = Len(inbound) + Len(e)
        /\ \A i \in 1..(Len(inbound) + Len(e)) :
             (inbound \o e)[i] = IF i <= Len(inbound) THEN inbound[i] ELSE e[i - Len(inbound)]
    BY <1>4, <1>7, ConcatProperties
  <2>2. Len(inbound) = 2 /\ Len(e) = q
    BY <1>4, <1>7
  <2>3. /\ inbound' \in Seq(Rec) /\ Len(inbound') = 2 + q
        /\ \A i \in 1..(2 + q) : inbound'[i] = IF i <= 2 THEN inbound[i] ELSE e[i - 2]
    BY <1>8, <2>1, <2>2
  <2>4. inbound'[2] = inbound[2]
    <3>1. 2 \in 1..(2 + q)
      BY <1>6
    <3> QED
      BY <2>3, <3>1
  <2>5. ASSUME NEW i \in 1..q PROVE inbound'[i + 2] = sent[i]
    <3>1. i + 2 \in 1..(2 + q) /\ ~(i + 2 <= 2) /\ (i + 2) - 2 = i
      BY <1>6
    <3>2. inbound'[i + 2] = e[i]
      BY <2>3, <3>1
    <3> QED
      BY <1>7, <3>2
  <2> QED
    BY <2>3, <2>4, <2>5
<1>10. Taken' = q
  BY <1>6, <1>9 DEF Taken
<1>11. wire' \in Seq(Rec) /\ Len(wire') = Len(wire) - k /\ \A i \in 1..(Len(wire) - k) : wire'[i] = wire[i + k]
  BY <1>1, <1>4
<1>12. StreamTypes'
  <2>1. cut' \in BOOLEAN /\ rxSeq' \in Nat
    BY <1>1, <1>6 DEF q
  <2> QED
    BY <1>2, <1>6, <1>9, <1>10, <1>11, <2>1 DEF StreamTypes
<1>13. Numbered' /\ TicketsFirst'
  BY <1>2, <1>3 DEF Numbered, TicketsFirst
<1>14. Captured' /\ CutAtDrain'
  BY <1>2, <1>3, <1>4, <1>6, <1>9, <1>10 DEF Captured, CutAtDrain
<1>15. OnItsWay'
  <2> SUFFICES ASSUME ~cut'
               PROVE  /\ Len(wire') = 2 * (Len(sent) - q)
                      /\ \A i \in 1..(Len(sent) - q) :
                           wire'[2 * i - 1] = sent[q + i] /\ wire'[2 * i] = sent[q + i]
    BY <1>2, <1>10 DEF OnItsWay
  <2>1. k = 2 * q
    BY <1>1, <1>6
  <2>2. Len(wire') = 2 * (Len(sent) - q)
    BY <1>4, <1>5, <1>6, <1>11, <2>1
  <2>3. ASSUME NEW i \in 1..(Len(sent) - q)
        PROVE  wire'[2 * i - 1] = sent[q + i] /\ wire'[2 * i] = sent[q + i]
    <3>1. /\ 2 * i - 1 \in 1..(Len(wire) - k) /\ 2 * i \in 1..(Len(wire) - k)
          /\ (2 * i - 1) + k = 2 * (q + i) - 1 /\ (2 * i) + k = 2 * (q + i)
          /\ q + i \in 1..Len(sent)
      BY <1>4, <1>5, <1>6, <2>1
    <3>2. wire'[2 * i - 1] = wire[2 * (q + i) - 1] /\ wire'[2 * i] = wire[2 * (q + i)]
      BY <1>11, <3>1
    <3> QED
      BY <1>5, <3>1, <3>2
  <2> QED
    BY <2>2, <2>3
<1>16. SeqInStep' /\ FailsOnlyOutOfStep'
  <2>1. stage' = "request" /\ Len(binding'.inbound) = (IF mode = 2 THEN 2 + q ELSE Len(binding.inbound))
    BY <1>2, <1>9
  <2>2. mode = 2 /\ ~TicketsUncounted' => q = 0
    BY <1>2, <1>6, <2>1 DEF TicketsUncounted
  <2>3. rxSeq' = IF mode = 2 THEN 0 ELSE q
    BY <1>1 DEF q
  <2> QED
    BY <1>2, <1>10, <2>2, <2>3 DEF SeqInStep, FailsOnlyOutOfStep, Drained
<1>17. Assembled'
  <2>1. \A i \in 1..q : sent[i].kind # "app"
    BY <1>3, <1>4, <1>6
  <2>2. Kept(sent, "app")[q] = <<>>
    BY <1>4, <1>6, <2>1, KeptAllOrNothing
  <2> QED
    BY <1>2, <1>3, <1>6, <1>10, <2>2 DEF Assembled
<1>18. LoggedSince'
  BY <1>2, <1>3, <1>4, <1>6, <1>10, WitnessAssumption DEF LoggedSince
<1> QED
  BY <1>12, <1>13, <1>14, <1>15, <1>16, <1>17, <1>18

\* The request is sent, or the session ends without another record.
LEMMA InvStays ==
  ASSUME StreamInv, SendRequest \/ ReadOutOfStep \/ ReadEnds \/ UNCHANGED vars
  PROVE  StreamInv'
<1>1. /\ UNCHANGED <<mode, closed, sent, wire, inbound, cut, rxSeq, log, body, binding>>
      /\ (SendRequest \/ UNCHANGED asked) /\ (asked' = asked \/ asked' = TRUE)
  BY DEF SendRequest, ReadOutOfStep, ReadEnds, vars, serverVars
<1>2. /\ stage' = "failed" => stage = "failed" \/ cut
      /\ stage = "failed" => stage' = "failed"
      /\ stage = "drain" <=> stage' = "drain"
      /\ stage' \in {"drain", "request"} => stage' = stage /\ asked' = asked
  BY DEF SendRequest, ReadOutOfStep, ReadEnds, vars, serverVars
<1>3. /\ ~asked' => ~asked
      /\ asked' \in BOOLEAN
  <2>1. asked \in BOOLEAN
    BY DEF StreamInv, StreamTypes
  <2>2. CASE asked' = asked
    BY <2>1, <2>2
  <2>3. CASE asked' = TRUE
    BY <2>3
  <2> QED
    BY <1>1, <2>2, <2>3
<1> UNCHANGED <<Taken, TicketsUncounted>>
  BY <1>1 DEF Taken, TicketsUncounted
<1> USE DEF StreamInv
<1>4. StreamTypes' /\ Numbered' /\ Captured' /\ OnItsWay' /\ CutAtDrain'
  BY <1>1, <1>3 DEF StreamTypes, Numbered, Captured, OnItsWay, CutAtDrain
<1>5. TicketsFirst' /\ SeqInStep' /\ Assembled' /\ LoggedSince' /\ FailsOnlyOutOfStep'
  BY <1>1, <1>2, <1>3 DEF TicketsFirst, SeqInStep, Assembled, LoggedSince, FailsOnlyOutOfStep, Drained
<1> QED
  BY <1>4, <1>5

\* A whole record is taken off the stream: it is the next one the server sent.
LEMMA NextIsNext ==
  ASSUME StreamInv, NextRecord, TakeRecord, UNCHANGED <<sent, cut>>
  PROVE  /\ Taken' = Taken + 1 /\ Taken \in Nat /\ Taken + 1 \in 1..Len(sent)
         /\ wire[1] = sent[Taken + 1] /\ wire[1] \in Rec
         /\ wire[1].kind \in AppKeyed /\ wire[1].n = Taken
         /\ wire' \in Seq(Rec) /\ inbound' \in Seq(Rec)
         /\ ~cut /\ Captured' /\ OnItsWay'
<1> USE DEF StreamInv
<1>1. /\ sent \in Seq(Rec) /\ wire \in Seq(Rec) /\ Len(sent) \in Nat /\ Len(wire) \in Nat
      /\ inbound \in Seq(Rec) /\ Len(inbound) \in Nat
      /\ Taken \in Nat /\ Taken <= Len(sent) /\ Len(inbound) = Taken + 2
  BY DEF StreamTypes, Taken
<1>2. ~cut /\ Len(wire) >= 2
  BY DEF NextRecord
<1>3. /\ Len(wire) = 2 * (Len(sent) - Taken)
      /\ \A i \in 1..(Len(sent) - Taken) :
           wire[2 * i - 1] = sent[Taken + i] /\ wire[2 * i] = sent[Taken + i]
  BY <1>2 DEF OnItsWay
<1>4. 1 \in 1..(Len(sent) - Taken) /\ Taken + 1 \in 1..Len(sent)
  BY <1>1, <1>2, <1>3
<1>5. wire[1] = sent[Taken + 1]
  <2>1. wire[2 * 1 - 1] = sent[Taken + 1]
    BY <1>3, <1>4
  <2> QED
    BY <2>1
<1>6. wire[1] \in Rec /\ wire[1].kind \in AppKeyed /\ wire[1].n = Taken
  <2>1. sent[Taken + 1] \in Rec
    BY <1>1, <1>4, ElementOfSeq
  <2>2. sent[Taken + 1].kind \in AppKeyed /\ sent[Taken + 1].n = (Taken + 1) - 1
    BY <1>4 DEF Numbered
  <2> QED
    BY <1>1, <1>5, <2>1, <2>2
<1> DEFINE r == wire[1]
<1>7. wire' = SubSeq(wire, 3, Len(wire)) /\ inbound' = Append(inbound, r)
  BY DEF TakeRecord
<1>8. /\ wire' \in Seq(Rec) /\ Len(wire') = Len(wire) - 2
      /\ \A i \in 1..(Len(wire) - 2) : wire'[i] = wire[i + 2]
  <2> DEFINE n == Len(wire)
  <2>1. n \in Nat /\ n >= 2 /\ n = Len(wire) /\ wire' = SubSeq(wire, 3, n)
    BY <1>1, <1>2, <1>7
  <2> HIDE DEF n
  <2>2. /\ SubSeq(wire, 3, n) \in Seq(Rec) /\ Len(SubSeq(wire, 3, n)) = n - 2
        /\ \A i \in 1..(n - 2) : SubSeq(wire, 3, n)[i] = wire[i + 2]
    BY <1>1, <2>1
  <2> QED
    BY <2>1, <2>2
<1>9. /\ inbound' \in Seq(Rec) /\ Len(inbound') = Len(inbound) + 1
      /\ inbound'[Len(inbound) + 1] = r
      /\ \A i \in 1..Len(inbound) : inbound'[i] = inbound[i]
  <2>1. r \in Rec
    BY <1>6
  <2> HIDE DEF r
  <2> QED
    BY <1>1, <1>7, <2>1
<1>10. Taken' = Taken + 1
  BY <1>1, <1>9 DEF Taken
<1>11. Captured'
  <2>1. 2 \in 1..Len(inbound)
    BY <1>1
  <2>2. inbound'[2].kind = "hs"
    BY <1>9, <2>1 DEF Captured
  <2>3. ASSUME NEW i \in 1..(Taken + 1) PROVE inbound'[i + 2] = sent[i]
    <3>1. CASE i = Taken + 1
      <4>1. i + 2 = Len(inbound) + 1
        BY <1>1, <3>1
      <4> QED
        BY <1>5, <1>9, <3>1, <4>1
    <3>2. CASE i \in 1..Taken
      <4>1. i + 2 \in 1..Len(inbound)
        BY <1>1, <3>2
      <4> QED
        BY <1>9, <3>2, <4>1 DEF Captured
    <3> QED
      BY <1>1, <3>1, <3>2
  <2> QED
    BY <1>10, <2>2, <2>3 DEF Captured
<1>12. OnItsWay'
  <2>1. Len(wire') = 2 * (Len(sent) - (Taken + 1))
    BY <1>1, <1>3, <1>8
  <2>2. ASSUME NEW i \in 1..(Len(sent) - (Taken + 1))
        PROVE  wire'[2 * i - 1] = sent[(Taken + 1) + i] /\ wire'[2 * i] = sent[(Taken + 1) + i]
    <3> DEFINE j == i + 1
    <3>1. /\ j \in 1..(Len(sent) - Taken) /\ (Taken + 1) + i = Taken + j
          /\ 2 * i - 1 \in 1..(Len(wire) - 2) /\ 2 * i \in 1..(Len(wire) - 2)
          /\ (2 * i - 1) + 2 = 2 * j - 1 /\ (2 * i) + 2 = 2 * j
      BY <1>1, <1>3
    <3> HIDE DEF j
    <3>2. wire'[2 * i - 1] = wire[2 * j - 1] /\ wire'[2 * i] = wire[2 * j]
      BY <1>8, <3>1
    <3> QED
      BY <1>3, <3>1, <3>2
  <2> QED
    BY <1>10, <2>1, <2>2 DEF OnItsWay
<1> QED
  BY <1>1, <1>2, <1>4, <1>5, <1>6, <1>8, <1>9, <1>10, <1>11, <1>12

\* A record is read and opened: decrypted, logged, and its content kept if it is data.
LEMMA InvReads ==
  ASSUME StreamInv, ReadRecord
  PROVE  StreamInv'
<1> USE DEF StreamInv
<1> DEFINE r == wire[1]
           g == [seq |-> rxSeq, rec |-> r]
<1>1. /\ NextRecord /\ TakeRecord /\ r.n = rxSeq /\ log' = Append(log, g) /\ rxSeq' = rxSeq + 1
      /\ body' = (IF r.kind = "app" THEN Append(body, r) ELSE body)
      /\ stage = "reading" /\ stage' \in {"reading", "finished"}
      /\ UNCHANGED <<mode, asked, closed, sent, cut, binding>>
  BY DEF ReadRecord, NextRecord, Opens, serverVars
<1>2. /\ Taken' = Taken + 1 /\ Taken \in Nat /\ Taken + 1 \in 1..Len(sent)
      /\ r = sent[Taken + 1] /\ r \in Rec /\ r.n = Taken
      /\ wire' \in Seq(Rec) /\ inbound' \in Seq(Rec)
      /\ ~cut /\ Captured' /\ OnItsWay'
  BY <1>1, NextIsNext
<1>3. rxSeq \in Nat /\ rxSeq = Taken
  BY <1>1, <1>2
<1>4. g \in [seq : Nat, rec : Rec] /\ g.rec = r
  BY <1>2, <1>3
<1> HIDE DEF r, g
<1>5. /\ Len(sent) \in Nat /\ sent \in Seq(Rec) /\ body \in Seq(Rec)
      /\ log \in Seq([seq : Nat, rec : Rec]) /\ Len(log) \in Nat
  BY DEF StreamTypes
<1>6. /\ log' \in Seq([seq : Nat, rec : Rec]) /\ Len(log') = Len(log) + 1 /\ log'[Len(log) + 1] = g
      /\ \A i \in 1..Len(log) : log'[i] = log[i]
  BY <1>1, <1>4, <1>5
<1>7. body' \in Seq(Rec)
  BY <1>1, <1>2, <1>5
<1>8. StreamTypes'
  <2>1. Taken' \in 0..Len(sent) /\ rxSeq' \in Nat
    BY <1>1, <1>2, <1>3, <1>5
  <2> QED
    BY <1>1, <1>2, <1>6, <1>7, <2>1 DEF StreamTypes
<1>9. Numbered' /\ CutAtDrain'
  BY <1>1, <1>2 DEF Numbered, CutAtDrain
<1>10. TicketsFirst'
  BY <1>1 DEF TicketsFirst
<1>11. SeqInStep' /\ FailsOnlyOutOfStep'
  BY <1>1, <1>2, <1>3 DEF SeqInStep, FailsOnlyOutOfStep, Drained
<1>12. Assembled'
  <2>1. body = Kept(sent, "app")[Taken]
    BY <1>1 DEF Assembled
  <2>2. Kept(sent, "app")[Taken + 1] =
          IF r.kind = "app" THEN Append(Kept(sent, "app")[Taken], r) ELSE Kept(sent, "app")[Taken]
    <3>1. (Taken + 1) - 1 = Taken
      BY <1>2
    <3> QED
      BY <1>2, <1>5, <3>1, KeptStep
  <2>3. body' = Kept(sent, "app")[Taken + 1] /\ Taken + 1 \in 0..Len(sent)
    BY <1>1, <1>2, <1>5, <2>1, <2>2
  <2> QED
    BY <1>1, <1>2, <2>3 DEF Assembled
<1>13. LoggedSince'
  <2> DEFINE d == Taken - Len(log)
  <2>1. d \in 0..MaxTickets /\ \A i \in 1..Len(log) : log[i].rec = sent[d + i]
    BY <1>1 DEF LoggedSince
  <2>2. Taken' - Len(log') = d /\ Taken + 1 = d + Len(log) + 1 /\ d \in Nat
    BY <1>2, <1>5, <1>6, <2>1, WitnessAssumption
  <2>3. ASSUME NEW i \in 1..Len(log') PROVE log'[i].rec = sent[d + i]
    <3>1. CASE i \in 1..Len(log)
      BY <1>6, <2>1, <3>1
    <3>2. CASE i = Len(log) + 1
      <4>1. d + i = Taken + 1
        BY <1>2, <1>5, <2>2, <3>2
      <4>2. log'[i] = g
        BY <1>6, <3>2
      <4> QED
        BY <1>2, <1>4, <4>1, <4>2
    <3>3. i \in 1..Len(log) \/ i = Len(log) + 1
      BY <1>5, <1>6
    <3> QED
      BY <3>1, <3>2, <3>3
  <2> HIDE DEF d
  <2> QED
    BY <1>1, <1>2, <2>1, <2>2, <2>3 DEF LoggedSince
<1> QED
  BY <1>2, <1>8, <1>9, <1>10, <1>11, <1>12, <1>13

\* A record that does not open ends the session; it was not the next one to open, so
\* the tickets were not counted.
LEMMA InvRejects ==
  ASSUME StreamInv, ReadRejected
  PROVE  StreamInv'
<1> USE DEF StreamInv
<1>1. /\ NextRecord /\ TakeRecord /\ ~Opens(wire[1])
      /\ stage = "reading" /\ stage' = "failed"
      /\ UNCHANGED <<mode, asked, closed, sent, cut, rxSeq, log, body, binding>>
  BY DEF ReadRejected, NextRecord, serverVars
<1>2. /\ Taken' = Taken + 1 /\ Taken \in Nat /\ Taken + 1 \in 1..Len(sent)
      /\ wire[1].kind \in AppKeyed /\ wire[1].n = Taken
      /\ wire' \in Seq(Rec) /\ inbound' \in Seq(Rec)
      /\ ~cut /\ Captured' /\ OnItsWay'
  BY <1>1, NextIsNext
<1>3. rxSeq # Taken
  BY <1>1, <1>2 DEF Opens
<1>4. TicketsUncounted
  BY <1>1, <1>2, <1>3 DEF SeqInStep
<1>5. StreamTypes'
  <2>1. Taken' \in 0..Len(sent)
    BY <1>2
  <2> QED
    BY <1>1, <1>2, <2>1 DEF StreamTypes
<1>6. Numbered' /\ CutAtDrain' /\ TicketsFirst'
  BY <1>1, <1>2 DEF Numbered, CutAtDrain, TicketsFirst
<1>7. SeqInStep' /\ FailsOnlyOutOfStep'
  BY <1>1, <1>4 DEF SeqInStep, FailsOnlyOutOfStep, Drained, TicketsUncounted
<1>8. Assembled' /\ LoggedSince'
  BY <1>1 DEF Assembled, LoggedSince
<1> QED
  BY <1>2, <1>5, <1>6, <1>7, <1>8

\* Where the host is in the server's stream, at any time.
LEMMA StreamInductive == Spec => []StreamInv
<1>1. Init => StreamInv
  <2> SUFFICES ASSUME Init PROVE StreamInv
    OBVIOUS
  <2> DEFINE p == [kind |-> "plain", n |-> 0]
             h == [kind |-> "hs", n |-> 0]
  <2>1. p \in Rec /\ h \in Rec /\ h.kind = "hs"
    BY DEF Rec
  <2>2. /\ mode \in {1, 2} /\ asked = FALSE /\ closed = FALSE /\ sent = <<>> /\ wire = <<>>
        /\ stage = "drain" /\ inbound = <<p, h>>
        /\ cut = FALSE /\ rxSeq = 0 /\ log = <<>> /\ body = <<>> /\ binding = Unbound
    BY WitnessAssumption DEF Init
  <2> HIDE DEF p, h
  <2>3. inbound \in Seq(Rec) /\ Len(inbound) = 2 /\ inbound[2] = h /\ Taken = 0
    BY <2>1, <2>2 DEF Taken
  <2>4. Len(sent) = 0 /\ Len(wire) = 0 /\ Len(log) = 0 /\ Len(binding.inbound) = 0
    BY <2>2 DEF Unbound
  <2>5. StreamTypes
    <3>1. sent \in Seq(Rec) /\ wire \in Seq(Rec) /\ body \in Seq(Rec) /\ binding.inbound \in Seq(Rec)
      BY <2>2 DEF Unbound
    <3>2. log \in Seq([seq : Nat, rec : Rec])
      BY <2>2
    <3>3. rxSeq \in Nat /\ Taken \in 0..Len(sent)
      BY <2>2, <2>3, <2>4
    <3> QED
      BY <2>2, <2>3, <3>1, <3>2, <3>3 DEF StreamTypes
  <2>6. Numbered /\ TicketsFirst /\ Captured /\ OnItsWay /\ CutAtDrain
    BY <2>1, <2>2, <2>3, <2>4, WitnessAssumption
    DEF Numbered, TicketsFirst, Captured, OnItsWay, CutAtDrain
  <2>7. SeqInStep /\ FailsOnlyOutOfStep
    BY <2>2, <2>3, <2>4 DEF SeqInStep, FailsOnlyOutOfStep, Drained, TicketsUncounted
  <2>8. Kept(sent, "app")[0] = <<>>
    BY <2>4, KeptStep
  <2>9. Assembled
    BY <2>2, <2>3, <2>4, <2>8 DEF Assembled
  <2>10. LoggedSince
    BY <2>2, <2>3, <2>4, WitnessAssumption DEF LoggedSince
  <2> QED
    BY <2>5, <2>6, <2>7, <2>9, <2>10 DEF StreamInv
<1>2. StreamInv /\ [Next]_vars => StreamInv'
  <2> SUFFICES ASSUME StreamInv, [Next]_vars PROVE StreamInv'
    OBVIOUS
  <2>1. \/ Server \/ Drain \/ ReadRecord \/ ReadRejected
        \/ SendRequest \/ ReadOutOfStep \/ ReadEnds \/ UNCHANGED vars
    BY DEF Next, Read
  <2> QED
    BY <2>1, InvServer, InvDrain, InvReads, InvRejects, InvStays
<1> QED
  BY <1>1, <1>2, PTL DEF Spec

\* A session fails only when the drain stopped inside a record, or when the two-party
\* mode began to count at zero behind tickets that rustls had opened.
THEOREM FailsForCause == Spec => []FailsOnlyOutOfStep
<1>1. StreamInv => FailsOnlyOutOfStep
  BY DEF StreamInv
<1> QED
  BY <1>1, StreamInductive, PTL

\* What run_legacy_demo and run_two_pc_traffic_demo assemble is a prefix of the
\* response, however tickets are drained, skipped or mixed into it.
THEOREM BodyBeginsResponse == Spec => []BodyIsPrefix
<1>1. StreamInv => BodyIsPrefix
  <2> SUFFICES ASSUME StreamInv PROVE BodyIsPrefix
    OBVIOUS
  <2>1. sent \in Seq(Rec)
    BY DEF StreamInv, StreamTypes
  <2>2. PICK i \in 0..Len(sent) : body = Kept(sent, "app")[i]
    BY DEF StreamInv, Assembled
  <2> QED
    BY <2>1, <2>2, KeptPrefix DEF BodyIsPrefix, OfKind
<1> QED
  BY <1>1, StreamInductive, PTL

\* A session that ends at the server's close_notify has the whole response, and a log
\* of every record from the hand-over on.
THEOREM AlertMeansComplete == Spec => []CompleteAtAlert
<1>1. StreamInv => CompleteAtAlert
  <2> SUFFICES ASSUME StreamInv, stage = "finished", Last(inbound).kind = "alert"
               PROVE  /\ body = OfKind("app")
                      /\ \E k \in 0..MaxTickets :
                           [i \in 1..Len(log) |-> log[i].rec] = SubSeq(sent, k + 1, Len(sent))
    BY DEF CompleteAtAlert
  <2> USE DEF StreamInv
  <2>1. /\ sent \in Seq(Rec) /\ Len(sent) \in Nat /\ Taken \in Nat /\ Taken <= Len(sent)
        /\ inbound \in Seq(Rec) /\ Len(inbound) = Taken + 2
        /\ log \in Seq([seq : Nat, rec : Rec]) /\ Len(log) \in Nat
    BY DEF StreamTypes, Taken
  <2>2. inbound[Taken + 2].kind = "alert"
    BY <2>1 DEF Last
  <2>3. Taken # 0
    BY <2>2 DEF Captured
  <2>4. Taken \in 1..Taken /\ Taken \in 1..Len(sent)
    BY <2>1, <2>3
  <2>5. sent[Taken].kind = "alert"
    BY <2>2, <2>4 DEF Captured
  <2>6. Taken = Len(sent)
    BY <2>4, <2>5 DEF Numbered
  <2>7. body = OfKind("app")
    BY <2>6 DEF Assembled, OfKind
  <2> DEFINE d == Taken - Len(log)
             recs == [i \in 1..Len(log) |-> log[i].rec]
  <2>8. d \in 0..MaxTickets /\ \A i \in 1..Len(log) : log[i].rec = sent[d + i]
    BY DEF LoggedSince
  <2>9. d \in Nat /\ d + Len(log) = Len(sent)
    BY <2>1, <2>6, <2>8
  <2>10. recs \in Seq(Rec) /\ Len(recs) = Len(log) /\ \A i \in 1..Len(log) : recs[i] = sent[d + i]
    BY <2>1, <2>8
  <2> HIDE DEF d, recs
  <2>11. /\ SubSeq(sent, d + 1, Len(sent)) \in Seq(Rec)
         /\ Len(SubSeq(sent, d + 1, Len(sent))) = Len(log)
         /\ \A i \in 1..Len(log) : SubSeq(sent, d + 1, Len(sent))[i] = sent[d + i]
    BY <2>1, <2>9
  <2>12. recs = SubSeq(sent, d + 1, Len(sent))
    BY <2>10, <2>11, SeqEqual
  <2> QED
    BY <2>7, <2>8, <2>12 DEF recs
<1> QED
  BY <1>1, StreamInductive, PTL

=============================================================================
