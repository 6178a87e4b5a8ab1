----------------------- MODULE HandshakeFlightProof -----------------------
(***************************************************************************)
(* Theorems about HandshakeFlight for every number of records the flight   *)
(* may be cut into and every number of records behind it, and about the    *)
(* readers of the bundle that is signed over such a capture.               *)
(***************************************************************************)
EXTENDS BundleReaders, FiniteSetTheorems, SequenceTheorems, WellFoundedInduction, TLAPS

\* Induction over the numbers, for a set of them.
LEMMA CountUp ==
  ASSUME NEW T, 0 \in T, \A n \in Nat : n \in T => n + 1 \in T
  PROVE  \A n \in Nat : n \in T
<1> DEFINE R == OpToRel(<, Nat)
           F == Nat \ T
<1> SUFFICES ASSUME F # {} PROVE FALSE
  OBVIOUS
<1>1. IsWellFoundedOn(R, Nat)
  BY NatLessThanWellFounded
<1>2. \E x \in F : \A y \in F : ~(<<y, x>> \in R)
  <2>1. F \subseteq Nat
    OBVIOUS
  <2> HIDE DEF R, F
  <2> QED
    BY <1>1, <2>1, WFMin
<1>3. PICK x \in F : \A y \in F : ~(y < x)
  BY <1>2 DEF OpToRel
<1>4. x - 1 \in Nat /\ x - 1 \notin F
  BY <1>3
<1> QED
  BY <1>4

-----------------------------------------------------------------------------
(* The records under each key, in a stream of three parts.                 *)

\* Which records these are.
LEMMA Parts ==
  ASSUME FlightTypes, NEW b, NEW h, Stream(b, h)
  PROVE  /\ b \in Nat \ {0} /\ h \in Nat /\ Len(inbound) \in Nat /\ b + h <= Len(inbound)
         /\ Under("plain") = 1..b
         /\ Under("hs") = (b + 1)..(b + h)
         /\ Under("app") = (b + h + 1)..Len(inbound)
<1>1. /\ b \in Nat \ {0} /\ h \in Nat /\ Len(inbound) \in Nat /\ b + h <= Len(inbound)
      /\ DOMAIN inbound = 1..Len(inbound)
  BY DEF FlightTypes, Stream, InTheClear, InFlight
<1>2. \A i \in 1..b : inbound[i].key = "plain"
  BY DEF Stream, InTheClear, Plain
<1>3. \A i \in (b + 1)..(b + h) : inbound[i].key = "hs"
  BY DEF Stream, InFlight
<1>4. \A i \in (b + h + 1)..Len(inbound) : inbound[i].key = "app"
  BY DEF Stream, InSession
<1> DEFINE n == Len(inbound)
<1>5. \A i \in 1..n : i \in 1..b \/ i \in (b + 1)..(b + h) \/ i \in (b + h + 1)..n
  <2> HIDE DEF n
  <2> QED
    BY <1>1
<1>6. \A i : /\ i \in 1..b => i \in 1..n
             /\ i \in (b + 1)..(b + h) => i \in 1..n
             /\ i \in (b + h + 1)..n => i \in 1..n
  <2>1. n \in Nat /\ b + h <= n
    BY <1>1
  <2> HIDE DEF n
  <2> QED
    BY <1>1, <2>1
<1>7. Under("plain") = 1..b
  BY <1>1, <1>2, <1>3, <1>4, <1>5, <1>6 DEF Under
<1>8. Under("hs") = (b + 1)..(b + h)
  BY <1>1, <1>2, <1>3, <1>4, <1>5, <1>6 DEF Under
<1>9. Under("app") = (b + h + 1)..Len(inbound)
  BY <1>1, <1>2, <1>3, <1>4, <1>5, <1>6 DEF Under
<1> QED
  BY <1>1, <1>7, <1>8, <1>9

\* How many they are.
LEMMA PartSizes ==
  ASSUME FlightTypes, NEW b, NEW h, Stream(b, h)
  PROVE  /\ Cardinality(Under("hs")) = h
         /\ Cardinality(Under("app")) = Len(inbound) - (b + h)
<1>1. /\ b \in Nat \ {0} /\ h \in Nat /\ Len(inbound) \in Nat /\ b + h <= Len(inbound)
      /\ Under("hs") = (b + 1)..(b + h) /\ Under("app") = (b + h + 1)..Len(inbound)
  BY Parts
<1>2. b + 1 \in Int /\ b + h \in Int /\ b + h + 1 \in Int /\ Len(inbound) \in Int
  BY <1>1
<1>3. Cardinality((b + 1)..(b + h)) = IF b + 1 > b + h THEN 0 ELSE (b + h) - (b + 1) + 1
  BY <1>2, FS_Interval
<1>4. Cardinality((b + h + 1)..Len(inbound)) =
        IF b + h + 1 > Len(inbound) THEN 0 ELSE Len(inbound) - (b + h + 1) + 1
  BY <1>2, FS_Interval
<1>5. Cardinality(Under("hs")) = h
  BY <1>1, <1>3
<1>6. Cardinality(Under("app")) = Len(inbound) - (b + h)
  BY <1>1, <1>4
<1> QED
  BY <1>5, <1>6

\* One more record leaves those in front of it as they are.
LEMMA Appended ==
  ASSUME FlightTypes, NEW r, inbound' = Append(inbound, r), inbound # <<>>
  PROVE  /\ Len(inbound') = Len(inbound) + 1 /\ Len(inbound') \in Nat
         /\ DOMAIN inbound' = 1..Len(inbound')
         /\ inbound'[Len(inbound) + 1] = r
         /\ \A i \in 1..Len(inbound) : inbound'[i] = inbound[i]
BY DEF FlightTypes

-----------------------------------------------------------------------------
(* The messages a reader holds.                                            *)

Names == {"CH", "CH2", "HRR", "SH", "EE", "CR", "Cert", "CV", "Fin", "none"}

\* The hellos and the first k messages of the flight.
SoFar(k) == Hellos \o SubSeq(flight, 1, k)

\* What the flight is made of: it ends in the one Finished.
LEMMA FlightShape ==
  ASSUME FlightTypes
  PROVE  /\ flight \in Seq(Names) /\ Len(flight) \in {4, 5}
         /\ DOMAIN flight = 1..Len(flight)
         /\ \A i \in 1..Len(flight) : flight[i] = "Fin" <=> i = Len(flight)
         /\ \A i \in 1..Len(flight) : flight[i] # "none"
         /\ \E i \in 1..Len(flight) : flight[i] = "Cert"
<1>1. CASE flight = <<"EE", "Cert", "CV", "Fin">>
  BY <1>1 DEF Names
<1>2. CASE flight = <<"EE", "CR", "Cert", "CV", "Fin">>
  BY <1>2 DEF Names
<1> QED
  BY <1>1, <1>2 DEF FlightTypes

\* The first captured hello of each side is the one it is read to begin with.
LEMMA HellosShape ==
  ASSUME FlightTypes, NEW b, InTheClear(b)
  PROVE  /\ ServerHello = inbound[1].what /\ ServerHello \in {"HRR", "SH"}
         /\ Hellos = <<"CH", ServerHello>> /\ Hellos \in Seq(Names) /\ Len(Hellos) = 2
<1> DEFINE hellos == { i \in DOMAIN inbound : inbound[i].outer = 22 }
           first == CHOOSE i \in hellos : \A j \in hellos : i <= j
<1>1. DOMAIN inbound = 1..Len(inbound) /\ Len(inbound) \in Nat /\ 1 \in 1..b /\ 1 \in 1..Len(inbound)
  BY DEF FlightTypes, InTheClear
<1>2. inbound[1] \in {Plain(22, "HRR"), Plain(22, "SH")}
  BY <1>1 DEF InTheClear
<1>3. inbound[1].outer = 22 /\ inbound[1].what \in {"HRR", "SH"}
  BY <1>2 DEF Plain
<1>4. 1 \in hellos /\ \A j \in hellos : j \in Nat /\ 1 <= j
  BY <1>1, <1>3
<1>5. first \in hellos /\ \A j \in hellos : first <= j
  <2> HIDE DEF hellos
  <2> QED
    BY <1>4
<1>6. first = 1
  <2>1. first \in Nat /\ 1 <= first /\ first <= 1
    BY <1>4, <1>5
  <2> HIDE DEF first
  <2> QED
    BY <2>1
<1>7. ServerHello = inbound[first].what
  BY DEF ServerHello, FirstHello
<1>8. ServerHello = inbound[1].what
  <2> HIDE DEF first
  <2> QED
    BY <1>6, <1>7
<1>9. Hellos = <<"CH", ServerHello>>
  <2>1. Head(outbound) = "CH"
    BY DEF FlightTypes
  <2> QED
    BY <2>1 DEF Hellos
<1>10. ServerHello \in {"HRR", "SH"}
  BY <1>3, <1>8
<1>11. ServerHello \in Names
  BY <1>10 DEF Names
<1>12. "CH" \in Names
  BY DEF Names
<1>13. <<"CH", ServerHello>> \in Seq(Names) /\ Len(<<"CH", ServerHello>>) = 2
  BY <1>11, <1>12
<1> QED
  BY <1>8, <1>9, <1>10, <1>13

\* What is held after k messages: no failure, and Finished only when all are there.
LEMMA SoFarShape ==
  ASSUME FlightTypes, NEW b, InTheClear(b), NEW k \in 0..Len(flight)
  PROVE  /\ SoFar(k) \in Seq(Names) /\ Len(SoFar(k)) = 2 + k
         /\ SoFar(k) # Fail
         /\ Holds(SoFar(k), "Fin") <=> k = Len(flight)
<1> DEFINE sub == SubSeq(flight, 1, k)
           L == Len(flight)
<1>1. /\ flight \in Seq(Names) /\ L \in {4, 5}
      /\ \A i \in 1..L : flight[i] = "Fin" <=> i = L
  BY FlightShape
<1>2. Hellos \in Seq(Names) /\ Len(Hellos) = 2 /\ Hellos = <<"CH", ServerHello>> /\ ServerHello \in {"HRR", "SH"}
  BY HellosShape
<1>3. \A i \in 1..k : flight[i] \in Names
  BY <1>1, ElementOfSeq
<1>4. sub \in Seq(Names) /\ Len(sub) = k /\ \A i \in 1..k : sub[i] = flight[i]
  <2>1. k \in Int /\ 1 \in Int /\ k \in Nat
    BY <1>1
  <2>2. /\ sub \in Seq(Names)
        /\ Len(sub) = IF 1 <= k THEN k - 1 + 1 ELSE 0
        /\ \A i \in 1..(k - 1 + 1) : sub[i] = flight[1 + i - 1]
    <3> DEFINE n == k
    <3>1. \A i \in 1..n : flight[i] \in Names
      BY <1>3
    <3>2. n \in Int /\ 1 \in Int
      BY <2>1
    <3> HIDE DEF n
    <3>3. SubSeq(flight, 1, n) \in Seq(Names)
      BY <3>1, <3>2, SubSeqProperties
    <3>4. Len(SubSeq(flight, 1, n)) = IF 1 <= n THEN n - 1 + 1 ELSE 0
      BY <3>1, <3>2, SubSeqProperties
    <3>5. \A i \in 1..(n - 1 + 1) : SubSeq(flight, 1, n)[i] = flight[1 + i - 1]
      BY <3>1, <3>2, SubSeqProperties
    <3> QED
      BY <3>3, <3>4, <3>5 DEF n
  <2>3. k - 1 + 1 = k /\ \A i \in 1..k : 1 + i - 1 = i
    BY <2>1
  <2> HIDE DEF sub
  <2>4. Len(sub) = k
    BY <2>1, <2>2
  <2>5. \A i \in 1..k : sub[i] = flight[i]
    BY <2>2, <2>3
  <2> QED
    BY <2>2, <2>4, <2>5
<1> HIDE DEF sub
<1>5. /\ SoFar(k) \in Seq(Names) /\ Len(SoFar(k)) = 2 + k
      /\ \A i \in 1..(2 + k) : SoFar(k)[i] = IF i <= 2 THEN Hellos[i] ELSE sub[i - 2]
  <2>1. /\ Hellos \o sub \in Seq(Names) /\ Len(Hellos \o sub) = Len(Hellos) + Len(sub)
        /\ \A i \in 1..(Len(Hellos) + Len(sub)) :
             (Hellos \o sub)[i] = IF i <= Len(Hellos) THEN Hellos[i] ELSE sub[i - Len(Hellos)]
    BY <1>2, <1>4, ConcatProperties
  <2>2. SoFar(k) = Hellos \o sub
    BY DEF SoFar, sub
  <2> QED
    BY <1>2, <1>4, <2>1, <2>2
<1>6. DOMAIN SoFar(k) = 1..(2 + k)
  BY <1>5, LenProperties
<1>7. SoFar(k) # Fail
  <2>1. Len(Fail) = 1
    BY DEF Fail
  <2>2. Len(SoFar(k)) = 2 + k /\ k \in Nat
    BY <1>1, <1>5
  <2>3. Len(SoFar(k)) # 1
    BY <2>2
  <2> QED
    BY <2>1, <2>3
<1>8. ASSUME NEW i \in 1..(2 + k), SoFar(k)[i] = "Fin" PROVE k = L
  <2>1. i \in Nat /\ k \in Nat /\ k <= L
    BY <1>1
  <2>2. i > 2
    <3>1. ASSUME i <= 2 PROVE FALSE
      <4>1. i \in {1, 2} /\ SoFar(k)[i] = Hellos[i]
        BY <1>5, <2>1, <3>1
      <4>2. Hellos[1] # "Fin" /\ Hellos[2] # "Fin"
        BY <1>2
      <4> QED
        BY <1>8, <4>1, <4>2
    <3> QED
      BY <2>1, <3>1
  <2>3. i - 2 \in 1..k /\ i - 2 \in 1..L
    BY <2>1, <2>2
  <2>4. SoFar(k)[i] = flight[i - 2]
    BY <1>4, <1>5, <2>2, <2>3
  <2>5. i - 2 = L
    BY <1>1, <1>8, <2>3, <2>4
  <2> QED
    BY <2>1, <2>3, <2>5
<1>9. ASSUME k = L PROVE Holds(SoFar(k), "Fin")
  <2>1. k \in 1..k /\ 2 + k \in 1..(2 + k) /\ ~(2 + k <= 2) /\ (2 + k) - 2 = k /\ k \in 1..L
    BY <1>1, <1>9
  <2>2. SoFar(k)[2 + k] = flight[k]
    BY <1>4, <1>5, <2>1
  <2> QED
    BY <1>1, <1>6, <1>9, <2>1, <2>2 DEF Holds
<1> QED
  BY <1>5, <1>6, <1>7, <1>8, <1>9 DEF Holds

\* The messages of the next record continue those held.
LEMMA SoFarGrows ==
  ASSUME FlightTypes, NEW b, InTheClear(b), NEW k \in 0..Len(flight), NEW m \in k..Len(flight)
  PROVE  SoFar(k) \o SubSeq(flight, k + 1, m) = SoFar(m)
<1>1. flight \in Seq(Names) /\ Len(flight) \in {4, 5}
  BY FlightShape
<1>2. Hellos \in Seq(Names)
  BY HellosShape
<1>3. /\ \A i \in 1..k : flight[i] \in Names
      /\ \A i \in (k + 1)..m : flight[i] \in Names
  <2>1. /\ \A i \in 1..k : i \in 1..Len(flight)
        /\ \A i \in (k + 1)..m : i \in 1..Len(flight)
    BY <1>1
  <2> QED
    BY <1>1, <2>1, ElementOfSeq
<1>4. k \in Int /\ m \in Int /\ k + 1 \in Int /\ 1 \in Int
  BY <1>1
<1>5. SubSeq(flight, 1, k) \in Seq(Names)
  BY <1>3, <1>4, SubSeqProperties, Zenon
<1>6. SubSeq(flight, k + 1, m) \in Seq(Names)
  BY <1>3, <1>4, SubSeqProperties, Zenon
<1>7. SubSeq(flight, 1, k) \o SubSeq(flight, k + 1, m) = SubSeq(flight, 1, m)
  <2>1. 1 \in 1..(Len(flight) + 1) /\ k \in (1 - 1)..Len(flight)
    BY <1>1
  <2> QED
    BY <1>1, <2>1, ConcatAdjacentSubSeq
<1>8. (Hellos \o SubSeq(flight, 1, k)) \o SubSeq(flight, k + 1, m)
        = Hellos \o (SubSeq(flight, 1, k) \o SubSeq(flight, k + 1, m))
  <2> DEFINE x == SubSeq(flight, 1, k)
             y == SubSeq(flight, k + 1, m)
  <2> HIDE DEF x, y
  <2> SUFFICES (Hellos \o x) \o y = Hellos \o (x \o y)
    BY DEF x, y
  <2>1. x \in Seq(Names) /\ y \in Seq(Names)
    BY <1>5, <1>6 DEF x, y
  <2> QED
    BY <1>2, <2>1, ConcatAssociative
<1> QED
  BY <1>7, <1>8 DEF SoFar

-----------------------------------------------------------------------------
(* The loop over the captured records.                                     *)

\* f is the state of the loop after each of the first n records.
Reads(parsed, f, n) ==
  f = [i \in 0..n |-> IF i = 0 THEN [seq |-> 0, msgs |-> Hellos] ELSE Hashed(parsed, f[i - 1], i)]

LEMMA ReadsExist ==
  ASSUME NEW parsed, NEW n \in Nat
  PROVE  \E f : Reads(parsed, f, n)
<1> DEFINE T == {m \in Nat : \E f : Reads(parsed, f, m)}
           start == [seq |-> 0, msgs |-> Hellos]
<1>1. 0 \in T
  <2>1. Reads(parsed, [i \in 0..0 |-> start], 0)
    BY DEF Reads
  <2> QED
    BY <2>1
<1>2. ASSUME NEW m \in Nat, m \in T PROVE m + 1 \in T
  <2>1. PICK f : Reads(parsed, f, m)
    BY <1>2
  <2> DEFINE last == Hashed(parsed, f[m], m + 1)
             g == [i \in 0..(m + 1) |-> IF i = m + 1 THEN last ELSE f[i]]
  <2>2. \A i \in 0..(m + 1) : g[i] = IF i = 0 THEN start ELSE Hashed(parsed, g[i - 1], i)
    <3> TAKE i \in 0..(m + 1)
    <3>1. CASE i = m + 1
      <4>1. m \in 0..(m + 1) /\ m # m + 1
        OBVIOUS
      <4>2. g[m] = f[m]
        BY <4>1
      <4>3. i # 0 /\ i - 1 = m /\ g[i] = last
        BY <3>1
      <4> HIDE DEF g
      <4> QED
        BY <3>1, <4>2, <4>3
    <3>2. CASE i # m + 1
      <4>1. i \in 0..m /\ g[i] = f[i]
        BY <3>2
      <4>2. CASE i = 0
        <5>1. f[0] = start
          BY <2>1, <4>1, <4>2 DEF Reads
        <5> QED
          BY <4>1, <4>2, <5>1
      <4>3. CASE i # 0
        <5>1. i - 1 \in 0..(m + 1) /\ i - 1 # m + 1
          BY <4>1, <4>3
        <5>2. g[i - 1] = f[i - 1]
          BY <5>1
        <5>3. f[i] = Hashed(parsed, f[i - 1], i)
          BY <2>1, <4>1, <4>3 DEF Reads
        <5> HIDE DEF g
        <5> QED
          BY <4>1, <4>3, <5>2, <5>3
      <4> QED
        BY <4>2, <4>3
    <3> QED
      BY <3>1, <3>2
  <2>3. DOMAIN g = 0..(m + 1)
    OBVIOUS
  <2>4. g = [i \in DOMAIN g |-> g[i]]
    OBVIOUS
  <2>5. Reads(parsed, g, m + 1)
    <3> HIDE DEF g
    <3> QED
      BY <2>2, <2>3, <2>4 DEF Reads
  <2> QED
    BY <2>5
<1>3. \A m \in Nat : m \in T
  <2> HIDE DEF T
  <2> QED
    BY <1>1, <1>2, CountUp
<1> QED
  BY <1>3

\* One record at a time.
LEMMA ReadingStep ==
  ASSUME NEW parsed, Len(inbound) \in Nat
  PROVE  /\ Reading(parsed)[0] = [seq |-> 0, msgs |-> Hellos]
         /\ \A i \in 1..Len(inbound) : Reading(parsed)[i] = Hashed(parsed, Reading(parsed)[i - 1], i)
<1> DEFINE start == [seq |-> 0, msgs |-> Hellos]
           n == Len(inbound)
           h == CHOOSE f : f = [i \in 0..n |-> IF i = 0 THEN start ELSE Hashed(parsed, f[i - 1], i)]
<1>1. \E f : f = [i \in 0..n |-> IF i = 0 THEN start ELSE Hashed(parsed, f[i - 1], i)]
  <2>1. PICK f : Reads(parsed, f, n)
    BY ReadsExist
  <2> WITNESS f
  <2> QED
    BY <2>1 DEF Reads
<1>2. h = [i \in 0..n |-> IF i = 0 THEN start ELSE Hashed(parsed, h[i - 1], i)]
  BY <1>1
<1>3. Reading(parsed) = h
  BY DEF Reading
<1> HIDE DEF h
<1>4. h[0] = start
  BY <1>2
<1>5. ASSUME NEW i \in 1..n PROVE h[i] = Hashed(parsed, h[i - 1], i)
  <2>1. i \in 0..n /\ i # 0
    OBVIOUS
  <2> QED
    BY <1>2, <2>1
<1> QED
  BY <1>3, <1>4, <1>5

\* A record that is no ciphertext changes nothing, and none does once a reading has
\* failed or holds Finished.
LEMMA Passed ==
  ASSUME NEW parsed, NEW state, NEW i,
         inbound[i].outer # 23 \/ Holds(state.msgs, "Fin") \/ state.msgs = Fail
  PROVE  Hashed(parsed, state, i) = state
BY DEF Hashed

\* Nothing is hashed of the records in the clear.
LEMMA ReadInTheClear ==
  ASSUME FlightTypes, NEW b, InTheClear(b), NEW parsed
  PROVE  \A n \in 0..b : Reading(parsed)[n] = [seq |-> 0, msgs |-> Hellos]
<1> DEFINE start == [seq |-> 0, msgs |-> Hellos]
           T == {n \in Nat : n <= b => Reading(parsed)[n] = start}
<1>0. Len(inbound) \in Nat /\ b \in Nat /\ b <= Len(inbound)
  BY DEF FlightTypes, InTheClear
<1>1. 0 \in T
  BY <1>0, ReadingStep
<1>2. ASSUME NEW n \in Nat, n \in T PROVE n + 1 \in T
  <2> SUFFICES ASSUME n + 1 <= b PROVE Reading(parsed)[n + 1] = start
    OBVIOUS
  <2>1. n + 1 \in 1..Len(inbound) /\ n + 1 \in 1..b /\ (n + 1) - 1 = n /\ n <= b
    BY <1>0
  <2>2. Reading(parsed)[n] = start
    BY <1>2, <2>1
  <2>3. Reading(parsed)[n + 1] = Hashed(parsed, Reading(parsed)[n], n + 1)
    BY <1>0, <2>1, ReadingStep
  <2>4. inbound[n + 1].outer # 23
    BY <2>1 DEF InTheClear, Plain
  <2> QED
    BY <2>2, <2>3, <2>4, Passed
<1>3. \A n \in Nat : n \in T
  <2> HIDE DEF T
  <2> QED
    BY <1>1, <1>2, CountUp
<1> QED
  BY <1>0, <1>3

\* A reading of the records that finds what is in them, or fails at one of them or
\* before it.
FailedBefore(parsed, i) == \E j \in Under("hs") : j < i /\ parsed[j] = Fail
Found(parsed) == \A i \in Under("hs") :
  parsed[i] \in {Fail, Ended(inbound[i].what)} \/ FailedBefore(parsed, i)

\* And one that finds it all.
FoundAll(parsed) == \A i \in Under("hs") : parsed[i] = Ended(inbound[i].what)

\* The state of the loop behind record n of the flight.
Held(state, b, n) ==
  /\ state.seq = n - b
  /\ state.msgs = SoFar(Reach(b, n) \div 3)

\* How far a record of the flight brings it.
LEMMA Reached ==
  ASSUME FlightTypes, NEW b, NEW h, Stream(b, h), NEW n \in b..(b + h)
  PROVE  /\ Reach(b, n) \in 0..All /\ Reach(b, n) \div 3 \in 0..Len(flight)
         /\ Reach(b, n) < All => Reach(b, n) \div 3 < Len(flight)
<1>1. Len(flight) \in {4, 5} /\ All = 3 * Len(flight)
  <2>1. Len(flight) \in {4, 5}
    BY FlightShape
  <2> QED
    BY <2>1 DEF All
<1>2. b \in Nat /\ h \in Nat
  BY Parts
<1>3. Reach(b, n) \in 0..All
  <2>1. CASE n <= b
    BY <1>1, <2>1 DEF Reach
  <2>2. CASE n > b
    <3>1. n \in (b + 1)..(b + h) /\ ~(n <= b)
      BY <1>2, <2>2
    <3>2. inbound[n].what.to \in 1..All
      BY <3>1 DEF Stream, InFlight
    <3> QED
      BY <1>1, <3>1, <3>2 DEF Reach
  <2> QED
    BY <1>2, <2>1, <2>2
<1>4. \A L \in {4, 5} : \A r \in 0..(3 * L) : r \div 3 \in 0..L /\ (r < 3 * L => r \div 3 < L)
  OBVIOUS
<1> QED
  BY <1>1, <1>3, <1>4

\* The messages of a record are never taken for a failure.
LEMMA EndedShape ==
  ASSUME FlightTypes, NEW b, NEW h, Stream(b, h), NEW i \in (b + 1)..(b + h)
  PROVE  /\ i - 1 \in b..(b + h) /\ i \in b..(b + h)
         /\ inbound[i].what.from = Reach(b, i - 1) /\ inbound[i].what.to = Reach(b, i)
         /\ Reach(b, i - 1) < Reach(b, i)
         /\ Reach(b, i - 1) \div 3 <= Reach(b, i) \div 3
         /\ Ended(inbound[i].what) # Fail
<1>1. b \in Nat /\ h \in Nat /\ i \in Nat /\ b < i /\ i <= b + h
  BY Parts
<1>2. i - 1 \in b..(b + h) /\ i \in b..(b + h) /\ ~(i <= b)
  BY <1>1
<1>3. /\ inbound[i].what.from = Reach(b, i - 1) /\ inbound[i].what.from < inbound[i].what.to
      /\ inbound[i].what.to = Reach(b, i)
  BY <1>2 DEF Stream, InFlight, Reach
<1> DEFINE k == Reach(b, i - 1) \div 3
           m == Reach(b, i) \div 3
           L == Len(flight)
<1>4. Len(flight) \in {4, 5} /\ \A j \in 1..Len(flight) : flight[j] # "none"
  BY FlightShape
<1>5. k \in 0..L /\ m \in 0..L /\ k <= m
  <2>1. k \in 0..L /\ m \in 0..L
    BY <1>2, Reached
  <2>2. Reach(b, i - 1) \in 0..All /\ Reach(b, i) \in 0..All /\ All = 3 * L
    BY <1>2, Reached DEF All
  <2>3. \A x, y \in 0..15 : x < y => x \div 3 <= y \div 3
    OBVIOUS
  <2>4. Reach(b, i - 1) \in 0..15 /\ Reach(b, i) \in 0..15
    <3>1. L \in {4, 5}
      BY <1>4
    <3>2. All = 3 * L
      BY DEF All
    <3> HIDE DEF k, m, L
    <3>3. All \in {12, 15}
      BY <3>1, <3>2
    <3>4. Reach(b, i - 1) \in 0..All
      BY <2>2
    <3>5. Reach(b, i) \in 0..All
      BY <2>2
    <3>6. \A A \in {12, 15} : \A r \in 0..A : r \in 0..15
      OBVIOUS
    <3> QED
      BY <3>3, <3>4, <3>5, <3>6
  <2> QED
    BY <1>3, <2>1, <2>3, <2>4
<1>6. Ended(inbound[i].what) = SubSeq(flight, k + 1, m)
  BY <1>3 DEF Ended
<1>7. SubSeq(flight, k + 1, m) # Fail
  <2> HIDE DEF k, m
  <2> SUFFICES ASSUME SubSeq(flight, k + 1, m) = Fail PROVE FALSE
    OBVIOUS
  <2>1. Len(Fail) = 1 /\ Fail[1] = "none"
    BY DEF Fail
  <2>2. k + 1 \in Int /\ m \in Int
    BY <1>4, <1>5
  <2>3. flight \in Seq(Names) /\ \A j \in (k + 1)..m : j \in 1..L
    <3>1. \A j \in (k + 1)..m : j \in 1..L
      BY <1>4, <1>5
    <3> QED
      BY <3>1, FlightShape
  <2>4. \A j \in (k + 1)..m : flight[j] \in Names
    BY <2>3, ElementOfSeq
  <2>5. Len(SubSeq(flight, k + 1, m)) = IF k + 1 <= m THEN m - (k + 1) + 1 ELSE 0
    BY <2>2, <2>4, SubSeqProperties
  <2>6. \A j \in 1..(m - (k + 1) + 1) : SubSeq(flight, k + 1, m)[j] = flight[(k + 1) + j - 1]
    BY <2>2, <2>4, SubSeqProperties
  <2>7. m = k + 1
    <3>1. Len(SubSeq(flight, k + 1, m)) = 1
      BY <2>1
    <3> QED
      BY <2>2, <2>5, <3>1
  <2>8. 1 \in 1..(m - (k + 1) + 1) /\ (k + 1) + 1 - 1 = m /\ m \in 1..L
    BY <1>4, <1>5, <2>7
  <2>9. SubSeq(flight, k + 1, m)[1] = flight[m]
    BY <2>6, <2>8
  <2> QED
    BY <1>4, <2>1, <2>8, <2>9
<1> QED
  BY <1>2, <1>3, <1>5, <1>6, <1>7

\* What a record of the flight adds to the messages in front of it.
LEMMA ReadRecord ==
  ASSUME FlightTypes, NEW b, NEW h, Stream(b, h), NEW parsed, NEW i \in (b + 1)..(b + h),
         parsed[i] \in {Fail, Ended(inbound[i].what)},
         NEW state, Held(state, b, i - 1)
  PROVE  /\ parsed[i] = Fail => Hashed(parsed, state, i).msgs = Fail
         /\ parsed[i] # Fail => Held(Hashed(parsed, state, i), b, i)
<1> DEFINE k == Reach(b, i - 1) \div 3
           m == Reach(b, i) \div 3
           L == Len(flight)
<1>1. /\ i - 1 \in b..(b + h) /\ i \in b..(b + h)
      /\ inbound[i].what.from = Reach(b, i - 1) /\ inbound[i].what.to = Reach(b, i)
      /\ Reach(b, i - 1) < Reach(b, i) /\ k <= m
  BY EndedShape
<1>2. InTheClear(b) /\ i \in Nat /\ b \in Nat /\ i \in Under("hs")
  BY Parts DEF Stream
<1>3. /\ L \in {4, 5} /\ k \in 0..L /\ m \in 0..L /\ k < L
      /\ m \in k..L
  <2>1. L \in {4, 5}
    BY FlightShape
  <2>2. /\ Reach(b, i - 1) \in 0..All /\ k \in 0..L /\ (Reach(b, i - 1) < All => k < L)
        /\ Reach(b, i) \in 0..All /\ m \in 0..L
    BY <1>1, Reached
  <2>3. All = 3 * L
    BY DEF All
  <2>4. Reach(b, i - 1) < All
    BY <1>1, <2>1, <2>2, <2>3
  <2> HIDE DEF k, m
  <2> QED
    BY <1>1, <2>1, <2>2, <2>4
<1>4. state.seq = i - 1 - b /\ state.msgs = SoFar(k)
  BY DEF Held
<1>5. state.msgs # Fail /\ ~Holds(state.msgs, "Fin")
  <2> HIDE DEF k
  <2> QED
    BY <1>2, <1>3, <1>4, SoFarShape
<1>6. /\ inbound[i].outer = 23 /\ inbound[i].seq = i - (b + 1)
  BY DEF Stream, InFlight
<1>7. inbound[i].seq = state.seq /\ state.seq + 1 = i - b
  BY <1>2, <1>4, <1>6
<1>8. Hashed(parsed, state, i) =
        [seq |-> i - b, msgs |-> IF parsed[i] = Fail THEN Fail ELSE state.msgs \o parsed[i]]
  BY <1>2, <1>5, <1>6, <1>7 DEF Hashed, Opens
<1>9. ASSUME parsed[i] # Fail PROVE Held(Hashed(parsed, state, i), b, i)
  <2>1. parsed[i] = SubSeq(flight, k + 1, m)
    BY <1>1, <1>9 DEF Ended
  <2> HIDE DEF k, m
  <2>2. SoFar(k) \o SubSeq(flight, k + 1, m) = SoFar(m)
    BY <1>2, <1>3, SoFarGrows
  <2>3. /\ Hashed(parsed, state, i).seq = i - b
        /\ Hashed(parsed, state, i).msgs = SoFar(m)
    <3>1. state.msgs \o parsed[i] = SoFar(m)
      BY <1>4, <2>1, <2>2, Zenon
    <3>2. Hashed(parsed, state, i) = [seq |-> i - b, msgs |-> state.msgs \o parsed[i]]
      BY <1>8, <1>9
    <3>3. Hashed(parsed, state, i) = [seq |-> i - b, msgs |-> SoFar(m)]
      BY <3>1, <3>2, Zenon
    <3> QED
      BY <3>3
  <2> QED
    BY <2>3 DEF Held, m
<1>10. ASSUME parsed[i] = Fail PROVE Hashed(parsed, state, i).msgs = Fail
  BY <1>8, <1>10
<1> QED
  BY <1>9, <1>10

\* What is held behind each record of the flight.
LEMMA ReadTheFlight ==
  ASSUME FlightTypes, NEW b, NEW h, Stream(b, h), NEW parsed, Found(parsed)
  PROVE  \A n \in b..(b + h) :
           /\ Reading(parsed)[n].msgs = Fail \/ Held(Reading(parsed)[n], b, n)
           /\ FoundAll(parsed) => Held(Reading(parsed)[n], b, n)
<1> DEFINE NoneFailed(n) == \A j \in (b + 1)..n : parsed[j] # Fail
           Right(n) == /\ Reading(parsed)[n].msgs = Fail \/ (Held(Reading(parsed)[n], b, n) /\ NoneFailed(n))
                       /\ FoundAll(parsed) => Held(Reading(parsed)[n], b, n)
           T == {d \in Nat : d <= h => Right(b + d)}
<1>0. /\ b \in Nat /\ h \in Nat /\ Len(inbound) \in Nat /\ b + h <= Len(inbound)
      /\ Under("hs") = (b + 1)..(b + h) /\ InTheClear(b)
  BY Parts DEF Stream
<1>1. 0 \in T
  <2>1. b \in 0..b /\ b + 0 = b /\ b - b = 0 /\ b <= b
    BY <1>0
  <2>2. Reading(parsed)[b] = [seq |-> 0, msgs |-> Hellos]
    BY <1>0, <2>1, ReadInTheClear
  <2>3. Reach(b, b) \div 3 = 0
    BY <2>1 DEF Reach
  <2>4. SoFar(0) = Hellos
    <3>1. SubSeq(flight, 1, 0) = <<>>
      BY SubSeqEmpty
    <3>2. Hellos \in Seq(Names)
      BY <1>0, HellosShape
    <3> QED
      BY <3>1, <3>2, ConcatEmptySeq DEF SoFar
  <2>5. Held(Reading(parsed)[b], b, b)
    BY <2>1, <2>2, <2>3, <2>4 DEF Held
  <2>6. NoneFailed(b)
    BY <1>0
  <2> QED
    BY <2>1, <2>5, <2>6
<1>2. ASSUME NEW d \in Nat, d \in T PROVE d + 1 \in T
  <2> DEFINE i == b + (d + 1)
  <2> SUFFICES ASSUME d + 1 <= h PROVE Right(i)
    OBVIOUS
  <2>1. /\ i \in (b + 1)..(b + h) /\ i - 1 = b + d /\ d <= h
        /\ i \in 1..Len(inbound)
    BY <1>0
  <2>2. Right(i - 1)
    BY <1>2, <2>1
  <2>3. Reading(parsed)[i] = Hashed(parsed, Reading(parsed)[i - 1], i)
    BY <1>0, <2>1, ReadingStep
  <2>4. ASSUME NoneFailed(i - 1) PROVE parsed[i] \in {Fail, Ended(inbound[i].what)}
    <3>1. \A j \in (b + 1)..(b + h) : j < i => j \in (b + 1)..(i - 1)
      BY <1>0, <2>1
    <3>2. ~FailedBefore(parsed, i)
      <4> HIDE DEF i
      <4> QED
        BY <1>0, <2>4, <3>1 DEF FailedBefore
    <3> QED
      BY <1>0, <2>1, <3>2 DEF Found
  <2>5. FoundAll(parsed) => parsed[i] # Fail
    <3>1. Ended(inbound[i].what) # Fail
      BY <2>1, EndedShape
    <3> QED
      BY <1>0, <2>1, <3>1 DEF FoundAll
  <2> HIDE DEF i
  <2>6. ASSUME Held(Reading(parsed)[i - 1], b, i - 1), NoneFailed(i - 1)
        PROVE  Reading(parsed)[i].msgs = Fail \/ (Held(Reading(parsed)[i], b, i) /\ NoneFailed(i))
    <3>1. CASE parsed[i] = Fail
      BY <2>1, <2>3, <2>4, <2>6, <3>1, ReadRecord
    <3>2. CASE parsed[i] # Fail
      <4>1. Held(Reading(parsed)[i], b, i)
        BY <2>1, <2>3, <2>4, <2>6, <3>2, ReadRecord
      <4>2. \A j \in (b + 1)..i : j \in (b + 1)..(i - 1) \/ j = i
        BY <1>0, <2>1
      <4> QED
        BY <2>6, <3>2, <4>1, <4>2
    <3> QED
      BY <3>1, <3>2
  <2>7. ASSUME Held(Reading(parsed)[i - 1], b, i - 1), FoundAll(parsed)
        PROVE  Held(Reading(parsed)[i], b, i)
    <3>1. parsed[i] \in {Fail, Ended(inbound[i].what)} /\ parsed[i] # Fail
      BY <1>0, <2>1, <2>5, <2>7 DEF FoundAll
    <3> QED
      BY <2>1, <2>3, <2>7, <3>1, ReadRecord
  <2>8. ASSUME Reading(parsed)[i - 1].msgs = Fail PROVE Reading(parsed)[i].msgs = Fail
    BY <2>3, <2>8, Passed
  <2> HIDE DEF NoneFailed
  <2> QED
    BY <2>2, <2>6, <2>7, <2>8
<1>3. \A d \in Nat : d \in T
  <2> HIDE DEF T
  <2> QED
    BY <1>1, <1>2, CountUp
<1>4. ASSUME NEW n \in b..(b + h) PROVE Right(n)
  <2>1. n - b \in Nat /\ n - b <= h /\ b + (n - b) = n
    BY <1>0
  <2>2. n - b \in T
    BY <1>3, <2>1
  <2> QED
    BY <2>1, <2>2
<1> QED
  BY <1>4

\* Behind a failure or Finished nothing more is hashed.
LEMMA ReadBehind ==
  ASSUME Len(inbound) \in Nat, NEW parsed, NEW e \in 0..Len(inbound),
         Reading(parsed)[e].msgs = Fail \/ Holds(Reading(parsed)[e].msgs, "Fin")
  PROVE  \A n \in e..Len(inbound) : Reading(parsed)[n] = Reading(parsed)[e]
<1> DEFINE T == {d \in Nat : e + d <= Len(inbound) => Reading(parsed)[e + d] = Reading(parsed)[e]}
<1>1. 0 \in T
  OBVIOUS
<1>2. ASSUME NEW d \in Nat, d \in T PROVE d + 1 \in T
  <2> SUFFICES ASSUME e + (d + 1) <= Len(inbound)
               PROVE  Reading(parsed)[e + (d + 1)] = Reading(parsed)[e]
    OBVIOUS
  <2>1. e + (d + 1) \in 1..Len(inbound) /\ (e + (d + 1)) - 1 = e + d /\ e + d <= Len(inbound)
    OBVIOUS
  <2>2. Reading(parsed)[e + d] = Reading(parsed)[e]
    BY <1>2, <2>1
  <2>3. Reading(parsed)[e + (d + 1)] = Hashed(parsed, Reading(parsed)[e + d], e + (d + 1))
    BY <2>1, ReadingStep
  <2> QED
    BY <2>2, <2>3, Passed
<1>3. \A d \in Nat : d \in T
  <2> HIDE DEF T
  <2> QED
    BY <1>1, <1>2, CountUp
<1>4. ASSUME NEW n \in e..Len(inbound) PROVE Reading(parsed)[n] = Reading(parsed)[e]
  <2>1. n - e \in Nat /\ e + (n - e) = n /\ n <= Len(inbound)
    OBVIOUS
  <2>2. n - e \in T
    BY <1>3, <2>1
  <2> QED
    BY <2>1, <2>2
<1> QED
  BY <1>4

\* Every message of the flight behind the hellos.
LEMMA SoFarAll ==
  ASSUME FlightTypes, NEW b, InTheClear(b)
  PROVE  /\ KeyShare <=> ~Retried
         /\ ~Retried => SoFar(Len(flight)) = Whole
<1>1. flight \in Seq(Names) /\ Len(flight) \in Nat
  <2>1. flight \in Seq(Names) /\ Len(flight) \in {4, 5}
    BY FlightShape
  <2> QED
    BY <2>1
<1>2. SubSeq(flight, 1, Len(flight)) = flight
  BY <1>1, SubSeqFull
<1>3. /\ ServerHello = inbound[1].what /\ ServerHello \in {"HRR", "SH"}
      /\ Hellos = <<"CH", ServerHello>>
  BY HellosShape
<1>4. KeyShare <=> ~Retried
  BY <1>3 DEF KeyShare, Retried
<1>5. ASSUME ~Retried PROVE SoFar(Len(flight)) = Whole
  <2>1. Hellos = <<"CH", "SH">> /\ Sent = <<"CH", "SH">>
    BY <1>3, <1>4, <1>5 DEF Sent, KeyShare
  <2>2. SoFar(Len(flight)) = Hellos \o flight
    BY <1>2, Zenon DEF SoFar
  <2> QED
    BY <2>1, <2>2, Zenon DEF Whole
<1> QED
  BY <1>4, <1>5

\* A reading of the whole flight, wherever it is cut, hashes what the server sent or
\* fails, and hashes it if it finds all that is in the records.
LEMMA TranscriptOfFlight ==
  ASSUME FlightTypes, NEW b, NEW h, Stream(b, h), cut = All, NEW parsed, Found(parsed)
  PROVE  /\ Transcript(parsed) \in {Whole, Fail}
         /\ FoundAll(parsed) /\ ~Retried => Transcript(parsed) = Whole
<1> DEFINE e == b + h
           n == Len(inbound)
           L == Len(flight)
           msgs == Reading(parsed)[n].msgs
<1>1. /\ b \in Nat /\ h \in Nat /\ n \in Nat /\ e <= n /\ e \in b..e /\ e \in 0..n /\ n \in e..n
      /\ InTheClear(b)
  <2>1. b \in Nat /\ h \in Nat /\ Len(inbound) \in Nat /\ b + h <= Len(inbound)
    BY Parts
  <2>2. InTheClear(b)
    BY DEF Stream
  <2> QED
    BY <2>1, <2>2
<1>2. L \in {4, 5} /\ L \in 0..L
  <2>1. L \in {4, 5}
    BY FlightShape
  <2> QED
    BY <2>1
<1>3. Reach(b, e) \div 3 = L
  <2>1. Reach(b, e) = 3 * L
    BY DEF Stream, InFlight, All
  <2>2. \A l \in {4, 5} : (3 * l) \div 3 = l
    OBVIOUS
  <2> QED
    BY <1>2, <2>1, <2>2
<1>4. Len(SoFar(L)) = 2 + L /\ SoFar(L) # Fail /\ Holds(SoFar(L), "Fin")
  BY <1>1, <1>2, SoFarShape
<1>5. ASSUME NEW state, Held(state, b, e) PROVE state.msgs = SoFar(L)
  BY <1>3, <1>5 DEF Held
<1>6. /\ Reading(parsed)[e].msgs \in {Fail, SoFar(L)}
      /\ FoundAll(parsed) => Reading(parsed)[e].msgs = SoFar(L)
  <2>1. /\ Reading(parsed)[e].msgs = Fail \/ Held(Reading(parsed)[e], b, e)
        /\ FoundAll(parsed) => Held(Reading(parsed)[e], b, e)
    BY <1>1, ReadTheFlight
  <2> HIDE DEF e, L
  <2> QED
    BY <1>5, <2>1
<1>7. Reading(parsed)[n] = Reading(parsed)[e]
  <2>1. Reading(parsed)[e].msgs = Fail \/ Holds(Reading(parsed)[e].msgs, "Fin")
    BY <1>4, <1>6
  <2> HIDE DEF e
  <2> QED
    BY <1>1, <2>1, ReadBehind
<1>8. msgs \in {Fail, SoFar(L)} /\ (FoundAll(parsed) => msgs = SoFar(L))
  BY <1>6, <1>7
<1>9. Transcript(parsed) = IF KeyShare /\ Holds(msgs, "Fin") /\ Len(msgs) >= 6 THEN msgs ELSE Fail
  BY DEF Transcript
<1>10. (KeyShare <=> ~Retried) /\ (~Retried => SoFar(L) = Whole)
  BY <1>1, SoFarAll
<1> HIDE DEF msgs
<1>11. ASSUME Retried PROVE Transcript(parsed) = Fail
  BY <1>9, <1>10, <1>11
<1>12. ASSUME ~Retried, msgs = SoFar(L) PROVE Transcript(parsed) = Whole
  <2>1. KeyShare /\ Holds(msgs, "Fin") /\ Len(msgs) >= 6
    <3>1. KeyShare
      BY <1>10, <1>12
    <3>2. Holds(msgs, "Fin")
      BY <1>4, <1>12
    <3>3. Len(msgs) >= 6
      <4>1. Len(msgs) = 2 + L
        BY <1>4, <1>12, Zenon
      <4> HIDE DEF L
      <4> QED
        BY <1>2, <4>1
    <3> QED
      BY <3>1, <3>2, <3>3
  <2> QED
    BY <1>9, <1>10, <1>12, <2>1
<1>13. ASSUME msgs = Fail PROVE Transcript(parsed) = Fail
  BY <1>9, <1>13
<1> QED
  BY <1>8, <1>11, <1>12, <1>13

-----------------------------------------------------------------------------
(* What each reader makes of the records.                                  *)

\* A record cut between messages is read whole by both; the notary may read
\* less of one that is not, but never other messages unless it begins inside a header.
LEMMA Readings ==
  ASSUME FlightTypes, NEW b, NEW h, Stream(b, h), NEW parsed
  PROVE  /\ parsed \in Parses(NotaryMessages) /\ ~HeaderCut => Found(parsed)
         /\ parsed \in Parses(GuestMessages) => Found(parsed)
         /\ Aligned /\ parsed \in Parses(NotaryMessages) => FoundAll(parsed)
         /\ Aligned /\ parsed \in Parses(GuestMessages) => FoundAll(parsed)
<1>1. ASSUME NEW i \in Under("hs"), parsed \in Parses(NotaryMessages)
      PROVE  parsed[i] \in NotaryMessages(inbound[i].what)
  BY <1>1 DEF Parses
<1>2. ASSUME NEW i \in Under("hs"), parsed \in Parses(GuestMessages)
      PROVE  parsed[i] \in GuestMessages(inbound[i].what)
  BY <1>2 DEF Parses
<1>3. ASSUME NEW p, First(p) = "h"
      PROVE  NotaryMessages(p) = {IF Final(p) = "t" THEN Fail ELSE Ended(p)}
  BY <1>3 DEF NotaryMessages
<1>4. ASSUME NEW p PROVE GuestMessages(p) \subseteq {Fail, Ended(p)}
  BY DEF GuestMessages
<1>5. ASSUME NEW p, First(p) = "h", Final(p) = "b"
      PROVE  NotaryMessages(p) = {Ended(p)} /\ GuestMessages(p) = {Ended(p)}
  <2>1. Final(p) # "t"
    BY <1>5
  <2> QED
    BY <1>5, <2>1 DEF NotaryMessages, GuestMessages
<1>6. ASSUME parsed \in Parses(NotaryMessages), ~HeaderCut PROVE Found(parsed)
  <2> DEFINE At(i) == inbound[i].what
             Bad(i) == First(At(i)) # "h" /\ ~FailedBefore(parsed, i)
  <2>1. /\ b \in Nat /\ h \in Nat /\ Under("hs") = (b + 1)..(b + h)
        /\ \A i \in (b + 1)..(b + h) : First(At(i)) # "t"
    BY <1>6, Parts DEF HeaderCut
  <2>2. ASSUME NEW i \in (b + 1)..(b + h), First(At(i)) # "h", ~FailedBefore(parsed, i)
        PROVE  i - 1 \in (b + 1)..(b + h) /\ Bad(i - 1)
    <3>1. /\ i - 1 \in b..(b + h) /\ At(i).from = Reach(b, i - 1)
          /\ Reach(b, i - 1) \in 0..All /\ All \in 0..15
      <4>1. All \in 0..15
        <5>1. Len(flight) \in {4, 5} /\ All = 3 * Len(flight)
          BY FlightShape DEF All
        <5>2. \A l \in {4, 5} : 3 * l \in 0..15
          OBVIOUS
        <5> QED
          BY <5>1, <5>2
      <4> QED
        BY <4>1, EndedShape, Reached
    <3>2. At(i).from % 3 = 2
      <4>1. \A n \in 0..15 : n % 3 \in {0, 1, 2}
        OBVIOUS
      <4>2. At(i).from \in 0..15
        BY <3>1
      <4>3. First(At(i)) = <<"h", "t", "b">>[(At(i).from % 3) + 1]
        BY DEF First
      <4>4. First(At(i)) # "t"
        BY <2>1
      <4>5. At(i).from % 3 \in {0, 1, 2}
        BY <4>1, <4>2
      <4> HIDE DEF At
      <4> QED
        BY <2>2, <4>3, <4>4, <4>5
    <3>3. i - 1 \in (b + 1)..(b + h)
      <4>1. i - 1 # b
        <5> SUFFICES ASSUME i - 1 = b PROVE FALSE
          OBVIOUS
        <5>1. Reach(b, i - 1) = 0
          BY <2>1 DEF Reach
        <5> QED
          BY <3>1, <3>2, <5>1
      <4> QED
        BY <2>1, <3>1, <4>1
    <3>4. Final(At(i - 1)) = "t"
      <4>1. At(i - 1).to = Reach(b, i - 1)
        BY <3>3, EndedShape
      <4>2. At(i - 1).to % 3 = 2
        BY <3>1, <3>2, <4>1
      <4> QED
        BY <4>2 DEF Final
    <3>5. i - 1 \in Under("hs") /\ i - 1 < i
      BY <2>1, <3>3
    <3>6. parsed[i - 1] # Fail
      BY <2>2, <3>5 DEF FailedBefore
    <3>7. First(At(i - 1)) # "h"
      BY <1>1, <1>3, <1>6, <3>4, <3>5, <3>6
    <3>8. ~FailedBefore(parsed, i - 1)
      <4>1. \A j \in (b + 1)..(b + h) : j < i - 1 => j < i
        BY <2>1
      <4> QED
        BY <2>1, <2>2, <4>1 DEF FailedBefore
    <3> QED
      BY <3>3, <3>7, <3>8
  <2> DEFINE T == {d \in Nat : d < h => ~Bad(b + (d + 1))}
  <2>3. 0 \in T
    <3>1. ASSUME 0 < h, Bad(b + 1) PROVE FALSE
      <4>1. b + 1 \in (b + 1)..(b + h) /\ (b + 1) - 1 \notin (b + 1)..(b + h)
        BY <2>1, <3>1
      <4> HIDE DEF At
      <4> QED
        BY <2>2, <3>1, <4>1
    <3>2. b + (0 + 1) = b + 1
      BY <2>1
    <3> HIDE DEF Bad
    <3> QED
      BY <3>1, <3>2
  <2>4. ASSUME NEW d \in Nat, d \in T PROVE d + 1 \in T
    <3> DEFINE i == b + ((d + 1) + 1)
    <3> SUFFICES ASSUME d + 1 < h, Bad(i) PROVE FALSE
      OBVIOUS
    <3>1. i \in (b + 1)..(b + h) /\ i - 1 = b + (d + 1) /\ d < h
      BY <2>1
    <3> HIDE DEF i
    <3>2. Bad(i - 1)
      BY <2>2, <3>1
    <3> QED
      BY <2>4, <3>1, <3>2
  <2>5. \A d \in Nat : d \in T
    <3> HIDE DEF T
    <3> QED
      BY <2>3, <2>4, CountUp
  <2>6. ASSUME NEW i \in Under("hs") PROVE ~Bad(i)
    <3>1. i - (b + 1) \in Nat /\ i - (b + 1) < h /\ b + ((i - (b + 1)) + 1) = i
      BY <2>1, <2>6
    <3>2. i - (b + 1) \in T
      BY <2>5, <3>1
    <3> HIDE DEF Bad
    <3> QED
      BY <3>1, <3>2
  <2>7. ASSUME NEW i \in Under("hs")
        PROVE  parsed[i] \in {Fail, Ended(inbound[i].what)} \/ FailedBefore(parsed, i)
    BY <1>1, <1>3, <1>6, <2>6
  <2> QED
    BY <2>7 DEF Found
<1>7. ASSUME parsed \in Parses(GuestMessages) PROVE Found(parsed)
  BY <1>2, <1>4, <1>7 DEF Found
<1>8. ASSUME Aligned, parsed \in Parses(NotaryMessages) PROVE FoundAll(parsed)
  <2>1. \A i \in Under("hs") : First(inbound[i].what) = "h" /\ Final(inbound[i].what) = "b"
    BY <1>8 DEF Aligned
  <2> QED
    BY <1>1, <1>5, <1>8, <2>1 DEF FoundAll
<1>9. ASSUME Aligned, parsed \in Parses(GuestMessages) PROVE FoundAll(parsed)
  <2>1. \A i \in Under("hs") : First(inbound[i].what) = "h" /\ Final(inbound[i].what) = "b"
    BY <1>9 DEF Aligned
  <2> QED
    BY <1>2, <1>5, <1>9, <2>1 DEF FoundAll
<1> QED
  BY <1>6, <1>7, <1>8, <1>9

\* The certificate chain is in some record of a flight that is read whole.
LEMMA ChainIsFound ==
  ASSUME FlightTypes, NEW b, NEW h, Stream(b, h), cut = All, NEW parsed, FoundAll(parsed)
  PROVE  ChainFound(parsed)
<1> DEFINE L == Len(flight)
           At(n) == Reach(b, n) \div 3
<1>1. /\ b \in Nat /\ h \in Nat /\ Under("hs") = (b + 1)..(b + h)
  BY Parts
<1>2. L \in {4, 5} /\ flight \in Seq(Names)
  BY FlightShape
<1>3. PICK c \in 1..L : flight[c] = "Cert"
  BY FlightShape
<1>4. \A i \in Under("hs") : parsed[i] # Fail
  BY <1>1, EndedShape DEF FoundAll
<1>5. SUFFICES ASSUME \A i \in Under("hs") : ~Holds(parsed[i], "Cert") PROVE FALSE
  BY <1>4 DEF ChainFound
<1> DEFINE T == {d \in Nat : d <= h => At(b + d) < c}
<1>6. 0 \in T
  <2>1. b + 0 = b /\ b <= b
    BY <1>1
  <2>2. Reach(b, b) = 0
    BY <2>1 DEF Reach
  <2>3. 0 \div 3 = 0 /\ 0 < c
    BY <1>3
  <2> QED
    BY <2>1, <2>2, <2>3
<1>7. ASSUME NEW d \in Nat, d \in T PROVE d + 1 \in T
  <2> DEFINE i == b + (d + 1)
             k == At(i - 1)
             m == At(i)
  <2> SUFFICES ASSUME d + 1 <= h PROVE m < c
    OBVIOUS
  <2>1. i \in (b + 1)..(b + h) /\ i - 1 = b + d /\ d <= h /\ i - 1 \in b..(b + h) /\ i \in b..(b + h)
    BY <1>1
  <2>2. k < c
    BY <1>7, <2>1
  <2>3. k \in 0..L /\ m \in 0..L
    BY <2>1, Reached
  <2>4. parsed[i] = SubSeq(flight, k + 1, m)
    <3>1. parsed[i] = Ended(inbound[i].what)
      BY <1>1, <2>1 DEF FoundAll
    <3>2. inbound[i].what.from = Reach(b, i - 1) /\ inbound[i].what.to = Reach(b, i)
      BY <2>1, EndedShape
    <3> QED
      BY <3>1, <3>2 DEF Ended
  <2>5. ~Holds(parsed[i], "Cert")
    BY <1>1, <1>5, <2>1
  <2> HIDE DEF k, m, i
  <2> SUFFICES ASSUME m >= c PROVE FALSE
    BY <1>2, <1>3, <2>3
  <2>6. k + 1 \in Int /\ m \in Int /\ k + 1 <= m /\ c - k \in 1..(m - (k + 1) + 1) /\ (k + 1) + (c - k) - 1 = c
    BY <1>2, <1>3, <2>2, <2>3
  <2>7. \A j \in (k + 1)..m : j \in 1..L
    BY <1>2, <2>3
  <2>8. \A j \in (k + 1)..m : flight[j] \in Names
    BY <1>2, <2>7, ElementOfSeq
  <2>9. SubSeq(flight, k + 1, m) \in Seq(Names)
    BY <2>6, <2>8, SubSeqProperties
  <2>10. Len(SubSeq(flight, k + 1, m)) = IF k + 1 <= m THEN m - (k + 1) + 1 ELSE 0
    BY <2>6, <2>8, SubSeqProperties
  <2>11. \A j \in 1..(m - (k + 1) + 1) : SubSeq(flight, k + 1, m)[j] = flight[(k + 1) + j - 1]
    BY <2>6, <2>8, SubSeqProperties
  <2>12. SubSeq(flight, k + 1, m)[c - k] = "Cert"
    BY <1>3, <2>6, <2>11
  <2>13. c - k \in DOMAIN SubSeq(flight, k + 1, m)
    BY <2>6, <2>9, <2>10, LenProperties
  <2> QED
    BY <2>4, <2>5, <2>12, <2>13 DEF Holds
<1>8. \A d \in Nat : d \in T
  <2> HIDE DEF T
  <2> QED
    BY <1>6, <1>7, CountUp
<1>9. At(b + h) < c
  <2>1. h \in T /\ h <= h
    BY <1>1, <1>8
  <2> QED
    BY <2>1
<1>10. At(b + h) = L
  <2>1. Reach(b, b + h) = 3 * L
    BY DEF Stream, InFlight, All
  <2>2. \A l \in {4, 5} : (3 * l) \div 3 = l
    OBVIOUS
  <2> QED
    BY <1>2, <2>1, <2>2
<1> QED
  BY <1>2, <1>3, <1>9, <1>10

\* What a guest that reads the flight whole takes for the response: every record
\* under the application key, and no other.
LEMMA BehindTheFlight ==
  ASSUME FlightTypes, NEW b, NEW h, Stream(b, h), cut = All, NEW parsed, FoundAll(parsed)
  PROVE  Behind(parsed) = Under("app")
<1> DEFINE e == b + h
           n == Len(inbound)
           L == Len(flight)
           read == Reading(parsed)
<1>1. /\ b \in Nat \ {0} /\ h \in Nat /\ n \in Nat /\ e <= n /\ InTheClear(b)
      /\ DOMAIN inbound = 1..n /\ Under("app") = (e + 1)..n /\ Under("hs") = (b + 1)..e
  <2>1. /\ b \in Nat \ {0} /\ h \in Nat /\ Len(inbound) \in Nat /\ b + h <= Len(inbound)
        /\ Under("app") = (b + h + 1)..Len(inbound) /\ Under("hs") = (b + 1)..(b + h)
    BY Parts
  <2>2. InTheClear(b)
    BY DEF Stream
  <2>3. DOMAIN inbound = 1..Len(inbound)
    BY DEF FlightTypes
  <2> QED
    BY <2>1, <2>2, <2>3
<1>2. L \in {4, 5} /\ All = 3 * L
  <2>1. L \in {4, 5}
    BY FlightShape
  <2> QED
    BY <2>1 DEF All
<1>3. Found(parsed)
  BY DEF Found, FoundAll
<1>4. \A i \in b..e : read[i].msgs = SoFar(Reach(b, i) \div 3)
  BY <1>3, ReadTheFlight DEF Held
<1>5. \A i \in 1..b : inbound[i].outer # 23
  BY <1>1 DEF InTheClear, Plain
<1>6. \A i \in (b + 1)..e : ~Holds(read[i - 1].msgs, "Fin")
  <2> SUFFICES ASSUME NEW i \in (b + 1)..e PROVE ~Holds(read[i - 1].msgs, "Fin")
    OBVIOUS
  <2> DEFINE k == Reach(b, i - 1) \div 3
  <2>1. i - 1 \in b..e /\ i \in b..e /\ Reach(b, i - 1) < Reach(b, i)
    BY EndedShape
  <2>2. Reach(b, i - 1) \in 0..All /\ Reach(b, i) \in 0..All /\ (Reach(b, i - 1) < All => k < L)
        /\ k \in 0..L
    BY <2>1, Reached
  <2>3. Reach(b, i - 1) < All
    <3>1. All \in Nat
      BY <1>2
    <3> QED
      BY <2>1, <2>2, <3>1
  <2>4. k \in 0..L /\ k # L
    <3> HIDE DEF k
    <3> QED
      BY <1>2, <2>2, <2>3
  <2>5. read[i - 1].msgs = SoFar(k)
    BY <1>4, <2>1
  <2> HIDE DEF k
  <2> QED
    BY <1>1, <2>4, <2>5, SoFarShape
<1>7. Holds(read[e].msgs, "Fin")
  <2>1. e \in b..e
    BY <1>1
  <2>2. Reach(b, e) \div 3 = L
    <3>1. Reach(b, e) = 3 * L
      BY <1>2 DEF Stream, InFlight
    <3>2. \A l \in {4, 5} : (3 * l) \div 3 = l
      OBVIOUS
    <3> QED
      BY <1>2, <3>1, <3>2
  <2>3. read[e].msgs = SoFar(L)
    BY <1>4, <2>1, <2>2
  <2>4. L \in 0..L
    BY <1>2
  <2> QED
    BY <1>1, <2>3, <2>4, SoFarShape
<1>8. \A i \in (e + 1)..n : inbound[i].outer = 23 /\ Holds(read[i - 1].msgs, "Fin")
  <2> SUFFICES ASSUME NEW i \in (e + 1)..n
               PROVE  inbound[i].outer = 23 /\ Holds(read[i - 1].msgs, "Fin")
    OBVIOUS
  <2>1. e \in 0..n /\ i - 1 \in e..n
    BY <1>1
  <2>2. inbound[i].outer = 23
    BY DEF Stream, InSession
  <2> HIDE DEF e
  <2>3. read[i - 1] = read[e]
    BY <1>1, <1>7, <2>1, ReadBehind
  <2> QED
    BY <1>7, <2>2, <2>3
<1>9. \A i : i \in 1..n <=> i \in 1..b \/ i \in (b + 1)..e \/ i \in (e + 1)..n
  <2>1. b \in Nat /\ e \in Nat /\ n \in Nat /\ b <= e /\ e <= n
    BY <1>1
  <2> HIDE DEF e, n
  <2> QED
    BY <2>1
<1>10. Behind(parsed) = { i \in DOMAIN inbound : inbound[i].outer = 23 /\ Holds(read[i - 1].msgs, "Fin") }
  BY DEF Behind
<1> HIDE DEF read, e, n
<1>11. Behind(parsed) = (e + 1)..n
  BY <1>1, <1>5, <1>6, <1>8, <1>9, <1>10
<1> QED
  BY <1>1, <1>11

\* They open under the application keys, counted from zero.
LEMMA AppRecordsOpen ==
  ASSUME FlightTypes, NEW b, NEW h, Stream(b, h)
  PROVE  AppOpens(Under("app"))
<1> DEFINE s == b + h + 1
           n == Len(inbound)
<1>1. s \in Nat /\ n \in Nat /\ Under("app") = s..n
  BY Parts
<1>2. SUFFICES ASSUME NEW i \in s..n
               PROVE  /\ inbound[i].key = "app"
                      /\ inbound[i].seq = Cardinality({ j \in s..n : j < i })
  BY <1>1 DEF AppOpens
<1>3. inbound[i].key = "app" /\ inbound[i].seq = i - s
  BY DEF Stream, InSession
<1> HIDE DEF s, n
<1>4. { j \in s..n : j < i } = s..(i - 1)
  BY <1>1
<1>5. Cardinality(s..(i - 1)) = IF s > i - 1 THEN 0 ELSE i - 1 - s + 1
  <2>1. s \in Int /\ i - 1 \in Int
    BY <1>1
  <2> QED
    BY <2>1, FS_Interval
<1>6. Cardinality(s..(i - 1)) = i - s
  BY <1>1, <1>5
<1> QED
  BY <1>3, <1>4, <1>6

\* The first messages of the transcript end in the first of the flight.
LEMMA Beginning ==
  ASSUME NEW s \in Seq(Names), NEW t \in Seq(Names), Len(s) = 2, NEW k \in 1..Len(t)
  PROVE  SubSeq(s \o t, 1, 2 + k) = s \o SubSeq(t, 1, k)
<1> DEFINE w == s \o t
<1>1. w \in Seq(Names) /\ Len(w) = 2 + Len(t) /\ Len(t) \in Nat
  <2>1. s \o t \in Seq(Names) /\ Len(s \o t) = Len(s) + Len(t)
    BY ConcatProperties
  <2>2. Len(t) \in Nat
    BY LenProperties
  <2> QED
    BY <2>1, <2>2
<1>2. SubSeq(w, 1, 2) = s
  <2>1. 1 \in 1..Len(s) /\ 2 \in 1..Len(s)
    OBVIOUS
  <2>2. SubSeq(w, 1, 2) = SubSeq(s, 1, 2)
    BY <2>1, SubSeqOfConcat1
  <2>3. SubSeq(s, 1, Len(s)) = s
    BY SubSeqFull
  <2>4. SubSeq(s, 1, 2) = s
    BY <2>3, Zenon
  <2> QED
    BY <2>2, <2>4, Zenon
<1>3. SubSeq(w, 3, 2 + k) = SubSeq(t, 1, k)
  <2> DEFINE from == 3
             to == 2 + k
  <2>1. from \in (Len(s) + 1)..(Len(s) + Len(t)) /\ to \in (Len(s) + 1)..(Len(s) + Len(t))
    BY <1>1
  <2>2. from - Len(s) = 1 /\ to - Len(s) = k
    BY <1>1
  <2> HIDE DEF from, to
  <2>3. SubSeq(s \o t, from, to) = SubSeq(t, from - Len(s), to - Len(s))
    BY <2>1, SubSeqOfConcat2
  <2>4. SubSeq(s \o t, from, to) = SubSeq(t, 1, k)
    BY <2>2, <2>3
  <2> QED
    BY <2>4 DEF from, to
<1>4. SubSeq(w, 1, 2) \o SubSeq(w, 2 + 1, 2 + k) = SubSeq(w, 1, 2 + k)
  <2>1. 1 \in 1..(Len(w) + 1) /\ 2 \in (1 - 1)..Len(w) /\ 2 + k \in 2..Len(w)
    BY <1>1
  <2> HIDE DEF w
  <2> QED
    BY <1>1, <2>1, ConcatAdjacentSubSeq
<1>5. 2 + 1 = 3
  OBVIOUS
<1> HIDE DEF w
<1>6. s \o SubSeq(t, 1, k) = SubSeq(w, 1, 2 + k)
  BY <1>2, <1>3, <1>4, <1>5
<1> QED
  BY <1>6 DEF w

\* The fixed positions are those of a flight of four messages behind two hellos.
LEMMA FixedPositions ==
  ASSUME FlightTypes, ~Retried, ~Holds(flight, "CR")
  PROVE  GuestAccepts(Whole)
<1>1. Len(flight) = 4
  <2>1. ASSUME flight = <<"EE", "CR", "Cert", "CV", "Fin">> PROVE FALSE
    <3>1. 2 \in DOMAIN flight /\ flight[2] = "CR"
      BY <2>1
    <3> QED
      BY <3>1 DEF Holds
  <2>2. flight = <<"EE", "Cert", "CV", "Fin">>
    BY <2>1 DEF FlightTypes
  <2> QED
    BY <2>2
<1>2. Sent = <<"CH", "SH">>
  BY DEF Sent
<1>3. Sent \in Seq(Names) /\ Len(Sent) = 2
  BY <1>2 DEF Names
<1>4. flight \in Seq(Names)
  BY FlightShape
<1>5. SubSeq(Whole, 1, 5) = Maced
  <2>1. 3 \in 1..Len(flight) /\ 2 + 3 = 5 /\ Len(flight) - 1 = 3
    BY <1>1
  <2>2. SubSeq(Sent \o flight, 1, 2 + 3) = Sent \o SubSeq(flight, 1, 3)
    BY <1>3, <1>4, <2>1, Beginning
  <2>3. Maced = Sent \o SubSeq(flight, 1, 3)
    BY <2>1, Zenon DEF Maced
  <2> QED
    BY <2>1, <2>2, <2>3, Zenon DEF Whole
<1>6. SubSeq(Whole, 1, 4) = Signed
  <2>1. 2 \in 1..Len(flight) /\ 2 + 2 = 4 /\ Len(flight) - 2 = 2
    BY <1>1
  <2>2. SubSeq(Sent \o flight, 1, 2 + 2) = Sent \o SubSeq(flight, 1, 2)
    BY <1>3, <1>4, <2>1, Beginning
  <2>3. Signed = Sent \o SubSeq(flight, 1, 2)
    BY <2>1, Zenon DEF Signed
  <2> QED
    BY <2>1, <2>2, <2>3, Zenon DEF Whole
<1>7. Whole \in Seq(Names) /\ Len(Whole) = 6
  <2>1. Sent \o flight \in Seq(Names) /\ Len(Sent \o flight) = Len(Sent) + Len(flight)
    BY <1>3, <1>4, ConcatProperties
  <2>2. Whole = Sent \o flight
    BY DEF Whole
  <2>3. Whole \in Seq(Names) /\ Len(Whole) = Len(Sent) + Len(flight)
    BY <2>1, <2>2, Zenon
  <2> QED
    BY <1>1, <1>3, <2>3
<1>8. SubSeq(Whole, 1, 6) = Whole
  <2>1. SubSeq(Whole, 1, Len(Whole)) = Whole
    BY <1>7, SubSeqFull
  <2> QED
    BY <1>7, <2>1, Zenon
<1>9. Len(Whole) >= 6
  BY <1>7
<1> QED
  BY <1>5, <1>6, <1>8, <1>9, Zenon DEF GuestAccepts

-----------------------------------------------------------------------------
(* The server's steps keep the stream.                                     *)

\* The pieces of the flight are numbered.
LEMMA Pieces ==
  ASSUME FlightTypes
  PROVE  All \in Nat
<1>1. Len(flight) \in {4, 5}
  BY FlightShape
<1> QED
  BY <1>1 DEF All

\* What a step may do to the capture and keep its types.
LEMMA TypesKept ==
  ASSUME FlightTypes, inbound # <<>>, flight' = flight, cut' \in 0..All, open' \in BOOLEAN,
         outbound' = outbound \/ outbound' = Append(outbound, "CH2"),
         inbound' = inbound \/ \E r : inbound' = Append(inbound, r)
  PROVE  FlightTypes'
<1>1. flight' \in {<<"EE", "Cert", "CV", "Fin">>, <<"EE", "CR", "Cert", "CV", "Fin">>}
  BY DEF FlightTypes
<1>2. cut' \in 0..All' /\ open' \in BOOLEAN
  BY DEF All
<1>3. outbound' \in Seq({"CH", "CH2"}) /\ outbound' # <<>> /\ outbound'[1] = "CH"
  <2>1. outbound \in Seq({"CH", "CH2"}) /\ outbound # <<>> /\ outbound[1] = "CH"
    BY DEF FlightTypes
  <2>2. CASE outbound' = outbound
    BY <2>1, <2>2
  <2>3. CASE outbound' = Append(outbound, "CH2")
    BY <2>1, <2>3
  <2> QED
    BY <2>2, <2>3
<1>4. DOMAIN inbound' = 1..Len(inbound') /\ Len(inbound') \in Nat
  <2>1. CASE inbound' = inbound
    BY <2>1 DEF FlightTypes
  <2>2. CASE \E r : inbound' = Append(inbound, r)
    BY <2>2, Appended
  <2> QED
    BY <2>1, <2>2
<1> QED
  BY <1>1, <1>2, <1>3, <1>4 DEF FlightTypes

\* Nothing new in the capture.
LEMMA StreamKept ==
  ASSUME NEW b, NEW h, Stream(b, h), UNCHANGED <<flight, cut, inbound>>
  PROVE  Stream(b, h)'
<1>1. InTheClear(b)'
  BY DEF Stream, InTheClear, Plain
<1>2. InFlight(b, h)'
  BY DEF Stream, InFlight, Reach, All, ServerHelloSent, Under
<1>3. InSession(b + h)'
  BY DEF Stream, InSession, All
<1> QED
  BY <1>1, <1>2, <1>3 DEF Stream

\* Before the flight is out nothing follows it, and nothing is out of it before the
\* ServerHello.
LEMMA StreamEnds ==
  ASSUME FlightTypes, NEW b, NEW h, Stream(b, h)
  PROVE  /\ cut # All => Len(inbound) = b + h
         /\ h = 0 => cut = 0 /\ cut # All
         /\ ~ServerHelloSent => h = 0
<1>1. b \in Nat \ {0} /\ h \in Nat /\ Len(inbound) \in Nat /\ b + h <= Len(inbound)
  BY Parts
<1>2. ASSUME cut # All PROVE Len(inbound) = b + h
  <2>1. ~(b + h < Len(inbound))
    BY <1>2 DEF Stream, InSession
  <2> QED
    BY <1>1, <2>1
<1>3. ASSUME h = 0 PROVE cut = 0 /\ cut # All
  <2>1. cut = Reach(b, b + h) /\ b + h <= b
    BY <1>1, <1>3 DEF Stream, InFlight
  <2>2. Len(flight) \in {4, 5}
    BY FlightShape
  <2> QED
    BY <2>1, <2>2 DEF Reach, All
<1>4. ~ServerHelloSent => h = 0
  BY DEF Stream, InFlight
<1> QED
  BY <1>2, <1>3, <1>4

\* A second hello and a ChangeCipherSpec are records in the clear, in front of the
\* flight.
LEMMA ClearGrows ==
  ASSUME FlightTypes, NEW b, Stream(b, 0), NEW r, r \in {Plain(22, "SH"), Plain(20, "CCS")},
         inbound' = Append(inbound, r), UNCHANGED <<flight, cut>>
  PROVE  Stream(b + 1, 0)'
<1>1. b \in Nat \ {0} /\ Len(inbound) = b /\ cut = 0 /\ cut # All
  <2>1. b \in Nat \ {0}
    BY Parts
  <2>2. cut = 0 /\ cut # All
    BY StreamEnds
  <2>3. Len(inbound) = b + 0
    BY <2>2, StreamEnds
  <2> QED
    BY <2>1, <2>2, <2>3
<1>2. inbound # <<>>
  BY <1>1
<1>3. /\ Len(inbound') = b + 1
      /\ inbound'[b + 1] = r /\ \A i \in 1..b : inbound'[i] = inbound[i]
  BY <1>1, <1>2, Appended
<1>4. /\ \A i \in 1..b : inbound[i] \in {Plain(22, "HRR"), Plain(22, "SH"), Plain(20, "CCS")}
      /\ inbound[1] # Plain(20, "CCS")
  BY DEF Stream, InTheClear
<1>5. \A i \in 1..(b + 1) : inbound'[i] \in {Plain(22, "HRR"), Plain(22, "SH"), Plain(20, "CCS")}
  <2> SUFFICES ASSUME NEW i \in 1..(b + 1)
               PROVE  inbound'[i] \in {Plain(22, "HRR"), Plain(22, "SH"), Plain(20, "CCS")}
    OBVIOUS
  <2>1. i = b + 1 \/ i \in 1..b
    BY <1>1
  <2> QED
    BY <1>3, <1>4, <2>1
<1>6. 1 \in 1..b /\ b + 1 \in 1..(b + 1)
  BY <1>1
<1>7. InTheClear(b + 1)'
  <2>1. inbound'[1] # Plain(20, "CCS")
    BY <1>3, <1>4, <1>6
  <2>2. b + 1 \in 1..Len(inbound')
    BY <1>3, <1>6
  <2> QED
    BY <1>5, <2>1, <2>2 DEF InTheClear, Plain
<1>8. InFlight(b + 1, 0)'
  <2>1. 0 \in Nat /\ (b + 1) + 0 <= Len(inbound') /\ (b + 1) + 0 <= b + 1
    BY <1>1, <1>3
  <2>2. ((b + 1) + 1)..((b + 1) + 0) = {}
    BY <1>1
  <2>3. cut' = Reach(b + 1, (b + 1) + 0)'
    BY <1>1, <2>1 DEF Reach
  <2> QED
    BY <2>1, <2>2, <2>3 DEF InFlight
<1>9. InSession((b + 1) + 0)'
  <2>1. ((b + 1) + 0 + 1)..Len(inbound') = {} /\ ~((b + 1) + 0 < Len(inbound'))
    BY <1>1, <1>3
  <2> QED
    BY <2>1 DEF InSession
<1> QED
  BY <1>7, <1>8, <1>9 DEF Stream

\* The records in front of a new one keep their place.
LEMMA InFrontKept ==
  ASSUME FlightTypes, NEW b, NEW h, Stream(b, h), NEW r, inbound' = Append(inbound, r),
         flight' = flight
  PROVE  /\ inbound # <<>> /\ Len(inbound') = Len(inbound) + 1
         /\ InTheClear(b)'
         /\ \A n \in b..(b + h) : Reach(b, n)' = Reach(b, n)
         /\ \A i \in (b + 1)..(b + h) :
              /\ inbound'[i].outer = 23 /\ inbound'[i].key = "hs" /\ inbound'[i].seq = i - (b + 1)
              /\ inbound'[i].what.from = Reach(b, i - 1)'
              /\ inbound'[i].what.from \in 0..All /\ inbound'[i].what.to \in 1..All
              /\ inbound'[i].what.from < inbound'[i].what.to
         /\ ServerHelloSent => ServerHelloSent'
<1>1. /\ b \in Nat \ {0} /\ h \in Nat /\ Len(inbound) \in Nat /\ b + h <= Len(inbound)
      /\ DOMAIN inbound = 1..Len(inbound)
  <2>1. b \in Nat \ {0} /\ h \in Nat /\ Len(inbound) \in Nat /\ b + h <= Len(inbound)
    BY Parts
  <2> QED
    BY <2>1 DEF FlightTypes
<1>2. inbound # <<>>
  BY <1>1
<1>3. /\ Len(inbound') = Len(inbound) + 1 /\ DOMAIN inbound' = 1..Len(inbound')
      /\ \A i \in 1..Len(inbound) : inbound'[i] = inbound[i]
  BY <1>2, Appended
<1>4. /\ \A i \in 1..b : i \in 1..Len(inbound)
      /\ \A i \in (b + 1)..(b + h) : i \in 1..Len(inbound) /\ i - 1 \in b..(b + h)
      /\ \A i \in 1..Len(inbound) : i \in 1..Len(inbound')
      /\ 1 \in 1..b
  BY <1>1, <1>3
<1>5. InTheClear(b)'
  <2>1. b \in 1..Len(inbound')
    BY <1>1, <1>3
  <2> QED
    BY <1>3, <1>4, <2>1 DEF Stream, InTheClear, Plain
<1>6. ASSUME NEW n \in b..(b + h) PROVE Reach(b, n)' = Reach(b, n)
  <2>1. n <= b \/ n \in (b + 1)..(b + h)
    BY <1>1
  <2> QED
    BY <1>3, <1>4, <2>1 DEF Reach
<1>7. ASSUME NEW i \in (b + 1)..(b + h)
      PROVE  /\ inbound'[i].outer = 23 /\ inbound'[i].key = "hs" /\ inbound'[i].seq = i - (b + 1)
             /\ inbound'[i].what.from = Reach(b, i - 1)'
             /\ inbound'[i].what.from \in 0..All /\ inbound'[i].what.to \in 1..All
             /\ inbound'[i].what.from < inbound'[i].what.to
  <2>1. inbound'[i] = inbound[i] /\ Reach(b, i - 1)' = Reach(b, i - 1)
    BY <1>3, <1>4, <1>6
  <2>2. /\ inbound[i].outer = 23 /\ inbound[i].key = "hs" /\ inbound[i].seq = i - (b + 1)
        /\ inbound[i].what.from = Reach(b, i - 1)
        /\ inbound[i].what.from \in 0..All /\ inbound[i].what.to \in 1..All
        /\ inbound[i].what.from < inbound[i].what.to
    BY DEF Stream, InFlight
  <2> QED
    BY <2>1, <2>2
<1>8. ServerHelloSent => ServerHelloSent'
  BY <1>1, <1>3, <1>4 DEF ServerHelloSent, Under
<1> QED
  BY <1>2, <1>3, <1>5, <1>6, <1>7, <1>8

\* A record of the flight takes up where the last one ended.
LEMMA FlightGrows ==
  ASSUME FlightTypes, NEW b, NEW h, Stream(b, h), SendFlight
  PROVE  Stream(b, h + 1)'
<1> DEFINE r == Wire("hs", [from |-> cut, to |-> cut'])
           n == b + h + 1
<1>1. /\ b \in Nat \ {0} /\ h \in Nat /\ Len(inbound) = b + h
      /\ Cardinality(Under("hs")) = h
  <2>1. b \in Nat \ {0} /\ h \in Nat
    BY Parts
  <2>2. cut \in 0..All /\ cut < All
    BY DEF SendFlight, FlightTypes
  <2>3. All \in Nat
    BY Pieces
  <2>4. cut # All
    BY <2>2, <2>3
  <2>5. Len(inbound) = b + h
    BY <2>4, StreamEnds
  <2> QED
    BY <2>1, <2>5, PartSizes
<1>2. /\ inbound' = Append(inbound, r) /\ flight' = flight /\ ServerHelloSent
      /\ cut' \in (cut + 1)..All
  BY DEF SendFlight
<1>3. /\ r.outer = 23 /\ r.key = "hs" /\ r.seq = h
      /\ r.what.from = cut /\ r.what.to = cut'
  BY <1>1 DEF Wire
<1> HIDE DEF r
<1>4. /\ inbound # <<>> /\ Len(inbound') = n
      /\ InTheClear(b)'
      /\ \A m \in b..(b + h) : Reach(b, m)' = Reach(b, m)
      /\ \A i \in (b + 1)..(b + h) :
           /\ inbound'[i].outer = 23 /\ inbound'[i].key = "hs" /\ inbound'[i].seq = i - (b + 1)
           /\ inbound'[i].what.from = Reach(b, i - 1)'
           /\ inbound'[i].what.from \in 0..All /\ inbound'[i].what.to \in 1..All
           /\ inbound'[i].what.from < inbound'[i].what.to
      /\ ServerHelloSent'
  <2>1. Len(inbound) + 1 = n
    BY <1>1
  <2> QED
    BY <1>2, <2>1, InFrontKept
<1>5. inbound'[n] = r
  <2>1. inbound'[Len(inbound) + 1] = r
    BY <1>2, <1>4, Appended
  <2> QED
    BY <1>1, <2>1
<1>6. All' = All /\ All \in Nat /\ cut \in 0..All
  <2>1. All \in Nat
    BY Pieces
  <2> QED
    BY <1>2, <2>1 DEF All, FlightTypes
<1>7. Reach(b, n - 1)' = cut
  <2>1. n - 1 = b + h /\ b + h \in b..(b + h)
    BY <1>1
  <2>2. Reach(b, b + h) = cut
    BY DEF Stream, InFlight
  <2> QED
    BY <1>4, <2>1, <2>2
<1>8. /\ inbound'[n].outer = 23 /\ inbound'[n].key = "hs" /\ inbound'[n].seq = n - (b + 1)
      /\ inbound'[n].what.from = Reach(b, n - 1)'
      /\ inbound'[n].what.from \in 0..All /\ inbound'[n].what.to \in 1..All
      /\ inbound'[n].what.from < inbound'[n].what.to
  <2>1. n - (b + 1) = h
    BY <1>1
  <2>2. cut' \in 1..All /\ cut < cut'
    BY <1>2, <1>6
  <2> HIDE DEF n
  <2> QED
    BY <1>3, <1>5, <1>6, <1>7, <2>1, <2>2
<1>9. ASSUME NEW i \in (b + 1)..(b + (h + 1))
      PROVE  /\ inbound'[i].outer = 23 /\ inbound'[i].key = "hs" /\ inbound'[i].seq = i - (b + 1)
             /\ inbound'[i].what.from = Reach(b, i - 1)'
             /\ inbound'[i].what.from \in 0..All' /\ inbound'[i].what.to \in 1..All'
             /\ inbound'[i].what.from < inbound'[i].what.to
  <2>1. i = n \/ i \in (b + 1)..(b + h)
    BY <1>1
  <2> HIDE DEF n
  <2>2. CASE i = n
    BY <1>6, <1>8, <2>2
  <2>3. CASE i \in (b + 1)..(b + h)
    BY <1>4, <1>6, <2>3
  <2> QED
    BY <2>1, <2>2, <2>3
<1>10. InFlight(b, h + 1)'
  <2>1. h + 1 \in Nat /\ b + (h + 1) <= Len(inbound') /\ b + (h + 1) = n /\ ~(n <= b)
    BY <1>1, <1>4
  <2>2. cut' = Reach(b, b + (h + 1))'
    BY <1>3, <1>5, <2>1 DEF Reach
  <2> QED
    BY <1>4, <1>9, <2>1, <2>2 DEF InFlight
<1>11. InSession(b + (h + 1))'
  <2>1. (b + (h + 1) + 1)..Len(inbound') = {} /\ ~(b + (h + 1) < Len(inbound'))
    BY <1>1, <1>4
  <2> QED
    BY <2>1 DEF InSession
<1> QED
  BY <1>4, <1>10, <1>11 DEF Stream

\* A record under the application key follows the whole flight.
LEMMA SessionGrows ==
  ASSUME FlightTypes, NEW b, NEW h, Stream(b, h), SendApp
  PROVE  /\ Stream(b, h)'
         /\ Under("hs")' = Under("hs")
         /\ \A i \in Under("hs") \cup {1} : inbound'[i] = inbound[i]
<1> DEFINE e == b + h
<1>1. /\ b \in Nat \ {0} /\ h \in Nat /\ Len(inbound) \in Nat /\ e <= Len(inbound)
      /\ Cardinality(Under("app")) = Len(inbound) - e /\ Under("hs") = (b + 1)..e
      /\ DOMAIN inbound = 1..Len(inbound)
  <2>1. /\ b \in Nat \ {0} /\ h \in Nat /\ Len(inbound) \in Nat /\ b + h <= Len(inbound)
        /\ Under("hs") = (b + 1)..(b + h)
    BY Parts
  <2> QED
    BY <2>1, PartSizes DEF FlightTypes
<1>2. PICK what : inbound' = Append(inbound, Wire("app", what))
  BY DEF SendApp
<1> DEFINE r == Wire("app", what)
<1>3. r.outer = 23 /\ r.key = "app" /\ r.seq = Len(inbound) - e
  BY <1>1 DEF Wire
<1>4. cut = All /\ UNCHANGED <<flight, cut>>
  BY DEF SendApp
<1> HIDE DEF r
<1>5. /\ inbound # <<>> /\ Len(inbound') = Len(inbound) + 1
      /\ InTheClear(b)'
      /\ \A m \in b..(b + h) : Reach(b, m)' = Reach(b, m)
      /\ \A i \in (b + 1)..(b + h) :
           /\ inbound'[i].outer = 23 /\ inbound'[i].key = "hs" /\ inbound'[i].seq = i - (b + 1)
           /\ inbound'[i].what.from = Reach(b, i - 1)'
           /\ inbound'[i].what.from \in 0..All /\ inbound'[i].what.to \in 1..All
           /\ inbound'[i].what.from < inbound'[i].what.to
      /\ ServerHelloSent => ServerHelloSent'
  BY <1>2, <1>4, InFrontKept DEF r
<1>6. /\ inbound'[Len(inbound) + 1] = r /\ DOMAIN inbound' = 1..(Len(inbound) + 1)
      /\ \A i \in 1..Len(inbound) : inbound'[i] = inbound[i]
  BY <1>2, <1>5, Appended DEF r
<1>7. InFlight(b, h)'
  <2>1. h \in Nat /\ b + h <= Len(inbound') /\ b + h \in b..(b + h)
    BY <1>1, <1>5
  <2>2. cut' = Reach(b, b + h)'
    <3>1. cut = Reach(b, b + h)
      BY DEF Stream, InFlight
    <3> QED
      BY <1>4, <1>5, <2>1, <3>1
  <2>3. All' = All
    BY <1>4 DEF All
  <2>4. h # 0 => ServerHelloSent'
    BY <1>5 DEF Stream, InFlight
  <2>5. \A i \in (b + 1)..(b + h) :
           /\ inbound'[i].outer = 23 /\ inbound'[i].key = "hs" /\ inbound'[i].seq = i - (b + 1)
           /\ inbound'[i].what.from = Reach(b, i - 1)'
           /\ inbound'[i].what.from \in 0..All' /\ inbound'[i].what.to \in 1..All'
           /\ inbound'[i].what.from < inbound'[i].what.to
    BY <1>5, <2>3
  <2> QED
    BY <2>1, <2>2, <2>4, <2>5 DEF InFlight
<1>8. InSession(e)'
  <2>1. \A i \in (e + 1)..Len(inbound) : inbound[i].outer = 23 /\ inbound[i].key = "app" /\ inbound[i].seq = i - (e + 1)
    BY DEF Stream, InSession
  <2>2. ASSUME NEW i \in (e + 1)..Len(inbound')
        PROVE  inbound'[i].outer = 23 /\ inbound'[i].key = "app" /\ inbound'[i].seq = i - (e + 1)
    <3>1. e \in Nat /\ (i \in (e + 1)..Len(inbound) \/ i = Len(inbound) + 1)
      BY <1>1, <1>5
    <3>2. CASE i \in (e + 1)..Len(inbound)
      <4>1. i \in 1..Len(inbound)
        BY <1>1, <3>1, <3>2
      <4> QED
        BY <1>6, <2>1, <3>2, <4>1
    <3>3. CASE i = Len(inbound) + 1
      <4>1. Len(inbound) - e = i - (e + 1)
        BY <1>1, <3>1, <3>3
      <4> QED
        BY <1>3, <1>6, <3>3, <4>1
    <3> QED
      BY <3>1, <3>2, <3>3
  <2>3. cut' = All'
    BY <1>4 DEF All
  <2> HIDE DEF e
  <2> QED
    BY <2>2, <2>3 DEF InSession
<1>9. Stream(b, h)'
  BY <1>5, <1>7, <1>8 DEF Stream
<1>10. \A i \in Under("hs") \cup {1} : i \in 1..Len(inbound)
  BY <1>1
<1>11. Under("hs")' = Under("hs")
  <2>1. Under("hs")' = { i \in 1..(Len(inbound) + 1) : inbound'[i].key = "hs" }
    BY <1>6 DEF Under
  <2>2. Under("hs") = { i \in 1..Len(inbound) : inbound[i].key = "hs" }
    BY <1>1 DEF Under
  <2>3. inbound'[Len(inbound) + 1].key # "hs"
    BY <1>3, <1>6
  <2>4. \A i : i \in 1..(Len(inbound) + 1) <=> i \in 1..Len(inbound) \/ i = Len(inbound) + 1
    BY <1>1
  <2> QED
    BY <1>6, <2>1, <2>2, <2>3, <2>4
<1> QED
  BY <1>6, <1>9, <1>10, <1>11

-----------------------------------------------------------------------------
(* The readers.                                                            *)

\* What was read stays right while the records of the flight stay.
LEMMA ReadersKept ==
  ASSUME TranscriptRight, NotaryReadsAligned, GuestReadsAligned,
         UNCHANGED <<flight, notary, guest>>,
         notary # Unread \/ guest # Unread =>
           Under("hs")' = Under("hs") /\ \A i \in Under("hs") \cup {1} : inbound'[i] = inbound[i],
         guest # Unread => UNCHANGED <<inbound, tail>>
  PROVE  TranscriptRight' /\ NotaryReadsAligned' /\ GuestReadsAligned'
<1>1. ASSUME notary # Unread \/ guest # Unread
      PROVE  (HeaderCut' <=> HeaderCut) /\ (Aligned' <=> Aligned) /\ (Retried' <=> Retried) /\ Whole' = Whole
  <2>1. Under("hs")' = Under("hs") /\ \A i \in Under("hs") \cup {1} : inbound'[i] = inbound[i]
    BY <1>1
  <2>2. Retried' <=> Retried
    BY <2>1 DEF Retried
  <2>3. Sent' = Sent
    BY <2>2 DEF Sent
  <2>4. \A i \in Under("hs") : inbound'[i] = inbound[i]
    BY <2>1
  <2>5. HeaderCut' <=> HeaderCut
    BY <2>1, <2>4 DEF HeaderCut, First
  <2>6. Aligned' <=> Aligned
    BY <2>1, <2>4 DEF Aligned, First, Final
  <2> QED
    BY <2>2, <2>3, <2>5, <2>6 DEF Whole
<1>2. TranscriptRight'
  BY <1>1 DEF TranscriptRight
<1>3. NotaryReadsAligned'
  BY <1>1 DEF NotaryReadsAligned
<1>4. GuestReadsAligned'
  <2>1. ASSUME guest # Unread PROVE tail' = tail /\ Data(Under("app"))' = Data(Under("app"))
    BY <2>1 DEF Data, Under
  <2>2. Holds(flight, "CR")' <=> Holds(flight, "CR")
    BY DEF Holds
  <2> QED
    BY <1>1, <2>1, <2>2 DEF GuestReadsAligned
<1> QED
  BY <1>2, <1>3, <1>4

\* What the notary makes of the flight.
LEMMA NotaryReadsRight ==
  ASSUME FlightTypes, NEW b, NEW h, Stream(b, h), NotaryReads
  PROVE  /\ notary' # Unread' /\ ~HeaderCut' => notary'.hash \in {Whole', Fail}
         /\ NotaryReadsAligned'
<1>1. /\ cut = All /\ UNCHANGED <<flight, inbound>>
      /\ \E parsed \in Parses(NotaryMessages), more \in {"none", "header", "body"} :
           notary' = [read |-> TRUE, tail |-> more,
                      hash |-> IF more # "body" /\ ChainFound(parsed) THEN Transcript(parsed) ELSE Fail]
  BY DEF NotaryReads
<1>2. PICK parsed \in Parses(NotaryMessages), more \in {"none", "header", "body"} :
        notary' = [read |-> TRUE, tail |-> more,
                   hash |-> IF more # "body" /\ ChainFound(parsed) THEN Transcript(parsed) ELSE Fail]
  BY <1>1
<1>3. /\ notary'.tail = more
      /\ notary'.hash = IF more # "body" /\ ChainFound(parsed) THEN Transcript(parsed) ELSE Fail
  BY <1>2
<1>4. (HeaderCut' <=> HeaderCut) /\ (Aligned' <=> Aligned) /\ (Retried' <=> Retried) /\ Whole' = Whole
  BY <1>1 DEF HeaderCut, Aligned, First, Final, Under, Retried, Whole, Sent
<1>5. ASSUME ~HeaderCut PROVE notary'.hash \in {Whole, Fail}
  <2>1. Found(parsed)
    BY <1>5, Readings
  <2>2. Transcript(parsed) \in {Whole, Fail}
    BY <1>1, <2>1, TranscriptOfFlight
  <2> QED
    BY <1>3, <2>2
<1>6. ASSUME Aligned, ~Retried, more # "body" PROVE notary'.hash = Whole
  <2>1. FoundAll(parsed)
    BY <1>6, Readings
  <2>2. Found(parsed)
    BY <2>1 DEF Found, FoundAll
  <2>3. Transcript(parsed) = Whole
    BY <1>1, <1>6, <2>1, <2>2, TranscriptOfFlight
  <2>4. ChainFound(parsed)
    BY <1>1, <2>1, ChainIsFound
  <2> QED
    BY <1>3, <1>6, <2>3, <2>4
<1>7. ~HeaderCut' => notary'.hash \in {Whole', Fail}
  BY <1>4, <1>5
<1>8. NotaryReadsAligned'
  BY <1>3, <1>4, <1>6 DEF NotaryReadsAligned
<1> QED
  BY <1>7, <1>8

\* What the guest makes of it.
LEMMA GuestReadsRight ==
  ASSUME FlightTypes, NEW b, NEW h, Stream(b, h), GuestReads
  PROVE  guest'.hash \in {Whole', Fail} /\ GuestReadsAligned'
<1>1. /\ cut = All /\ UNCHANGED <<flight, inbound, tail>>
      /\ \E parsed \in Parses(GuestMessages) :
           guest' = IF tail # "body" /\ GuestAccepts(Transcript(parsed)) /\ AppOpens(Behind(parsed))
                    THEN [read |-> TRUE, hash |-> Transcript(parsed), data |-> Data(Behind(parsed))]
                    ELSE [read |-> TRUE, hash |-> Fail, data |-> {}]
  BY DEF GuestReads
<1>2. PICK parsed \in Parses(GuestMessages) :
        guest' = IF tail # "body" /\ GuestAccepts(Transcript(parsed)) /\ AppOpens(Behind(parsed))
                 THEN [read |-> TRUE, hash |-> Transcript(parsed), data |-> Data(Behind(parsed))]
                 ELSE [read |-> TRUE, hash |-> Fail, data |-> {}]
  BY <1>1
<1>3. (Aligned' <=> Aligned) /\ (Retried' <=> Retried) /\ Whole' = Whole
  BY <1>1 DEF Aligned, First, Final, Under, Retried, Whole, Sent
<1>4. Data(Under("app"))' = Data(Under("app")) /\ (Holds(flight, "CR")' <=> Holds(flight, "CR"))
  BY <1>1 DEF Data, Under, Holds
<1>5. ASSUME Aligned, ~Retried, ~Holds(flight, "CR"), tail # "body"
      PROVE  guest'.hash = Whole /\ guest'.data = Data(Under("app"))
  <2>1. FoundAll(parsed)
    BY <1>5, Readings
  <2>2. Found(parsed)
    BY <2>1 DEF Found, FoundAll
  <2>3. Transcript(parsed) = Whole
    BY <1>1, <1>5, <2>1, <2>2, TranscriptOfFlight
  <2>4. Behind(parsed) = Under("app")
    BY <1>1, <2>1, BehindTheFlight
  <2>5. GuestAccepts(Transcript(parsed)) /\ AppOpens(Behind(parsed))
    BY <1>5, <2>3, <2>4, FixedPositions, AppRecordsOpen, Zenon
  <2>6. guest' = [read |-> TRUE, hash |-> Transcript(parsed), data |-> Data(Behind(parsed))]
    BY <1>2, <1>5, <2>5, Zenon
  <2> QED
    BY <2>3, <2>4, <2>6
<1>6. guest'.hash \in {Whole, Fail}
  <2>1. Found(parsed)
    BY Readings
  <2>2. Transcript(parsed) \in {Whole, Fail}
    BY <1>1, <2>1, TranscriptOfFlight
  <2>3. guest'.hash \in {Transcript(parsed), Fail}
    BY <1>2
  <2> QED
    BY <2>2, <2>3
<1>7. GuestReadsAligned'
  BY <1>1, <1>3, <1>4, <1>5 DEF GuestReadsAligned
<1> QED
  BY <1>3, <1>6, <1>7

-----------------------------------------------------------------------------
(* The invariant.                                                          *)

LEMMA FlightInit == ASSUME Init PROVE FlightInv
<1>1. PICK retry \in Retries : inbound = << Plain(22, IF retry THEN "HRR" ELSE "SH") >>
  BY DEF Init
<1>2. inbound[1] \in {Plain(22, "HRR"), Plain(22, "SH")} /\ Len(inbound) = 1 /\ DOMAIN inbound = 1..1
  BY <1>1
<1>3. flight \in {<<"EE", "Cert", "CV", "Fin">>, <<"EE", "CR", "Cert", "CV", "Fin">>}
  BY DEF Init
<1>4. FlightTypes
  <2>1. Len(flight) \in Nat
    BY <1>3
  <2>2. cut \in 0..All /\ open \in BOOLEAN
    BY <2>1 DEF Init, All
  <2>3. outbound = <<"CH">>
    BY DEF Init
  <2>4. outbound \in Seq({"CH", "CH2"}) /\ outbound # <<>> /\ outbound[1] = "CH"
    BY <2>3
  <2> QED
    BY <1>2, <1>3, <2>2, <2>4 DEF FlightTypes
<1>5. Stream(1, 0)
  <2>1. InTheClear(1)
    <3>1. Plain(22, "HRR") # Plain(20, "CCS") /\ Plain(22, "SH") # Plain(20, "CCS")
      BY DEF Plain
    <3>2. 1 \in 1..Len(inbound) /\ \A i \in 1..1 : i = 1
      BY <1>2
    <3> QED
      BY <1>2, <3>1, <3>2 DEF InTheClear
  <2>2. InFlight(1, 0)
    <3>1. (1 + 1)..(1 + 0) = {} /\ 0 \in Nat /\ 1 + 0 <= Len(inbound) /\ 1 + 0 <= 1
      BY <1>2
    <3>2. cut = Reach(1, 1 + 0)
      BY <3>1 DEF Init, Reach
    <3> QED
      BY <3>1, <3>2 DEF InFlight
  <2>3. InSession(1 + 0)
    <3>1. (1 + 0 + 1)..Len(inbound) = {} /\ ~(1 + 0 < Len(inbound))
      BY <1>2
    <3> QED
      BY <3>1 DEF InSession
  <2> QED
    BY <2>1, <2>2, <2>3 DEF Stream
<1>6. \E b, h \in 0..Len(inbound) : Stream(b, h)
  <2>1. 0 \in 0..Len(inbound) /\ 1 \in 0..Len(inbound)
    BY <1>2
  <2> QED
    BY <1>5, <2>1
<1>7. notary = Unread /\ guest = Unread
  BY DEF Init
<1> QED
  BY <1>4, <1>6, <1>7 DEF FlightInv, TranscriptRight, NotaryReadsAligned, GuestReadsAligned

\* The two bounds of the invariant's quantifier come with the stream.
LEMMA StreamExists ==
  ASSUME FlightTypes, NEW b, NEW h, Stream(b, h)
  PROVE  \E x, y \in 0..Len(inbound) : Stream(x, y)
<1>1. b \in 0..Len(inbound) /\ h \in 0..Len(inbound)
  <2>1. b \in Nat \ {0} /\ h \in Nat /\ Len(inbound) \in Nat /\ b + h <= Len(inbound)
    BY Parts
  <2> QED
    BY <2>1
<1> QED
  BY <1>1

LEMMA FlightStep ==
  ASSUME FlightInv, [Next]_vars PROVE FlightInv'
<1>1. /\ FlightTypes /\ TranscriptRight /\ NotaryReadsAligned /\ GuestReadsAligned
      /\ (notary # Unread => cut = All) /\ (guest # Unread => cut = All /\ ~open)
  BY DEF FlightInv
<1>2. PICK b, h \in 0..Len(inbound) : Stream(b, h)
  BY DEF FlightInv
<1>3. inbound # <<>> /\ cut \in 0..All /\ All \in Nat /\ open \in BOOLEAN
  <2>1. b \in Nat \ {0} /\ Len(inbound) \in Nat /\ b + h <= Len(inbound) /\ h \in Nat
    BY <1>1, <1>2, Parts
  <2>2. Len(inbound) # 0
    BY <2>1
  <2>3. inbound # <<>>
    BY <2>2
  <2> QED
    BY <1>1, <2>3, Pieces DEF FlightTypes
<1>4. SUFFICES /\ FlightTypes' /\ (\E x, y : Stream(x, y)')
               /\ (notary' # Unread => cut' = All')
               /\ (guest' # Unread => cut' = All' /\ ~open')
               /\ TranscriptRight' /\ NotaryReadsAligned' /\ GuestReadsAligned'
  <2>1. ASSUME FlightTypes', NEW x, NEW y, Stream(x, y)'
        PROVE  (\E u, v \in 0..Len(inbound) : Stream(u, v))'
    <3>1. x \in 1..Len(inbound') /\ y \in Nat /\ x + y <= Len(inbound') /\ Len(inbound') \in Nat
      BY <2>1 DEF Stream, InTheClear, InFlight, FlightTypes
    <3>2. x \in 0..Len(inbound') /\ y \in 0..Len(inbound')
      BY <3>1
    <3> QED
      BY <2>1, <3>2
  <2> QED
    BY <2>1 DEF FlightInv
<1> DEFINE Readers == TranscriptRight' /\ NotaryReadsAligned' /\ GuestReadsAligned'
<1>5. CASE HelloAgain
  <2>1. h = 0 /\ cut # All
    BY <1>1, <1>2, <1>5, StreamEnds DEF HelloAgain
  <2>2. inbound' = Append(inbound, Plain(22, "SH")) /\ UNCHANGED <<flight, cut, tail, open, notary, guest>>
    BY <1>5 DEF HelloAgain
  <2>3. FlightTypes'
    BY <1>1, <1>3, <1>5, <2>2, TypesKept DEF HelloAgain
  <2>4. Stream(b + 1, 0)'
    BY <1>1, <1>2, <2>1, <2>2, ClearGrows
  <2>5. notary = Unread /\ guest = Unread
    BY <1>1, <2>1
  <2>6. Readers
    BY <1>1, <2>2, <2>5, ReadersKept
  <2> QED
    BY <2>2, <2>3, <2>4, <2>5, <2>6
<1>6. CASE SendCcs
  <2>1. h = 0 /\ b = 1
    <3>1. b \in Nat \ {0} /\ h \in Nat /\ b + h <= 1
      BY <1>1, <1>2, <1>6, Parts DEF SendCcs
    <3> QED
      BY <3>1
  <2>2. cut # All
    BY <1>1, <1>2, <2>1, StreamEnds
  <2>3. inbound' = Append(inbound, Plain(20, "CCS")) /\ UNCHANGED <<flight, cut, outbound, tail, open, notary, guest>>
    BY <1>6 DEF SendCcs
  <2>4. FlightTypes'
    BY <1>1, <1>3, <2>3, TypesKept
  <2>5. Stream(b + 1, 0)'
    BY <1>1, <1>2, <2>1, <2>3, ClearGrows
  <2>6. notary = Unread /\ guest = Unread
    BY <1>1, <2>2
  <2>7. Readers
    BY <1>1, <2>3, <2>6, ReadersKept
  <2> QED
    BY <2>3, <2>4, <2>5, <2>6, <2>7
<1>7. CASE SendFlight
  <2>1. cut # All /\ cut' \in 0..All
    <3>1. cut < All /\ cut' \in (cut + 1)..All
      BY <1>7 DEF SendFlight
    <3> QED
      BY <1>3, <3>1
  <2>2. /\ \E r : inbound' = Append(inbound, r)
        /\ UNCHANGED <<flight, outbound, tail, open, notary, guest>>
    BY <1>7 DEF SendFlight
  <2>3. FlightTypes'
    BY <1>1, <1>3, <2>1, <2>2, TypesKept
  <2>4. Stream(b, h + 1)'
    BY <1>1, <1>2, <1>7, FlightGrows
  <2>5. notary = Unread /\ guest = Unread
    BY <1>1, <2>1
  <2>6. Readers
    BY <1>1, <2>2, <2>5, ReadersKept
  <2> QED
    BY <2>2, <2>3, <2>4, <2>5, <2>6
<1>8. CASE SendApp
  <2>1. open /\ cut = All /\ UNCHANGED <<flight, cut, outbound, tail, open, notary, guest>>
    BY <1>8 DEF SendApp
  <2>2. \E r : inbound' = Append(inbound, r)
    BY <1>8 DEF SendApp
  <2>3. FlightTypes'
    BY <1>1, <1>3, <2>1, <2>2, TypesKept
  <2>4. /\ Stream(b, h)' /\ Under("hs")' = Under("hs")
        /\ \A i \in Under("hs") \cup {1} : inbound'[i] = inbound[i]
    BY <1>1, <1>2, <1>8, SessionGrows
  <2>5. guest = Unread
    BY <1>1, <2>1
  <2>6. Readers
    BY <1>1, <2>1, <2>4, <2>5, ReadersKept
  <2>7. cut' = All'
    BY <2>1 DEF All
  <2> QED
    BY <2>1, <2>3, <2>4, <2>5, <2>6, <2>7
<1>9. CASE Close
  <2>1. open /\ ~open' /\ open' \in BOOLEAN /\ UNCHANGED <<flight, cut, outbound, inbound, notary, guest>>
    BY <1>9 DEF Close
  <2>2. FlightTypes'
    BY <1>1, <1>3, <2>1, TypesKept
  <2>3. Stream(b, h)'
    BY <1>2, <2>1, StreamKept
  <2>4. guest = Unread
    BY <1>1, <2>1
  <2>5. Readers
    <3>1. Under("hs")' = Under("hs") /\ \A i \in Under("hs") \cup {1} : inbound'[i] = inbound[i]
      BY <2>1 DEF Under
    <3> QED
      BY <1>1, <2>1, <2>4, <3>1, ReadersKept
  <2>6. All' = All
    BY <2>1 DEF All
  <2> QED
    BY <1>1, <2>1, <2>2, <2>3, <2>4, <2>5, <2>6
<1>10. CASE NotaryReads
  <2>1. open /\ cut = All /\ UNCHANGED <<flight, cut, outbound, inbound, tail, open, guest>>
    BY <1>10 DEF NotaryReads
  <2>2. FlightTypes'
    BY <1>1, <1>3, <2>1, TypesKept
  <2>3. Stream(b, h)'
    BY <1>2, <2>1, StreamKept
  <2>4. guest = Unread /\ guest' = Unread /\ cut' = All'
    BY <1>1, <2>1 DEF All
  <2>5. TranscriptRight' /\ NotaryReadsAligned'
    BY <1>1, <1>2, <1>10, <2>4, NotaryReadsRight DEF TranscriptRight, Unread
  <2>6. GuestReadsAligned'
    BY <2>4 DEF GuestReadsAligned
  <2> QED
    BY <2>2, <2>3, <2>4, <2>5, <2>6
<1>11. CASE GuestReads
  <2>1. ~open /\ cut = All /\ UNCHANGED <<flight, cut, outbound, inbound, tail, open, notary>>
    BY <1>11 DEF GuestReads
  <2>2. FlightTypes'
    BY <1>1, <1>3, <2>1, TypesKept
  <2>3. Stream(b, h)'
    BY <1>2, <2>1, StreamKept
  <2>4. cut' = All' /\ ~open'
    BY <2>1 DEF All
  <2>5. guest'.hash \in {Whole', Fail} /\ GuestReadsAligned'
    BY <1>1, <1>2, <1>11, GuestReadsRight
  <2>6. TranscriptRight' /\ NotaryReadsAligned'
    <3>1. (HeaderCut' <=> HeaderCut) /\ (Aligned' <=> Aligned) /\ (Retried' <=> Retried) /\ Whole' = Whole
      BY <2>1 DEF HeaderCut, Aligned, First, Final, Under, Retried, Whole, Sent
    <3> QED
      BY <1>1, <2>1, <2>5, <3>1 DEF TranscriptRight, NotaryReadsAligned
  <2> QED
    BY <2>2, <2>3, <2>4, <2>5, <2>6
<1>12. CASE Terminated \/ UNCHANGED vars
  <2>1. UNCHANGED <<flight, cut, outbound, inbound, tail, open, notary, guest>>
    BY <1>12 DEF Terminated, vars
  <2>2. FlightTypes'
    BY <1>1, <1>3, <2>1, TypesKept
  <2>3. Stream(b, h)'
    BY <1>2, <2>1, StreamKept
  <2>4. Readers
    <3>1. Under("hs")' = Under("hs") /\ \A i \in Under("hs") \cup {1} : inbound'[i] = inbound[i]
      BY <2>1 DEF Under
    <3> QED
      BY <1>1, <2>1, <3>1, ReadersKept
  <2>5. All' = All
    BY <2>1 DEF All
  <2> QED
    BY <1>1, <2>1, <2>2, <2>3, <2>4, <2>5
<1> QED
  BY <1>5, <1>6, <1>7, <1>8, <1>9, <1>10, <1>11, <1>12 DEF Next

\* The capture is always the server's stream: records in the clear, the flight in
\* order, then the session under its own keys and count.
THEOREM FlightInvariant == Spec => []FlightInv
<1>1. Init => FlightInv
  BY FlightInit
<1>2. FlightInv /\ [Next]_vars => FlightInv'
  BY FlightStep
<1> QED
  BY <1>1, <1>2, PTL DEF Spec

\* transcript_hashes_with_ikm and guest main: wherever the flight is cut, each reader
\* gets the hash of what the server sent or none (the notary unless it is cut inside a
\* header), and so never a hash the other does not know.
THEOREM HashesRight == Spec => []TranscriptRight
<1>1. FlightInv => TranscriptRight
  BY DEF FlightInv
<1> QED
  BY <1>1, FlightInvariant, PTL

\* verify_handshake_capture: a flight cut between messages, with or without a
\* CertificateRequest, gives the notary its hash and its certificate chain.
THEOREM NotaryReadsHonest == Spec => []NotaryReadsAligned
<1>1. FlightInv => NotaryReadsAligned
  BY DEF FlightInv
<1> QED
  BY <1>1, FlightInvariant, PTL

\* guest main: of such a flight the guest checks every signature and MAC at its fixed
\* position and opens every record behind it.
THEOREM GuestReadsHonest == Spec => []GuestReadsAligned
<1>1. FlightInv => GuestReadsAligned
  BY DEF FlightInv
<1> QED
  BY <1>1, FlightInvariant, PTL

-----------------------------------------------------------------------------
(* The readers of the bundle.                                              *)

\* The server's first record is where both parsers begin to look for its key.
LEMMA FirstRecord ==
  ASSUME FlightInv
  PROVE  /\ 1 \in DOMAIN inbound /\ FirstHello(inbound) = inbound[1].what
         /\ inbound[1].what = "SH" => inbound[1] = Plain(22, "SH")
<1>1. PICK b, h \in 0..Len(inbound) : Stream(b, h)
  BY DEF FlightInv
<1>2. FlightTypes /\ InTheClear(b)
  BY <1>1 DEF FlightInv, Stream
<1>3. b \in Nat \ {0} /\ Len(inbound) \in Nat /\ h \in Nat /\ b + h <= Len(inbound)
  BY <1>1, <1>2, Parts
<1>4. 1 \in 1..b /\ 1 \in 1..Len(inbound) /\ DOMAIN inbound = 1..Len(inbound)
  BY <1>2, <1>3 DEF FlightTypes
<1>5. inbound[1] \in {Plain(22, "HRR"), Plain(22, "SH")}
  BY <1>2, <1>4 DEF InTheClear
<1>6. FirstHello(inbound) = inbound[1].what
  BY <1>2, HellosShape DEF ServerHello
<1> QED
  BY <1>4, <1>5, <1>6 DEF Plain

\* verify_handshake_capture signs no capture in which one of the parsers finds no key.
LEMMA SignedReadableStep ==
  ASSUME FlightInv, SignedReadable, NotarySigns
  PROVE  SignedReadable'
<1>1. UNCHANGED <<flight, cut, outbound, inbound, tail, open, guest>>
  BY DEF NotarySigns, NotaryReads
<1>2. PICK parsed \in Parses(NotaryMessages), more \in {"none", "header", "body"} :
        notary' = [read |-> TRUE, tail |-> more,
                   hash |-> IF more # "body" /\ ChainFound(parsed) THEN Transcript(parsed) ELSE Fail]
  BY DEF NotarySigns, NotaryReads
<1> DEFINE capture == Capture(notary'.tail)
<1>3. signed' = IF notary'.hash # Fail /\ ToolEpk(capture) = "sh"
                THEN [over |-> capture, epk |-> "sh"] ELSE Unsigned
  BY DEF NotarySigns
<1>4. ASSUME signed' # Unsigned
      PROVE  /\ signed' = [over |-> capture, epk |-> "sh"]
             /\ more # "body" /\ FirstHello(inbound) = "SH"
  <2>1. signed' = [over |-> capture, epk |-> "sh"] /\ notary'.hash # Fail
    BY <1>3, <1>4
  <2>2. more # "body" /\ Transcript(parsed) # Fail
    BY <1>2, <2>1
  <2>3. KeyShare
    BY <2>2 DEF Transcript
  <2> QED
    BY <2>1, <2>2, <2>3 DEF KeyShare, ServerHello
<1>5. capture.inbound = inbound /\ capture.tail = more
  BY <1>2 DEF Capture
<1> HIDE DEF capture
<1> QED
  BY <1>4, <1>5, FirstRecord DEF SignedReadable

\* In a capture that begins with a ServerHello both find its key, unless it ends inside
\* a record's body; the guest finds it in no other.
LEMMA EpkFound ==
  ASSUME NEW capture, 1 \in DOMAIN capture.inbound,
         FirstHello(capture.inbound) = "SH" => capture.inbound[1] = Plain(22, "SH")
  PROVE  /\ GuestEpk(capture) = "sh" => ToolEpk(capture) = "sh"
         /\ GuestEpk(capture) \in {"sh", "none"}
         /\ FirstHello(capture.inbound) = "SH" /\ capture.tail # "body" =>
              GuestEpk(capture) = "sh" /\ ToolEpk(capture) = "sh"
  BY DEF GuestEpk, ToolEpk

\* The tool's checks follow from the guest's, in every state of the notary.
LEMMA ReadersFollow ==
  ASSUME FlightInv, SignedReadable
  PROVE  ReadersAgree
<1>1. ASSUME NEW capture \in Captures
      PROVE  /\ 1 \in DOMAIN capture.inbound
             /\ FirstHello(capture.inbound) = "SH" => capture.inbound[1] = Plain(22, "SH")
  <2>1. CASE capture = Capture(tail)
    <3>1. capture.inbound = inbound
      BY <2>1 DEF Capture
    <3> QED
      BY <3>1, FirstRecord
  <2>2. CASE signed # Unsigned /\ capture = signed.over
    BY <2>2 DEF SignedReadable
  <2> QED
    BY <1>1, <2>1, <2>2 DEF Captures
<1>2. ASSUME NEW shown \in Notarized \cup Foreign, GuestAcceptsBundle(shown)
      PROVE  ToolAccepts(shown)
  <2>1. shown.capture \in Captures /\ shown.epk \in {"sh", "other"}
    <3>1. CASE shown \in Foreign
      BY <3>1 DEF Foreign
    <3>2. CASE shown \in Notarized
      <4>1. signed # Unsigned /\ shown.capture \in Captures /\ shown.epk \in {signed.epk}
        BY <3>2 DEF Notarized
      <4> QED
        BY <4>1 DEF SignedReadable
    <3> QED
      BY <1>2, <3>1, <3>2
  <2>2. ASSUME shown.version >= BINDING
        PROVE  shown.capture = shown.over /\ ToolEpk(shown.capture) = shown.epk
    <3>1. shown.capture = shown.over /\ GuestEpk(shown.capture) = shown.epk
      BY <1>2, <2>2 DEF GuestAcceptsBundle
    <3>2. GuestEpk(shown.capture) = "sh"
      BY <1>1, <2>1, <3>1, EpkFound
    <3>3. ToolEpk(shown.capture) = "sh"
      BY <1>1, <2>1, <3>2, EpkFound
    <3> QED
      BY <3>1, <3>2, <3>3
  <2> QED
    BY <1>2, <2>2 DEF GuestAcceptsBundle, ToolAccepts
<1>3. ASSUME NEW shown \in Notarized, shown.given, shown.named
      PROVE  /\ ToolAccepts(shown) <=> shown.capture = signed.over
             /\ GuestAcceptsBundle(shown) <=> shown.capture = signed.over
  <2>1. /\ signed # Unsigned /\ shown.verifies /\ shown.version = BINDING
        /\ shown.over = signed.over /\ shown.epk = signed.epk
    BY <1>3 DEF Notarized
  <2>2. /\ signed.epk = "sh" /\ signed.over.tail # "body" /\ FirstHello(signed.over.inbound) = "SH"
        /\ 1 \in DOMAIN signed.over.inbound /\ signed.over.inbound[1] = Plain(22, "SH")
    BY <2>1 DEF SignedReadable
  <2>3. GuestEpk(signed.over) = "sh" /\ ToolEpk(signed.over) = "sh"
    BY <2>2, EpkFound
  <2>4. shown.version >= BINDING
    BY <2>1 DEF BINDING
  <2> QED
    BY <1>3, <2>1, <2>2, <2>3, <2>4 DEF ToolAccepts, GuestAcceptsBundle
<1> QED
  BY <1>2, <1>3 DEF ReadersAgree

\* notary_verify and run_notary_path: what the guest accepts the tool accepts, whoever
\* signed it and whatever the capture; and of the notary's own bundle both accept the
\* capture it was signed over and no other, though they parse it each for itself.
THEOREM ReadersOfOneMind == RSpec => []ReadersAgree
<1>1. RInit => FlightInv /\ SignedReadable
  BY FlightInit DEF RInit, SignedReadable
<1>2. FlightInv /\ SignedReadable /\ [RNext]_rvars => FlightInv' /\ SignedReadable'
  <2> SUFFICES ASSUME FlightInv, SignedReadable, [RNext]_rvars
               PROVE  FlightInv' /\ SignedReadable'
    OBVIOUS
  <2>1. [Next]_vars
    BY DEF RNext, rvars, Next, NotarySigns
  <2>2. FlightInv'
    BY <2>1, FlightStep
  <2>3. CASE NotarySigns
    BY <2>2, <2>3, SignedReadableStep
  <2>4. CASE UNCHANGED signed
    BY <2>2, <2>4 DEF SignedReadable, FirstHello
  <2> QED
    BY <2>3, <2>4 DEF RNext, rvars
<1>3. FlightInv /\ SignedReadable => ReadersAgree
  BY ReadersFollow
<1> QED
  BY <1>1, <1>2, <1>3, PTL DEF RSpec

=============================================================================
