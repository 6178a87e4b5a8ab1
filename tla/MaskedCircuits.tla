--------------------------- MODULE MaskedCircuits ---------------------------
(***************************************************************************)
(* The masked runs of the two parties: a circuit is evaluated over inputs  *)
(* that only the XOR of what the two put in yields, and its output is      *)
(* masked by the notary, so that each is left with a share of it           *)
(* (notary/src/garble.rs for the SHA-256 compression, notary/src/ghash.rs  *)
(* for GHASH).  The shares of one compression are the chaining value of    *)
(* the next, as in HMAC (notary/src/hkdf.rs).  The garbling itself is      *)
(* external: what it computes is the circuit.                              *)
(***************************************************************************)
EXTENDS CompressCircuit, GhashCircuit

CONSTANTS
  Messages,   \* what is compressed: [start |-> 8 words, blocks |-> blocks of 16 words]
  Ciphers,    \* what is hashed: [start |-> H, blocks |-> blocks], in bits
  Masks       \* bit patterns the parties draw: repeated to the length needed

ASSUME MaskedAssumption ==
  /\ \A m \in Masks : Len(m) > 0
  /\ \A m \in Messages : Len(m.start) = 8 /\ \A i \in DOMAIN m.blocks : Len(m.blocks[i]) = 16

VARIABLES
  circuit,    \* which circuit the two are running: "compress" or "ghash"
  secret,     \* what the shares combine to, known to neither
  held,       \* the shares of the chaining value, or of H; at the end, of the result
  runs,       \* masked runs completed
  mine,       \* inputs of the notary (n) and of the client (c) to the current run
  phase,      \* idle | running | evaluated
  work,       \* words of the schedule, or blocks of the chain not yet taken
  state,      \* the working variables, or the accumulator; when evaluated, the output
  round       \* rounds evaluated

vars == <<circuit, secret, held, runs, mine, phase, work, state, round>>

Repeat(m, n) == [i \in 1..n |-> m[((i - 1) % Len(m)) + 1]]
Zeros(n) == Repeat(<<0>>, n)
BitsOf(words) == FlattenSeq([j \in DOMAIN words |-> Constant(words[j])])

\* n-th group of size bits.
Group(bits, size, n) == SubSeq(bits, (n - 1) * size + 1, n * size)
Groups(bits, size) == [n \in 1..(Len(bits) \div size) |-> Group(bits, size, n)]

\* A secret in two shares, of which the notary's is drawn.
Split(bits, m) == [n |-> Repeat(m, Len(bits)), c |-> XorBits(bits, Repeat(m, Len(bits)))]

OutputBits == IF circuit = "compress" THEN 8 * WordBits ELSE GhashBits
SharedInputs == Len(mine.n) - OutputBits
None == [n |-> <<>>, c |-> <<>>]

Init ==
  /\ \E m \in Masks :
       \/ /\ circuit = "compress" /\ secret \in Messages
          /\ held = Split(BitsOf(secret.start), m)
       \/ /\ circuit = "ghash" /\ secret \in Ciphers
          /\ held = Split(secret.start, m)
  /\ runs = 0 /\ mine = None /\ phase = "idle"
  /\ work = <<>> /\ state = <<>> /\ round = 0

\* What comes behind the chaining value, or behind H.
NextInput ==
  IF circuit = "compress" THEN BitsOf(secret.blocks[runs + 1]) ELSE FlattenSeq(secret.blocks)

More == runs < (IF circuit = "compress" THEN Len(secret.blocks) ELSE 1)

\* Each puts in its shares; the notary adds a mask it draws, the client zeros.
Encode ==
  /\ More /\ phase = "idle" /\ mine = None
  /\ \E s \in Masks, m \in Masks : LET shares == Split(NextInput, s) IN
       mine' = [n |-> held.n \o shares.n \o Repeat(m, OutputBits),
                c |-> held.c \o shares.c \o Zeros(OutputBits)]
  /\ UNCHANGED <<circuit, secret, held, runs, phase, work, state, round>>

\* The inputs of the inner circuit, split into what it takes.
Combined == XorBits(SubSeq(mine.n, 1, SharedInputs), SubSeq(mine.c, 1, SharedInputs))

Combine ==
  /\ phase = "idle" /\ mine # None
  /\ phase' = "running" /\ round' = 0
  /\ IF circuit = "compress"
     THEN /\ state' = SubSeq(Groups(Combined, WordBits), 1, 8)
          /\ work' = SubSeq(Groups(Combined, WordBits), 9, 24)
     ELSE /\ state' = Zeros(GhashBits)
          /\ work' = Tail(Groups(Combined, GhashBits))
  /\ UNCHANGED <<circuit, secret, held, runs, mine>>

\* The gates of one more word of the schedule, of one more round, of the output.
Extend ==
  /\ circuit = "compress" /\ phase = "running" /\ Len(work) < Rounds
  /\ work' = Append(work, ScheduleWord(work))
  /\ UNCHANGED <<circuit, secret, held, runs, mine, phase, state, round>>

OneRound ==
  /\ circuit = "compress" /\ phase = "running" /\ Len(work) = Rounds /\ round < Rounds
  /\ round' = round + 1
  /\ state' = Round(state, K[round + 1], work[round + 1])
  /\ UNCHANGED <<circuit, secret, held, runs, mine, phase, work>>

Finish ==
  /\ circuit = "compress" /\ phase = "running" /\ round = Rounds
  /\ state' = FinalWords(state, Groups(Combined, WordBits)) /\ phase' = "evaluated"
  /\ UNCHANGED <<circuit, secret, held, runs, mine, work, round>>

\* The gates of one more block of GHASH.
OneBlock ==
  /\ circuit = "ghash" /\ phase = "running"
  /\ state' = ChainStep(state, Head(work), Group(Combined, GhashBits, 1))
  /\ work' = Tail(work)
  /\ phase' = IF Len(work) = 1 THEN "evaluated" ELSE phase
  /\ UNCHANGED <<circuit, secret, held, runs, mine, round>>

\* The client decodes the output under both masks; the notary keeps its mask.
Output ==
  /\ phase = "evaluated"
  /\ LET mask(in) == SubSeq(in, SharedInputs + 1, Len(in))
     IN held' = [n |-> mask(mine.n), c |-> XorBits(state, XorBits(mask(mine.n), mask(mine.c)))]
  /\ runs' = runs + 1 /\ mine' = None /\ phase' = "idle"
  /\ work' = <<>> /\ state' = <<>> /\ round' = 0
  /\ UNCHANGED <<circuit, secret>>

Next == Encode \/ Combine \/ Extend \/ OneRound \/ Finish \/ OneBlock \/ Output

Spec == Init /\ [][Next]_vars

-----------------------------------------------------------------------------
(* Properties.                                                             *)

\* The two shares of a chaining value combine to the SHA-256 compression of the
\* blocks so far, whatever shares and masks were drawn: the generated circuit
\* computes FIPS 180-4.
CompressSharesRight ==
  circuit = "compress" /\ phase = "idle" =>
    XorBits(held.n, held.c) = BitsOf(FoldLeft(Fips180, secret.start, SubSeq(secret.blocks, 1, runs)))

\* The two shares of GHASH combine to GHASH of the blocks under H.
GhashSharesRight ==
  circuit = "ghash" /\ runs > 0 =>
    XorBits(held.n, held.c) = GhashOf(secret.start, secret.blocks)
=============================================================================
