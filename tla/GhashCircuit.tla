--------------------------- MODULE GhashCircuit ---------------------------
(***************************************************************************)
(* The GHASH chain, unrolled over the wires of one circuit                 *)
(* (notary/src/ghash.rs), in a field of GhashBits bits.  The first bit of  *)
(* a block is the coefficient of x^0, as in GCM.                           *)
(***************************************************************************)
EXTENDS Naturals, Sequences, FiniteSets, SequencesExt

CONSTANTS
  GhashBits,  \* bits of a block (128)
  Taps        \* exponents of the field's polynomial below GhashBits ({0, 1, 2, 7})

ASSUME GhashAssumption ==
  GhashBits \in Nat /\ GhashBits > 1 /\ Taps \subseteq 0..(GhashBits - 1) /\ 0 \in Taps

Blk == 1..GhashBits

\* Mutant: the bit shifted out is read after the shift.
StepReadsLate(s, xi) ==
  LET shifted == [j \in Blk |-> IF j = 1 THEN 0 ELSE s.v[j - 1]]
  IN [z |-> [j \in Blk |-> (s.z[j] + xi * s.v[j]) % 2],
      v |-> [j \in Blk |-> IF j - 1 \in Taps THEN (shifted[j] + shifted[GhashBits]) % 2
                                            ELSE shifted[j]]]

\* One bit of x: v is added to z if the bit is set, then shifted by one and reduced.
MulStep(s, xi) ==
  LET shifted == [j \in Blk |-> IF j = 1 THEN 0 ELSE s.v[j - 1]]
  IN [z |-> [j \in Blk |-> (s.z[j] + xi * s.v[j]) % 2],
      v |-> [j \in Blk |-> IF j - 1 \in Taps THEN (shifted[j] + s.v[GhashBits]) % 2
                                            ELSE shifted[j]]]

\* GhashMulCircuit.
Mul(x, y) == FoldLeft(MulStep, [z |-> [j \in Blk |-> 0], v |-> y], x).z

\* GhashChainCircuit: one step of the chain.
ChainStep(acc, block, h) == Mul([j \in Blk |-> (acc[j] + block[j]) % 2], h)

-----------------------------------------------------------------------------
(* NIST SP 800-38D, section 6.4, in polynomials over GF(2), each the set   *)
(* of the exponents it has: the sum of block i times H^(n + 1 - i), of     *)
(* which the remainder by the field's polynomial is taken.                 *)

Odd(S) == Cardinality(S) % 2 = 1
Times(p, q) ==
  { k \in { i + j : i \in p, j \in q } : Odd({ i \in p : \E j \in q : i + j = k }) }
Plus(p, q) == (p \ q) \cup (q \ p)
Polynomial(b) == { j - 1 : j \in { j \in DOMAIN b : b[j] = 1 } }

Remainder(p) == CHOOSE r \in SUBSET (0..(GhashBits - 1)) :
  \E q \in SUBSET (0..(GhashBits - 2)) : Plus(p, r) = Times(q, Taps \cup {GhashBits})

GhashOf(h, blocks) ==
  LET n == Len(blocks)
      power[e \in 1..n] ==
        IF e = 1 THEN Polynomial(h) ELSE Remainder(Times(power[e - 1], Polynomial(h)))
      term(i) == Remainder(Times(Polynomial(blocks[i]), power[n + 1 - i]))
      sum == FoldLeft(LAMBDA p, i : Plus(p, term(i)), {}, [i \in 1..n |-> i])
  IN [j \in Blk |-> IF j - 1 \in sum THEN 1 ELSE 0]
=============================================================================
