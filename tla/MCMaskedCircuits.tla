-------------------------- MODULE MCMaskedCircuits --------------------------
(* Words in arithmetic progressions, which take the adders through long    *)
(* carries, and blocks of 4 bits.                                          *)
EXTENDS MaskedCircuits

\* The lower halves of the round constants of SHA-256.
MCK == << 12184, 17553, 64463, 56229, 49755, 4593, 33444, 24277, 43672, 23297, 34238,
          32195, 23924, 45566, 1703, 61812, 27073, 18310, 40390, 41420, 11375, 33962,
          43484, 35034, 20818, 50797, 10184, 32711, 3059, 37191, 25425, 10599, 2693,
          8504, 28156, 3347, 29524, 2747, 51502, 11397, 59553, 26187, 35696, 20899,
          59417, 1572, 13701, 41072, 49430, 27656, 30540, 48309, 3251, 43594, 51791,
          28659, 33518, 25455, 30740, 520, 65530, 27883, 41975, 30962 >>

Words(a, c, n) == [j \in 1..n |-> (a * j + c) % Mod]
MCMessages ==
  { [start |-> Words(a, c, 8), blocks |-> << Words(c, a, 16), Words(a + 1, c, 16) >>] :
      a \in {0, 1, 9437, 65535}, c \in {0, 23130, 65535} }

MCCiphers ==
  { [start |-> h, blocks |-> <<x, y>>] :
      h \in [Blk -> 0..1], x \in [Blk -> 0..1], y \in { <<0, 0, 1, 1>>, <<1, 0, 0, 0>>, <<1, 1, 1, 1>> } }

MCMasks == { <<0>>, <<1, 0, 0>> }

=============================================================================
