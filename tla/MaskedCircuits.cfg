SPECIFICATION Spec
CONSTANTS
  WordBits = 16
  Rounds = 64
  K <- MCK
  GhashBits = 4
  Taps = {0, 1}
  Messages <- MCMessages
  Ciphers <- MCCiphers
  Masks <- MCMasks
INVARIANTS
  CompressSharesRight
  GhashSharesRight
CHECK_DEADLOCK FALSE
