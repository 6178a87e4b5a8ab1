SPECIFICATION Spec
CONSTANTS
  BlockBytes = 2
  MaxAad = 1
  MaxLen = 3
  Seqs = {0}
INVARIANT
  RoundTrip
