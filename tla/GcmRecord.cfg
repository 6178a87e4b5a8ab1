SPECIFICATION Spec
CONSTANTS
  BlockBytes = 2
  MaxAad = 3
  MaxLen = 5
  Seqs = {0, 1}
INVARIANTS
  IsGcm
  OpensExactlyIntact
