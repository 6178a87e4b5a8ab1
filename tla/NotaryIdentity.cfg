SPECIFICATION Spec
CONSTANTS
  Names <- MCNames
  Logs <- MCLogs
  Versions = {1}
  PubKeys = {1, 2, 3, 9}
  OwnKeys = {9}
  LenLimit = 2
  CountLimit = 2
  Proc = {p1, p2}
  MaxStarts = 3
SYMMETRY MCSymmetry
INVARIANTS
  ToldKeyUnlessOwn
  ServedKeyOnDisk
  OnlySignedVerifies
  SignedVerifies
CHECK_DEADLOCK FALSE
