SPECIFICATION Spec
CONSTANTS
  Paths = {"self_prove", "notary"}
  PaddedPaths = {"notary"}
  Bodies <- MCBodies
  MaxChunks = 2
  MaxRecords = 3
INVARIANTS
  ClaimFromWholeBody
  WholeAnswerAccepted
  TextIsBeginning
CHECK_DEADLOCK FALSE
