SPECIFICATION FairSpec
CONSTANTS
  good = good
  forged = forged
  None = None
  MaxOps = 3
  Body <- MCBody
  Forged <- MCForged
INVARIANTS
  TypeOK
  BundleAttestsSession
  RejectedNeverLogged
  NonceNeverReused
PROPERTIES
  ImplementsAttestLog
  NotaryReleased
  FinishAnswered
