SPECIFICATION FairSpec
CONSTANTS
  Modes = {0, 1, 2}
  Crashes = TRUE
INVARIANTS
  NoMisread
  VerifiedBeforeKeys
  NotaryMasksRecombine
PROPERTIES
  HandlerReleased
  SplitSetupEnds
