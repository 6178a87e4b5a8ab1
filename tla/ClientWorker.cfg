SPECIFICATION WFairSpec
CONSTANTS
  good = good
  forged = forged
  None = None
  MaxOps = 4
  MaxCalls = 4
  Capacity = 1
  Body <- MCBoth
  Forged <- MCForged
INVARIANTS
  FailsOnlyWhenBroken
PROPERTIES
  LockstepWhileVerified
  CallsReturn
  ShutdownReturns
  DropReleases
