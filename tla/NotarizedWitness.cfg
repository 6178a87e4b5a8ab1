SPECIFICATION FairSpec
CONSTANTS
  Modes = {1, 2}
  MaxTickets = 2
  MaxApp = 2
INVARIANTS
  FailsOnlyOutOfStep
  BodyIsPrefix
  CompleteAtAlert
PROPERTY
  SessionEnds
