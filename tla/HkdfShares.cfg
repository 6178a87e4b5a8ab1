SPECIFICATION FairSpec
INVARIANTS
  SharesRecombine
  NeitherHoldsSecret
  FailsOnlyIfStopped
PROPERTY
  ScheduleEnds
