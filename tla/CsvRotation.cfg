SPECIFICATION FairSpec
CONSTANTS
  Counts = {0, 3}
  RotateEvery = 2
  MaxRuns = 2
  MaxProduced = 6
  MaxClock = 1
  MaxFaults = 2
INVARIANT TypeOK
INVARIANT NoRowLost
INVARIANT CopiesExplained
INVARIANT LossBounded
INVARIANT FinishedIsUploaded
PROPERTY ObjectsImmutable
PROPERTY EventuallyUploaded
CHECK_DEADLOCK FALSE
