SPECIFICATION FairSpec
CONSTANTS
  Count = 3
  QueueLimit = 2
  Nodes = {n1, n2}
  PollMax = 2
  MaxLostAcks = 1
  MaxExpiries = 1
  MaxFaults = 2
INVARIANT TypeOK
INVARIANT CommittedIsStored
INVARIANT CopiesExplained
INVARIANT OkIsAccountedFor
PROPERTY EventuallyStored
CHECK_DEADLOCK FALSE
