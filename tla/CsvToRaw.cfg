SPECIFICATION FairSpec
CONSTANTS
  NumObjects = 2
  NumHosts = 2
  Slots = {s1, s2}
  Retries = 1
  Repeatable = {1}
  MaxDowns = 1
  MaxFailures = 1
  CopyCap = 8
INVARIANT TypeOK
INVARIANT MarkedIsDone
INVARIANT CopiesExplained
PROPERTY EventuallyMarked
