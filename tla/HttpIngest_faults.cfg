SPECIFICATION FairSpec
CONSTANTS
  c1 = c1
  c2 = c2
  Clients = {c1, c2}
  Total = 3
  BatchSize = 2
  Invalid <- SecondInvalid
  WholeReads = {c2}
  Backlog = 1
  NumUrls = 2
  Outcomes = {"ok", "refused", "unheard", "rejected", "halfway", "hangs", "swallowed"}
  MaxCopies = 3
INVARIANT TypeOK
INVARIANT ReplyTruthful
INVARIANT StoredIsPrefix
INVARIANT CopiesWithinUrls
INVARIANT OkIsStored
INVARIANT FailsOverInRing
PROPERTY EveryRequestAnswered
CHECK_DEADLOCK FALSE
