SPECIFICATION FairSpec
CONSTANTS
  r1 = r1
  r2 = r2
  r3 = r3
  k1 = k1
  k2 = k2
  s1 = s1
  s2 = s2
  Rows = {r1, r3}
  Keys = {k1, k2}
  KeyOf <- CopiesAndOther
  Groups = {k1}
  GroupOf <- OneGroup
  DropsRepeated = TRUE
  Slots = {s1}
  Retries = 1
  SafetyDelay = 2
  MaxLag = 1
  FirstTime = 3
  MaxClock = 8
  ArriveBy = 4
  MaxFaults = 2
  MaxPending = 2
  CountCap = 2
INVARIANT NoUncountedVersion
PROPERTY WatermarkAdvances
INVARIANT CountedOncePerCopy
PROPERTY EventuallyPrepared
PROPERTY EventuallyCounted
