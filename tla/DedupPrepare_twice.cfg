SPECIFICATION Spec
CONSTANTS
  r1 = r1
  r2 = r2
  r3 = r3
  k1 = k1
  k2 = k2
  s1 = s1
  s2 = s2
  Rows = {r1, r2, r3}
  Keys = {k1, k2}
  KeyOf <- CopiesAndOther
  Groups = {k1, k2}
  GroupOf <- OwnGroups
  DropsRepeated = TRUE
  Slots = {s1}
  Retries = 2
  SafetyDelay = 2
  MaxLag = 1
  FirstTime = 3
  MaxClock = 9
  ArriveBy = 6
  MaxFaults = 0
  MaxPending = 1
  CountCap = 3
INVARIANT NoKeyCountedTwice
