SPECIFICATION Spec
CONSTANTS
  r1 = r1
  r2 = r2
  r3 = r3
  k1 = k1
  k2 = k2
  s1 = s1
  s2 = s2
  Rows = {r1}
  Keys = {k1}
  KeyOf <- TwoCopies
  Groups = {k1}
  GroupOf <- OwnGroups
  DropsRepeated = TRUE
  Slots = {s1, s2}
  Retries = 1
  SafetyDelay = 2
  MaxLag = 1
  FirstTime = 3
  MaxClock = 5
  ArriveBy = 4
  MaxFaults = 2
  MaxPending = 1
  CountCap = 0
INVARIANT TypeOK
INVARIANT NoSkippedRow
SYMMETRY SlotSymmetry
PROPERTY ImplementsIncrementalCopy
