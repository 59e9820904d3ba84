SPECIFICATION Spec
CONSTANTS
  Attributes <- MCAttributes
  MartOrders <- MCMartOrders
  Early <- MCEarly
  Slots = {s1, s2}
  BackfillDays = 2
  SafetyDelay = 1
  DayLength = 2
  Retries = 1
  MaxNow = 3
  MaxFailures = 1
INVARIANT TypeOK
INVARIANT MarkCovers
INVARIANT QuietRunAgrees
PROPERTY NeverBack
CHECK_DEADLOCK FALSE
SYMMETRY Symmetry
