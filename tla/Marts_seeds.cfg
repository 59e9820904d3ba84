SPECIFICATION Spec
CONSTANTS
  Attributes <- MCAttributes
  MartOrders <- MCMartOrders
  Early <- MCEarly
  Slots = {s1}
  BackfillDays = 2
  SafetyDelay = 1
  DayLength = 2
  Retries = 1
  MaxNow = 3
  MaxFailures = 0
INVARIANT SeedsGone
CHECK_DEADLOCK FALSE
