SPECIFICATION Spec
CONSTANTS
  c1 = c1
  c2 = c2
  Clients = {c1}
  Total = 2
  BatchSize = 2
  Invalid <- NoneInvalid
  WholeReads = {}
  Backlog = 1
  NumUrls = 2
  Outcomes = {"ok"}
  MaxCopies = 3
INVARIANT AcceptedIsSent
CHECK_DEADLOCK FALSE
