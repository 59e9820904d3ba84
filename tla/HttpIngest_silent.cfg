SPECIFICATION ServerFair
CONSTANTS
  c1 = c1
  c2 = c2
  Clients = {c1, c2}
  Total = 2
  BatchSize = 2
  Invalid <- NoneInvalid
  WholeReads = {c1, c2}
  Backlog = 2
  NumUrls = 2
  Outcomes = {"ok"}
  MaxCopies = 3
PROPERTY SilentClientHarmless
CHECK_DEADLOCK FALSE
