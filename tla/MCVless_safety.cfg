SPECIFICATION VlessSpec
CONSTANTS
  n1 = n1
  n2 = n2
  None = None
  Nodes = {n1}
  Metered = {n1, n2}
  Quota = 1
  Kinds = {"anew", "rotate", "fails", "crash"}
  MaxUuid = 3
  MaxVersion = 5
  MaxTasks = 3
  MaxEvents = 3
  MaxServed = 3
  MaxMonth = 2
  MaxFaults = 2
  Idle = Idle
  Hwids = {h1, h2, h3}
  Sessions = {s1, s2}
  Fresh = TRUE
  TTL = 3
  Throttle = 2
  Limits = {1, 2}
  MaxNow = 5
  MaxToken = 2
SYMMETRY Alike
CHECK_DEADLOCK FALSE
INVARIANTS
  CredentialsKept
  TrafficExact
  LimitHolds
  ResetSticks
PROPERTY
  SeatKept
