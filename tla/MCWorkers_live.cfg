SPECIFICATION WorkersSpec
CONSTANTS
  Workers = {"traffic", "white"}
  Critical = {"white"}
  MaxFailures = 2
  MaxDeaths = 5
  Idle = Idle
  MaxTries = 2
  CreditKinds = {"refund", "request", "block", "crash"}
  MaxEvents = 3
  Relay = FALSE
  Fails = 4
  Successes = 2
  AlertKinds = {"lost", "toggle", "reminder", "crash", "flip"}
  MaxFaults = 6
CHECK_DEADLOCK FALSE
INVARIANTS
  FatalForAReason
  SeriesIsTold
  NewsIsKept
PROPERTIES
  DeadComeBack
  ToldInTheEnd
