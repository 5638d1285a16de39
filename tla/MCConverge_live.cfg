SPECIFICATION ConvergeSpec
CONSTANTS
  a = a
  b = b
  n1 = n1
  NoNode = NoNode
  NoRow = NoRow
  NoEpoch = NoEpoch
  Idle = Idle
  Base = 10
  Packs = {10}
  Cap = 20
  MaxDevices = 2
  Downloads = {9}
  MaxServed = 27
  MaxEvents = 3
CHECK_DEADLOCK FALSE
INVARIANT
  QuotaExact
PROPERTIES
  Converges
  WarnedEventually
  ReplacedIsRevoked
  ServingIsPublished
  KeepsThePots
