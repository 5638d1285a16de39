SPECIFICATION Spec
CONSTANTS
  a = a
  b = b
  Nodes = {a, b}
  NoNode = NoNode
  NoRow = NoRow
  Idle = Idle
  MaxLeft = 2
  MaxEvents = 3
CHECK_DEADLOCK FALSE
PROPERTIES
  DisabledStays
