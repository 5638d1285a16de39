SPECIFICATION Spec
CONSTANTS
  a = a
  b = b
  Nodes = {a, b}
  NoNode = NoNode
  NoRow = NoRow
  Idle = Idle
  MaxLeft = 2
  MaxEvents = 3
SYMMETRY Interchangeable
CHECK_DEADLOCK FALSE
INVARIANTS
  NoCredentialOrphaned
  SettledIsTrue
