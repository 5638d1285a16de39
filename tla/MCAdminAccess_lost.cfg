SPECIFICATION StandardSpec
CONSTANTS
Admins = {a1, a2}
Sessions = {s1, s2}
MaxNumber = 3
Limits = {1, 2}
Day = 3
Grace = 1
Cap = 2
MaxNow = 4
Idle = Idle
Numbers = {1}
MaxEvents = 5
Kinds = {"std", "tap", "renewal"}
CHECK_DEADLOCK FALSE
SYMMETRY Symmetry
INVARIANTS EveryExtensionCounts
