SPECIFICATION AdminSpec
CONSTANTS
  a1 = a1
  a2 = a2
  s1 = s1
  s2 = s2
  u1 = u1
  u2 = u2
  Nowhere = Nowhere
  Idle = Idle
  Admins = {a1, a2}
  Sessions = {h1, h2}
  Numbers = {1}
  MaxNumber = 3
  Limits = {1, 2}
  Day = 3
  Grace = 1
  Cap = 2
  MaxNow = 4
  Kinds = {"std", "wi", "bal", "tap", "ban", "device", "renewal", "fail"}
  MaxEvents = 6
  Staff = {a1}
  People = {u1, u2}
  Audiences = {"active_all", "server", "expired"}
  ServerCaps = {"vless"}
  MaxDays = 2
  MaxAmount = 2
  ChunkSize = 1
  Runs = {1, 2}
  Codes = {"c1", "c2"}
  Texts = {"/", "-", "none", "own", "bad", ""}
  Params = {"announce_url", "origin_badge"}
  MaxUser = 2
  Rows = {1, 2}
  BatchSize = 1
SYMMETRY Alike
CHECK_DEADLOCK FALSE
INVARIANTS
  StandardFits
  OncePerKey
  WiExtensionsCount
  HiddenIsNotServed
  GrantsAsTalked
  CompletedReachedAll
PROPERTIES
  ServersHold
