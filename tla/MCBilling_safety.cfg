SPECIFICATION BillingSpec
CONSTANTS
  t1 = t1
  t2 = t2
  g1 = g1
  b1 = b1
  p1 = p1
  p2 = p2
  w1 = w1
  d1 = d1
  r1 = r1
  r2 = r2
  r3 = r3
  v1 = v1
  v2 = v2
  x1 = x1
  x2 = x2
  ta = ta
  tb = tb
  tc = tc
  None = None
  Tariffs <- SmallTariffs
  NoTariff = NoTariff
  Price <- SmallPrices
  Days <- SmallDays
  Scale = 2
  Day = 2
  Orders = {i1, i2}
  MaxWallet = 1
  MaxDay = 4
  Values = {on, off}
  Default = off
  Writers = {a1, a2}
  Readers = {e1, e2}
  TTL = 2
  MaxNow = 4
  MaxWrites = 2
  Idle = Idle
CHECK_DEADLOCK FALSE
INVARIANTS
  NeverUncommitted
  DaysArePaid
PROPERTIES
  StaleForTTLOnly
  WalletExact
  ReferralsHold
