SPECIFICATION FairSpec
CONSTANTS
  u1 = u1
  o1 = o1
  Users = {u1}
  OrderIds = {o1}
  NoUser = NoUser
  Owner <- OwnerOfAll
  Service <- AllStandard
  Terms <- SameTerms
  Referrer <- NoReferrers
  BonusDue <- BonusNever
  MaxFlips = 1
CHECK_DEADLOCK FALSE
PROPERTIES
  PaymentIsSettled
  RefundIsHonoured
CONSTRAINT ChecksOrBans
