SPECIFICATION FairSpec
CONSTANTS
  u1 = u1
  o1 = o1
  Users = {u1}
  OrderIds = {o1}
  NoUser = NoUser
  Owner <- OwnerOfAll
  Service <- AllTopup
  Terms <- SameTerms
  Referrer <- NoReferrers
  BonusDue <- BonusNever
  MaxFlips = 0
CHECK_DEADLOCK FALSE
PROPERTY TopupRefundIsHonoured
