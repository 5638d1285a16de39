SPECIFICATION SalesSpec
CONSTANTS
  u1 = u1
  u2 = u2
  o1 = o1
  o2 = o2
  o3 = o3
  Users = {u1, u2}
  OrderIds = {o1, o2, o3}
  NoUser = NoUser
  Owner <- OwnerOfAll
  Service <- TopupOrTariff
  Terms <- SameTerms
  Referrer <- ReferredByU2
  BonusDue <- BonusOfTariffs
  MaxFlips = 2
CHECK_DEADLOCK FALSE
INVARIANTS
  TypeOK
  BenefitIffSettled
  PaidNeedsMoney
  AcknowledgedIsDone
  BonusReversedWithRefund
  NoDoubleInvoice
PROPERTIES
  NoGrantWhileBlocked
  PaidIsFinal
