------------------------------ MODULE MCOrders ------------------------------
(* Small instances of Orders for TLC: a tariff whose settlement and refund    *)
(* must happen in the end, and a top-up for the findings.                     *)
EXTENDS Orders

CONSTANTS u1, o1

OwnerOfAll == [o \in OrderIds |-> u1]
AllTopup == [o \in OrderIds |-> "topup"]
AllStandard == [o \in OrderIds |-> "standard"]
SameTerms == [o \in OrderIds |-> "terms"]
NoReferrers == [u \in Users |-> NoUser]
BonusNever == [o \in OrderIds |-> FALSE]

\* The liveness run looks at the button "check payment" and at bans one at a
\* time; of checks and bans together it looks at orders that are held.
ChecksOrBans ==
  flips = 0 \/ \A o \in OrderIds : checkCopy[o] = NoCopy \/ checkCopy[o].meta.held
=============================================================================
