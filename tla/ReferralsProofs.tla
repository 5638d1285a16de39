-------------------------- MODULE ReferralsProofs --------------------------
(* A user who has paid keeps the referrer he had: for any users, messages and *)
(* payments, and any number of them at once.                                 *)
EXTENDS Referrals, FiniteSetTheorems, TLAPS

\* The types that the argument needs; lock, visit and settle are functions of
\* records, so that EXCEPT does what it says.
Shape ==
  /\ referred_by \in [Users -> Users \cup {NoUser}]
  /\ lock \in [Users -> Visits \cup Payments \cup {Free}]
  /\ visit \in [Visits -> [pc : {"off", "read", "locked", "valid", "done"},
                           user : Users \cup {NoUser}, ref : Users \cup {NoUser},
                           copy : Users \cup {NoUser}, new : BOOLEAN]]
  /\ order \in [Payments -> {"pending", "held", "paid", "refunded"}]
  /\ settle \in [Payments -> [pc : {"off", "payer", "both"}, count : Int]]

\* A message that is being handled has a user; past the lock it has his row.
VisitLocks ==
  \A v \in Visits :
    /\ visit[v].pc \in {"read", "locked", "valid"} => visit[v].user \in Users
    /\ visit[v].pc \in {"locked", "valid"} => lock[visit[v].user] = v

\* A settlement has the payer's row.
SettleLocks == \A o \in Payments : settle[o].pc # "off" => lock[Payer[o]] = o

\* What the message has checked under the lock still holds.
UnpaidIfValid == \A v \in Visits : visit[v].pc = "valid" => ~HasPaid(visit[v].user)

FrozenInv == Shape /\ VisitLocks /\ SettleLocks /\ UnpaidIfValid

-----------------------------------------------------------------------------
\* EffectiveCount (grant_referral_bonus_for_topup) is a number.
LEMMA CountIsNumber ==
  ASSUME ConstantsFit, NEW o \in Payments
  PROVE  EffectiveCount(o) \in Int
<1> DEFINE A == ActiveReferrals([order EXCEPT ![o] = "paid"], referred_by[Payer[o]])
<1>1. A \subseteq Users  BY DEF ActiveReferrals
<1>2. IsFiniteSet(A)  BY <1>1, FS_Subset DEF ConstantsFit
<1>3. Cardinality(A) \in Nat  BY <1>2, FS_CardinalityType
<1> QED  BY <1>3 DEF EffectiveCount

\* The end of a transaction (session_scope) frees the rows it had and no other.
LEMMA ReleasesOnlyOwn ==
  ASSUME Shape, NEW t
  PROVE  /\ Releases(t) \in [Users -> Visits \cup Payments \cup {Free}]
         /\ \A u \in Users : lock[u] # t => Releases(t)[u] = lock[u]
BY DEF Shape, Releases

\* Nothing is under way at first.
LEMMA FrozenInit == ASSUME ConstantsFit, Init PROVE FrozenInv
<1>1. Shape  BY DEF Init, Shape, NoVisit, Unsettled
<1>2. VisitLocks /\ SettleLocks /\ UnpaidIfValid
  BY DEF Init, VisitLocks, SettleLocks, UnpaidIfValid, NoVisit, Unsettled
<1> QED  BY <1>1, <1>2 DEF FrozenInv

\* Steps of /start: what is locked is only taken when it was free, and a
\* message becomes valid after has_successful_topup under the lock.
LEMMA VisitStep ==
  ASSUME ConstantsFit, FrozenInv, NEW v \in Visits,
         \/ \E u \in Users, ref \in Users \cup {NoUser} : Arrive(v, u, ref)
         \/ NothingToBind(v) \/ LockOwnRow(v) \/ CheckReferral(v)
         \/ CommitReferral(v) \/ VisitFails(v)
  PROVE  FrozenInv'
<1> USE DEF FrozenInv, ConstantsFit
<1>1. CASE \E u \in Users, ref \in Users \cup {NoUser} : Arrive(v, u, ref)
  <2>1. PICK u \in Users, ref \in Users \cup {NoUser} : Arrive(v, u, ref)  BY <1>1
  <2>2. Shape'  BY <2>1 DEF Arrive, Shape, paymentVars
  <2>3. VisitLocks' /\ SettleLocks'
    BY <2>1 DEF Arrive, Shape, VisitLocks, SettleLocks, RowIsFree, NoVisit, paymentVars
  <2>4. UnpaidIfValid'
    BY <2>1 DEF Arrive, Shape, UnpaidIfValid, HasPaid, paymentVars
  <2> QED  BY <2>2, <2>3, <2>4
<1>2. CASE Ends(v) /\ UNCHANGED <<referred_by, paymentVars>>
  <2>1. Shape'  BY <1>2, ReleasesOnlyOwn DEF Ends, Shape, Done, NoVisit, paymentVars
  <2>2. VisitLocks' /\ SettleLocks'
    BY <1>2, ReleasesOnlyOwn
    DEF Ends, Shape, VisitLocks, SettleLocks, Done, NoVisit, paymentVars
  <2>3. UnpaidIfValid'
    BY <1>2 DEF Ends, Shape, UnpaidIfValid, HasPaid, Done, NoVisit, paymentVars
  <2> QED  BY <2>1, <2>2, <2>3
<1>3. CASE NothingToBind(v)  BY <1>3, <1>2 DEF NothingToBind
<1>4. CASE LockOwnRow(v)
  <2>1. Shape'  BY <1>4 DEF LockOwnRow, Shape, VisitLocks, paymentVars
  <2>2. VisitLocks' /\ SettleLocks'
    BY <1>4 DEF LockOwnRow, Shape, VisitLocks, SettleLocks, paymentVars
  <2>3. UnpaidIfValid'
    BY <1>4 DEF LockOwnRow, Shape, UnpaidIfValid, HasPaid, paymentVars
  <2> QED  BY <2>1, <2>2, <2>3
<1>5. CASE CheckReferral(v)
  <2>1. CASE Bindable(v)
    <3>1. /\ visit' = [visit EXCEPT ![v].pc = "valid"]
          /\ UNCHANGED <<referred_by, lock, order, settle>>
          /\ visit[v].pc = "locked"
      BY <1>5, <2>1, Zenon DEF CheckReferral, paymentVars
    <3>2. Shape'  BY <3>1 DEF Shape
    <3>3. VisitLocks' /\ SettleLocks'  BY <3>1 DEF Shape, VisitLocks, SettleLocks
    <3>4. UnpaidIfValid'
      BY <2>1, <3>1 DEF Bindable, Shape, UnpaidIfValid, HasPaid
    <3> QED  BY <3>2, <3>3, <3>4
  <2>2. CASE ~Bindable(v)  BY <1>5, <2>2, <1>2 DEF CheckReferral
  <2> QED  BY <2>1, <2>2
<1>6. CASE CommitReferral(v)
  <2>1. Shape'
    BY <1>6, ReleasesOnlyOwn
    DEF CommitReferral, Ends, Shape, VisitLocks, Done, NoVisit, paymentVars
  <2>2. VisitLocks' /\ SettleLocks'
    BY <1>6, ReleasesOnlyOwn
    DEF CommitReferral, Ends, Shape, VisitLocks, SettleLocks, Done, NoVisit, paymentVars
  <2>3. UnpaidIfValid'
    BY <1>6
    DEF CommitReferral, Ends, Shape, UnpaidIfValid, HasPaid, Done, NoVisit, paymentVars
  <2> QED  BY <2>1, <2>2, <2>3
<1>7. CASE VisitFails(v)
  <2>1. Shape'  BY <1>7, ReleasesOnlyOwn DEF VisitFails, Shape, Done, NoVisit, paymentVars
  <2>2. VisitLocks' /\ SettleLocks'
    BY <1>7, ReleasesOnlyOwn
    DEF VisitFails, Shape, VisitLocks, SettleLocks, Done, NoVisit, paymentVars
  <2>3. UnpaidIfValid'
    BY <1>7 DEF VisitFails, Shape, UnpaidIfValid, HasPaid, Done, NoVisit, paymentVars
  <2> QED  BY <2>1, <2>2, <2>3
<1> QED  BY <1>1, <1>3, <1>4, <1>5, <1>6, <1>7

\* The transaction of a settlement ends, with the order paid, held or as it
\* was: whoever has checked the payer under his lock is not concerned.
LEMMA SettlementEnds ==
  ASSUME ConstantsFit, FrozenInv, NEW o \in Payments, settle[o].pc # "off",
         order' \in [Payments -> {"pending", "held", "paid", "refunded"}],
         \A p \in Payments \ {o} : order'[p] = order[p],
         settle' = [settle EXCEPT ![o] = Unsettled], lock' = Releases(o),
         UNCHANGED visitVars
  PROVE  FrozenInv'
<1> USE DEF FrozenInv, ConstantsFit, visitVars
<1>1. Shape'  BY ReleasesOnlyOwn DEF Shape, Unsettled
<1>2. VisitLocks' /\ SettleLocks'
  BY ReleasesOnlyOwn DEF Shape, VisitLocks, SettleLocks, Unsettled
<1>3. UnpaidIfValid'
  <2> SUFFICES ASSUME NEW v \in Visits, visit[v].pc = "valid", NEW p \in Payments,
                      Payer[p] = visit[v].user, order'[p] # "pending"
               PROVE  FALSE
    BY DEF UnpaidIfValid, HasPaid
  <2>1. p = o  BY DEF UnpaidIfValid, HasPaid
  <2>2. lock[Payer[o]] = v /\ lock[Payer[o]] = o  BY <2>1 DEF VisitLocks, SettleLocks
  <2> QED  BY <2>2
<1> QED  BY <1>1, <1>2, <1>3

\* Steps of payments (mark_order_paid, grant_referral_bonus_for_topup).
LEMMA PaymentStep ==
  ASSUME ConstantsFit, FrozenInv, NEW o \in Payments,
         \/ LockPayer(o) \/ Hold(o) \/ CountReferrals(o) \/ CommitSettlement(o)
         \/ SettlementFails(o) \/ Refund(o)
  PROVE  FrozenInv'
<1> USE DEF FrozenInv, ConstantsFit
<1>1. CASE LockPayer(o)
  <2>1. Shape'  BY <1>1 DEF LockPayer, Shape, visitVars
  <2>2. VisitLocks' /\ SettleLocks'
    BY <1>1 DEF LockPayer, RowIsFree, Shape, VisitLocks, SettleLocks, visitVars
  <2>3. UnpaidIfValid'  BY <1>1 DEF LockPayer, UnpaidIfValid, HasPaid, visitVars
  <2> QED  BY <2>1, <2>2, <2>3
<1>2. CASE Hold(o)
  <2>1. order' \in [Payments -> {"pending", "held", "paid", "refunded"}]
        /\ \A p \in Payments \ {o} : order'[p] = order[p]
    BY <1>2 DEF Hold, Shape
  <2> QED  BY <1>2, <2>1, SettlementEnds DEF Hold
<1>3. CASE CountReferrals(o)
  <2>1. referred_by[Payer[o]] \in Users  BY <1>3 DEF CountReferrals, Rewarded, Shape
  <2>2. EffectiveCount(o) \in Int  BY CountIsNumber
  <2>3. Shape'  BY <1>3, <2>1, <2>2 DEF CountReferrals, Shape, visitVars
  <2>4. VisitLocks' /\ SettleLocks'
    BY <1>3, <2>1 DEF CountReferrals, RowIsFree, Shape, VisitLocks, SettleLocks, visitVars
  <2>5. UnpaidIfValid'  BY <1>3 DEF CountReferrals, UnpaidIfValid, HasPaid, visitVars
  <2> QED  BY <2>3, <2>4, <2>5
<1>4. CASE CommitSettlement(o)
  <2>1. order' \in [Payments -> {"pending", "held", "paid", "refunded"}]
        /\ \A p \in Payments \ {o} : order'[p] = order[p]
    BY <1>4 DEF CommitSettlement, Shape
  <2>2. settle[o].pc # "off"  BY <1>4 DEF CommitSettlement
  <2> QED  BY <1>4, <2>1, <2>2, SettlementEnds DEF CommitSettlement
<1>5. CASE SettlementFails(o)
  <2>1. order' \in [Payments -> {"pending", "held", "paid", "refunded"}]
        /\ \A p \in Payments \ {o} : order'[p] = order[p]
    BY <1>5 DEF SettlementFails, Shape
  <2> QED  BY <1>5, <2>1, SettlementEnds DEF SettlementFails
<1>6. CASE Refund(o)
  <2>1. Shape'  BY <1>6 DEF Refund, Shape, visitVars
  <2>2. VisitLocks' /\ SettleLocks'
    BY <1>6 DEF Refund, VisitLocks, SettleLocks, visitVars
  <2>3. UnpaidIfValid'
    BY <1>6 DEF Refund, Shape, UnpaidIfValid, HasPaid, visitVars
  <2> QED  BY <2>1, <2>2, <2>3
<1> QED  BY <1>1, <1>2, <1>3, <1>4, <1>5, <1>6

-----------------------------------------------------------------------------
\* FrozenInv is inductive.
LEMMA FrozenStep == ASSUME ConstantsFit, FrozenInv, [Next]_vars PROVE FrozenInv'
<1>1. CASE Next  BY <1>1, VisitStep, PaymentStep DEF Next
<1>2. CASE UNCHANGED vars
  BY <1>2 DEF vars, FrozenInv, Shape, VisitLocks, SettleLocks, UnpaidIfValid, HasPaid
<1> QED  BY <1>1, <1>2

\* The rows of users are never had by two transactions that rely on them:
\* process_onboarding past its lock and a settlement exclude each other, and
\* what the one has checked of payments holds until it commits.
THEOREM RowsAreHeld == ASSUME ConstantsFit PROVE Spec => []FrozenInv
<1>1. Init => FrozenInv  BY FrozenInit
<1>2. FrozenInv /\ [Next]_vars => FrozenInv'  BY FrozenStep
<1> QED  BY <1>1, <1>2, PTL DEF Spec

\* Whatever messages and payments are in flight, the referrer of a user who has
\* paid neither changes nor appears: of all steps only the commit of /start
\* writes referred_by, and its user has paid nothing.
THEOREM PaidIsFrozen == ASSUME ConstantsFit PROVE Spec => [][FrozenOncePaid]_vars
<1>1. ASSUME FrozenInv, Next PROVE FrozenOncePaid
  <2>1. CASE \E v \in Visits : CommitReferral(v)
    <3>1. PICK v \in Visits : CommitReferral(v)  BY <2>1
    <3>2. ~HasPaid(visit[v].user)  BY <1>1, <3>1 DEF CommitReferral, FrozenInv, UnpaidIfValid
    <3> QED  BY <1>1, <3>1, <3>2 DEF CommitReferral, FrozenOncePaid, FrozenInv, Shape
  <2>2. CASE UNCHANGED referred_by  BY <2>2 DEF FrozenOncePaid
  <2>3. (\E v \in Visits : CommitReferral(v)) \/ UNCHANGED referred_by
    BY <1>1 DEF Next, Arrive, NothingToBind, LockOwnRow, CheckReferral, VisitFails, LockPayer,
                Hold, CountReferrals, CommitSettlement, SettlementFails, Refund, visitVars
  <2> QED  BY <2>1, <2>2, <2>3
<1>2. FrozenInv /\ [Next]_vars => [FrozenOncePaid]_vars  BY <1>1
<1> QED  BY <1>2, RowsAreHeld, PTL DEF Spec
=============================================================================
