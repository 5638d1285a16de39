---------------------------- MODULE OrdersProofs ----------------------------
(* Proofs about Orders.                                                    *)
EXTENDS Orders, TLAPS

\* A checkout under way has no row, and no payment before the answer.
CheckoutInv(o) ==
  /\ o \in creating => status[o] = "absent"
  /\ o \in want => status[o] = "absent" /\ o \notin creating
  /\ o \in want \/ o \in creating \ issued => pay[o] = "none"

\* The row: no row, no benefits; only paid orders are held; access is taken
\* back only by a refund; the gateway's reason is the gateway's answer.
RowInv(o) ==
  /\ status[o] = "absent" => meta[o] = NoMeta
  /\ meta[o].held => status[o] \in {"paid", "refunded"}
  /\ meta[o].reason = "gateway_canceled" => pay[o] = "canceled"
  /\ status[o] # "refunded" => revokes[o] = 0
  /\ pay[o] \in {"none", "pending"} => ~full[o] /\ refund[o] = "none"
  /\ status[o] \in {"paid", "refunded"} => pay[o] = "succeeded" /\ full[o]

\* The benefits of one order.
BenefitInv(o) ==
  /\ <<o, "payment_credit">> \in ledger
       <=> Service[o] = "topup" /\ Settled(o)
  /\ Service[o] = "standard" =>
       grants[o] = revokes[o] + (IF Settled(o) THEN 1 ELSE 0)
  /\ grants[o] <= 1
  /\ <<o, "referral_bonus">> \in ledger =>
       status[o] = "refunded" \/ Settled(o)
  /\ <<o, "referral_reversal">> \in ledger <=>
       status[o] = "refunded" /\ <<o, "referral_bonus">> \in ledger

\* Deliveries and inbox rows follow events that exist, and an answer 200 was
\* given only after the event was acted on.
HookInv(o) ==
  /\ \A t \in EventTypes, seen \in Seen :
       <<<<o, t>>, seen>> \in inflight => EventExists(o, t)
  /\ \A t \in EventTypes : inbox[<<o, t>>] = "succeeded" => EventExists(o, t)
  /\ inbox[<<o, "succeeded">>] = "succeeded" /\ full[o] =>
       status[o] \in {"paid", "refunded"}
  /\ inbox[<<o, "canceled">>] = "succeeded" => status[o] = "canceled"
  /\ inbox[<<o, "refund">>] = "succeeded" /\ refund[o] = "full" =>
       status[o] = "refunded"

\* What a stale copy may still say about the row it was read from.
CheckInv(o) ==
  LET c == checkCopy[o] IN
  /\ c.status # "refunded"
  /\ c.status # "absent" => status[o] # "absent"
  /\ c.status = "paid" => status[o] \in {"paid", "refunded"}
  /\ c.status = "paid" /\ ~c.meta.held => ~meta[o].held
  /\ c.status = "pending" => ~c.meta.held
  /\ c.meta.reason = "gateway_canceled" => pay[o] = "canceled"

\* The ban's copies are pending, and their orders cannot be settled while the
\* ban holds the user row.
BanInv(o) ==
  LET c == banCopy[o] IN
  /\ c.status \in {"absent", "pending"}
  /\ c.status = "pending" =>
       banning[Owner[o]] /\ status[o] \in {"pending", "canceled"}
  /\ ~c.meta.held
  /\ c.meta.reason = "gateway_canceled" => pay[o] = "canceled"

OrderInv(o) ==
  /\ CheckoutInv(o)
  /\ RowInv(o)
  /\ BenefitInv(o)
  /\ HookInv(o)
  /\ CheckInv(o)
  /\ BanInv(o)

IInv == TypeOK /\ \A o \in OrderIds : OrderInv(o)

-----------------------------------------------------------------------------
(* Types                                                                   *)

\* The assumptions on the constants, for the leaves that need them.
LEMMA Assumptions ==
  /\ Owner \in [OrderIds -> Users]
  /\ Service \in [OrderIds -> {"topup", "standard"}]
  /\ MaxFlips \in Nat
BY OwnerAssumption, ServiceAssumption, MaxFlipsAssumption

\* The variables that settlement and refunds of an order write.
WrittenOK ==
  /\ status \in [OrderIds -> Statuses]
  /\ meta \in [OrderIds -> Metas]
  /\ ext \in [OrderIds -> BOOLEAN]
  /\ url \in [OrderIds -> BOOLEAN]
  /\ age \in [OrderIds -> Ages]
  /\ ledger \in SUBSET Entries
  /\ grants \in [OrderIds -> Nat]
  /\ revokes \in [OrderIds -> Nat]

\* Updates of the metadata keep its type.
LEMMA MetaUpdates ==
  ASSUME NEW m \in [OrderIds -> Metas], NEW o \in OrderIds
  PROVE  /\ [m EXCEPT ![o].held = TRUE] \in [OrderIds -> Metas]
         /\ [m EXCEPT ![o].held = FALSE] \in [OrderIds -> Metas]
         /\ [m EXCEPT ![o].review = TRUE] \in [OrderIds -> Metas]
<1>1. m[o] \in Metas
  OBVIOUS
<1>2. ASSUME NEW b \in BOOLEAN
      PROVE  [m EXCEPT ![o].held = b] \in [OrderIds -> Metas]
  <2>1. [m[o] EXCEPT !.held = b] \in Metas
    BY <1>1 DEF Metas
  <2> QED
    BY <2>1
<1>3. [m[o] EXCEPT !.review = TRUE] \in Metas
  BY <1>1 DEF Metas
<1> QED
  BY <1>2, <1>3

\* mark_order_canceled keeps the type of the metadata it writes.
LEMMA CanceledTypes ==
  ASSUME NEW m \in Metas, NEW r \in Reasons
  PROVE  CanceledMeta(m, r) \in Metas
BY DEF Metas, CanceledMeta, Reasons

\* Settling the benefits of an order keeps the types of what it writes.
LEMMA SettleTypes ==
  ASSUME TypeOK, NEW o \in OrderIds, SettleBenefits(o)
  PROVE  /\ ledger' \in SUBSET Entries
         /\ grants' \in [OrderIds -> Nat]
         /\ revokes' \in [OrderIds -> Nat]
BY DEF TypeOK, SettleBenefits, CreditEntries, BonusEntries, FulfillOrder,
       Entries, LedgerKinds

\* mark_order_paid keeps the types of what it writes.
LEMMA PaidTypes ==
  ASSUME TypeOK, NEW o \in OrderIds, NEW covers \in BOOLEAN,
         MarkOrderPaid(o, covers)
  PROVE  WrittenOK'
<1>1. url' \in [OrderIds -> BOOLEAN] /\ age' \in [OrderIds -> Ages]
  BY DEF MarkOrderPaid, TypeOK
<1>2. CASE PaidIgnored(o)
  BY <1>1, <1>2 DEF PaidIgnored, TypeOK, WrittenOK, benefitVars
<1>3. CASE PaidReleased(o)
  <2>1. meta' \in [OrderIds -> Metas]
    <3>1. \/ meta' = meta
          \/ meta' = [meta EXCEPT ![o].held = FALSE]
      BY <1>3 DEF PaidReleased, benefitVars
    <3>2. meta \in [OrderIds -> Metas]
      BY DEF TypeOK
    <3>3. [meta EXCEPT ![o].held = FALSE] \in [OrderIds -> Metas]
      BY <3>2, MetaUpdates
    <3> QED
      BY <3>1, <3>2, <3>3
  <2>2. ledger' \in SUBSET Entries /\ grants' \in [OrderIds -> Nat]
          /\ revokes' \in [OrderIds -> Nat]
    BY <1>3, SettleTypes DEF PaidReleased, TypeOK, benefitVars
  <2> QED
    BY <1>1, <1>3, <2>1, <2>2 DEF PaidReleased, TypeOK, WrittenOK
<1>4. CASE PaidTooLittle(o, covers)
  <2>1. meta' \in [OrderIds -> Metas]
    BY <1>4, MetaUpdates DEF PaidTooLittle, TypeOK
  <2> QED
    BY <1>1, <1>4, <2>1 DEF PaidTooLittle, TypeOK, WrittenOK, benefitVars
<1>5. CASE PaidFresh(o, covers)
  <2>1. meta' \in [OrderIds -> Metas]
    <3>1. \/ meta' = meta
          \/ meta' = [meta EXCEPT ![o].held = TRUE]
      BY <1>5 DEF PaidFresh, benefitVars
    <3>2. meta \in [OrderIds -> Metas]
      BY DEF TypeOK
    <3>3. [meta EXCEPT ![o].held = TRUE] \in [OrderIds -> Metas]
      BY <3>2, MetaUpdates
    <3> QED
      BY <3>1, <3>2, <3>3
  <2>2. ledger' \in SUBSET Entries /\ grants' \in [OrderIds -> Nat]
          /\ revokes' \in [OrderIds -> Nat]
    BY <1>5, SettleTypes DEF PaidFresh, TypeOK, benefitVars
  <2> QED
    BY <1>1, <1>5, <2>1, <2>2 DEF PaidFresh, TypeOK, WrittenOK, Statuses
<1> QED
  BY <1>2, <1>3, <1>4, <1>5 DEF MarkOrderPaid

\* The refund branch keeps the types of what it writes.
LEMMA RefundTypes ==
  ASSUME TypeOK, NEW o \in OrderIds, MarkOrderRefunded(o)
  PROVE  WrittenOK'
<1>1. /\ ext' \in [OrderIds -> BOOLEAN] /\ url' \in [OrderIds -> BOOLEAN]
      /\ age' \in [OrderIds -> Ages]
  BY DEF MarkOrderRefunded, TypeOK
<1>2. CASE RefundIgnored(o)
  BY <1>1, <1>2 DEF RefundIgnored, TypeOK, WrittenOK, benefitVars
<1>3. CASE RefundMismatch(o)
  <2>1. meta' \in [OrderIds -> Metas]
    BY <1>3, MetaUpdates DEF RefundMismatch, TypeOK
  <2> QED
    BY <1>1, <1>3, <2>1 DEF RefundMismatch, TypeOK, WrittenOK, benefitVars
<1>4. CASE RefundTopup(o)
  BY <1>1, <1>4 DEF RefundTopup, TypeOK, WrittenOK, benefitVars, Statuses
<1>5. CASE RefundStandard(o)
  BY <1>1, <1>5 DEF RefundStandard, TypeOK, WrittenOK, Statuses,
                    BonusReversal, Entries, LedgerKinds
<1> QED
  BY <1>2, <1>3, <1>4, <1>5 DEF MarkOrderRefunded

\* A copy of a row is well typed.
LEMMA CopyTypes ==
  ASSUME TypeOK, NEW o \in OrderIds
  PROVE  CopyOf(o) \in Copies
BY DEF TypeOK, CopyOf, Copies

LEMMA NoCopyType == NoCopy \in Copies
BY DEF NoCopy, NoMeta, Copies, Statuses, Metas, Reasons

\* Writing a canceled status and the metadata that goes with it keeps the
\* types of the row.
LEMMA CancelTypes ==
  ASSUME TypeOK, NEW o \in OrderIds, NEW r \in Reasons, CancelOrder(o, r)
  PROVE  /\ status' \in [OrderIds -> Statuses]
         /\ meta' \in [OrderIds -> Metas]
         /\ UNCHANGED <<ext, url, age>>
<1>1. meta[o] \in Metas
  BY DEF TypeOK
<1>2. CanceledMeta(meta[o], r) \in Metas
  BY <1>1, CanceledTypes
<1> QED
  BY <1>2 DEF CancelOrder, TypeOK, Statuses

\* Steps of the checkout keep the types.
LEMMA CheckoutTypes ==
  ASSUME TypeOK, NEW o \in OrderIds,
         \/ RequestOrder(o) \/ LockCheckout(o) \/ GatewayIssues(o)
         \/ CommitIssued(o) \/ CommitAmbiguous(o) \/ AbortCheckout(o)
  PROVE  TypeOK'
<1> USE DEF rowVars, providerVars, createVars, hookVars, flagVars, banVars,
            benefitVars
<1>1. CASE RequestOrder(o)
  BY <1>1 DEF RequestOrder, TypeOK
<1>2. CASE LockCheckout(o)
  BY <1>2 DEF LockCheckout, TypeOK
<1>3. CASE GatewayIssues(o)
  BY <1>3 DEF GatewayIssues, TypeOK
<1>4. CASE CommitIssued(o)
  BY <1>4 DEF CommitIssued, CommitOrder, TypeOK, Statuses
<1>5. CASE CommitAmbiguous(o)
  BY <1>5 DEF CommitAmbiguous, CommitOrder, TypeOK, Statuses
<1>6. CASE AbortCheckout(o)
  BY <1>6 DEF AbortCheckout, TypeOK
<1> QED
  BY <1>1, <1>2, <1>3, <1>4, <1>5, <1>6

\* Steps of the provider keep the types.
LEMMA ProviderTypes ==
  ASSUME TypeOK, NEW o \in OrderIds,
         PaymentSucceeds(o) \/ PaymentCanceled(o) \/ RefundMade(o)
  PROVE  TypeOK'
<1> USE DEF rowVars, providerVars, createVars, hookVars, flagVars, banVars,
            benefitVars
<1>1. CASE PaymentSucceeds(o)
  BY <1>1 DEF PaymentSucceeds, TypeOK
<1>2. CASE PaymentCanceled(o)
  BY <1>2 DEF PaymentCanceled, TypeOK
<1>3. CASE RefundMade(o)
  BY <1>3 DEF RefundMade, TypeOK
<1> QED
  BY <1>1, <1>2, <1>3

\* A step that writes only what settlement and refunds write.
LEMMA WrittenTypes ==
  ASSUME TypeOK, WrittenOK',
         UNCHANGED <<providerVars, createVars, hookVars, flagVars, banVars,
                     checkCopy>>
  PROVE  TypeOK'
BY DEF TypeOK, WrittenOK, providerVars, createVars, hookVars, flagVars, banVars

\* Cancellation, expiry, reconciliation and the clock keep the types.
LEMMA WorkerTypes ==
  ASSUME TypeOK, NEW o \in OrderIds,
         OrderCancel(o) \/ Reconcile(o) \/ Expire(o) \/ Tick(o)
  PROVE  TypeOK'
<1>1. CASE OrderCancel(o)
  <2>1. CancelOrder(o, "user_canceled") /\ "user_canceled" \in Reasons
    BY <1>1 DEF OrderCancel, Reasons
  <2>2. WrittenOK'
    BY <1>1, <2>1, CancelTypes DEF OrderCancel, benefitVars, TypeOK, WrittenOK
  <2> QED
    BY <1>1, <2>2, WrittenTypes DEF OrderCancel
<1>2. CASE Reconcile(o)
  <2>1. CASE MarkOrderPaid(o, full[o])
    <3>1. full[o] \in BOOLEAN
      BY DEF TypeOK
    <3>2. WrittenOK'
      BY <2>1, <3>1, PaidTypes
    <3> QED
      BY <1>2, <3>2, WrittenTypes DEF Reconcile
  <2>2. ASSUME NEW r \in GatewayReasons, CancelOrder(o, r),
               UNCHANGED benefitVars
        PROVE  TypeOK'
    <3>1. r \in Reasons
      BY DEF GatewayReasons, Reasons
    <3>2. WrittenOK'
      BY <2>2, <3>1, CancelTypes DEF benefitVars, TypeOK, WrittenOK
    <3> QED
      BY <1>2, <3>2, WrittenTypes DEF Reconcile
  <2> QED
    BY <1>2, <2>1, <2>2 DEF Reconcile
<1>3. CASE Expire(o)
  <2>1. PICK r \in Reasons : CancelOrder(o, r)
    BY <1>3 DEF Expire, Reasons
  <2>2. WrittenOK'
    BY <1>3, <2>1, CancelTypes DEF Expire, benefitVars, TypeOK, WrittenOK
  <2> QED
    BY <1>3, <2>2, WrittenTypes DEF Expire
<1>4. CASE Tick(o)
  BY <1>4 DEF Tick, TypeOK, Ages, providerVars, createVars, hookVars,
              flagVars, banVars, benefitVars
<1> QED
  BY <1>1, <1>2, <1>3, <1>4

\* Deliveries keep the types.
LEMMA HookTypes ==
  ASSUME TypeOK, NEW o \in OrderIds, NEW t \in EventTypes, HookStep(o, t)
  PROVE  TypeOK'
<1> DEFINE e == <<o, t>>
<1>1. e \in Events
  BY DEF Events
<1>2. CASE WebhookReceive(o, t)
  <2>1. inflight' \in SUBSET (Events \X Seen)
    BY <1>1, <1>2 DEF WebhookReceive, TypeOK
  <2> QED
    BY <1>2, <2>1 DEF WebhookReceive, TypeOK, rowVars, providerVars,
                      createVars, flagVars, banVars, benefitVars
<1>3. ASSUME NEW seen \in Seen, WebhookFails(o, t, seen)
      PROVE  TypeOK'
  <2>1. inflight' \in SUBSET (Events \X Seen)
    BY <1>3 DEF WebhookFails, TypeOK
  <2> QED
    BY <1>3, <2>1 DEF WebhookFails, TypeOK, rowVars, providerVars,
                      createVars, flagVars, banVars, benefitVars
<1>4. ASSUME NEW seen \in Seen, WebhookProcess(o, t, seen)
      PROVE  TypeOK'
  <2>1. inflight' \in SUBSET (Events \X Seen)
    BY <1>4 DEF WebhookProcess, DeliveryEnds, TypeOK
  <2>2. ASSUME NEW x \in InboxStatuses, RecordOutcome(e, seen, x)
        PROVE  inbox' \in [Events -> InboxStatuses]
    BY <1>1, <2>2 DEF RecordOutcome, TypeOK
  <2>3. WrittenOK' /\ inbox' \in [Events -> InboxStatuses]
    <3> USE DEF InboxStatuses
    <3>1. CASE UnknownOrder(o, t, seen)
      BY <2>2, <3>1 DEF UnknownOrder, TypeOK, WrittenOK, rowVars, benefitVars
    <3>2. CASE t = "succeeded" /\ SucceededEvent(o, seen)
      <4>1. full[o] \in BOOLEAN
        BY DEF TypeOK
      <4> QED
        BY <2>2, <3>2, <4>1, PaidTypes DEF SucceededEvent
    <3>3. CASE t = "canceled" /\ CanceledEvent(o, seen)
      <4>1. meta[o] \in Metas /\ "gateway_canceled" \in Reasons
        BY DEF TypeOK, Reasons
      <4>2. CanceledMeta(meta[o], "gateway_canceled") \in Metas
        BY <4>1, CanceledTypes
      <4>3. meta' \in [OrderIds -> Metas]
        BY <3>3, <4>2 DEF CanceledEvent, TypeOK
      <4> QED
        BY <2>2, <3>3, <4>3
           DEF CanceledEvent, TypeOK, WrittenOK, benefitVars, Statuses
    <3>4. CASE t = "refund" /\ RefundEvent(o, seen)
      <4>1. WrittenOK'
        BY <3>4, RefundTypes
           DEF RefundEvent, TypeOK, WrittenOK, rowVars, benefitVars
      <4> QED
        BY <2>2, <3>4, <4>1 DEF RefundEvent
    <3> QED
      BY <1>4, <3>1, <3>2, <3>3, <3>4 DEF WebhookProcess
  <2> QED
    BY <1>4, <2>1, <2>3 DEF WebhookProcess, TypeOK, WrittenOK, providerVars,
                            createVars, flagVars, banVars
<1> QED
  BY <1>2, <1>3, <1>4 DEF HookStep

\* order_check keeps the types.
LEMMA CheckTypes ==
  ASSUME TypeOK, NEW o \in OrderIds,
         \/ CheckRead(o) \/ CheckReleaseHeld(o) \/ CheckNotify(o)
         \/ CheckGateway(o) \/ CheckFails(o)
  PROVE  TypeOK'
<1>1. CASE CheckRead(o)
  BY <1>1, CopyTypes DEF CheckRead, TypeOK, rowVars, providerVars, createVars,
                         hookVars, flagVars, banVars, benefitVars
<1>2. ASSUME WrittenOK', CheckEnds(o)
      PROVE  TypeOK'
  BY <1>2, NoCopyType DEF CheckEnds, TypeOK, WrittenOK, providerVars,
                          createVars, hookVars, flagVars, banVars
<1>3. CASE CheckReleaseHeld(o)
  BY <1>2, <1>3, PaidTypes DEF CheckReleaseHeld
<1>4. checkCopy[o].meta \in Metas
  BY DEF TypeOK, Copies
<1>5. CASE CheckNotify(o)
  <2>1. meta' \in [OrderIds -> Metas]
    BY <1>4, <1>5 DEF CheckNotify, TypeOK
  <2> QED
    BY <1>2, <1>5, <2>1 DEF CheckNotify, TypeOK, WrittenOK, benefitVars
<1>6. CASE CheckGateway(o)
  <2>1. CASE MarkOrderPaid(o, full[o])
    <3>1. full[o] \in BOOLEAN
      BY DEF TypeOK
    <3> QED
      BY <1>2, <1>6, <2>1, <3>1, PaidTypes DEF CheckGateway
  <2>2. ASSUME NEW r \in GatewayReasons, WriteCanceledCopy(o, r)
        PROVE  TypeOK'
    <3>1. r \in Reasons
      BY DEF GatewayReasons, Reasons
    <3>2. CanceledMeta(checkCopy[o].meta, r) \in Metas
      BY <1>4, <3>1, CanceledTypes
    <3>3. WrittenOK'
      BY <2>2, <3>2 DEF WriteCanceledCopy, TypeOK, WrittenOK, Statuses,
                        benefitVars
    <3> QED
      BY <1>2, <1>6, <3>3 DEF CheckGateway
  <2>3. CASE UNCHANGED <<rowVars, benefitVars>>
    <3>1. WrittenOK'
      BY <2>3 DEF TypeOK, WrittenOK, rowVars, benefitVars
    <3> QED
      BY <1>2, <1>6, <3>1 DEF CheckGateway
  <2> QED
    BY <1>6, <2>1, <2>2, <2>3 DEF CheckGateway
<1>7. CASE CheckFails(o)
  BY <1>2, <1>7 DEF CheckFails, TypeOK, WrittenOK, rowVars, benefitVars
<1> QED
  BY <1>1, <1>3, <1>5, <1>6, <1>7

\* Bans and flags keep the types.
LEMMA UserTypes ==
  ASSUME TypeOK, NEW u \in Users, UserStep(u)
  PROVE  TypeOK'
<1> USE DEF rowVars, providerVars, createVars, hookVars, flagVars, banVars,
            benefitVars
<1>1. CASE BanBegin(u)
  <2>1. banCopy' \in [OrderIds -> Copies]
    BY <1>1, CopyTypes DEF BanBegin, TypeOK
  <2>2. flips' \in 0..MaxFlips
    BY <1>1, Assumptions DEF BanBegin, TypeOK
  <2> QED
    BY <1>1, <2>1, <2>2 DEF BanBegin, TypeOK
<1>2. ASSUME BanEnds(u),
             status' \in [OrderIds -> Statuses], meta' \in [OrderIds -> Metas],
             banned' \in [Users -> BOOLEAN]
      PROVE  TypeOK'
  BY <1>2, NoCopyType DEF BanEnds, TypeOK
<1>3. CASE BanCommit(u)
  <2>1. \A o \in OrderIds : CanceledMeta(banCopy[o].meta, "user_banned") \in Metas
    <3>1. \A o \in OrderIds : banCopy[o].meta \in Metas
      BY DEF TypeOK, Copies
    <3>2. "user_banned" \in Reasons
      BY DEF Reasons
    <3> QED
      BY <3>1, <3>2, CanceledTypes
  <2>2. meta' \in [OrderIds -> Metas]
    BY <1>3, <2>1 DEF BanCommit, TypeOK
  <2>3. status' \in [OrderIds -> Statuses]
    BY <1>3 DEF BanCommit, TypeOK, Statuses
  <2>4. banned' \in [Users -> BOOLEAN]
    BY <1>3 DEF BanCommit, TypeOK
  <2> QED
    BY <1>2, <1>3, <2>2, <2>3, <2>4 DEF BanCommit
<1>4. CASE BanAbort(u)
  BY <1>2, <1>4 DEF BanAbort, TypeOK
<1>5. CASE Unban(u)
  BY <1>5 DEF Unban, TypeOK
<1>6. CASE FlagFlip(u)
  <2>1. flips' \in 0..MaxFlips
    BY <1>6, Assumptions DEF FlagFlip, TypeOK
  <2> QED
    BY <1>6, <2>1 DEF FlagFlip, TypeOK
<1> QED
  BY <1>1, <1>3, <1>4, <1>5, <1>6 DEF UserStep

\* The initial state is well typed, and every step keeps the types.
LEMMA InitTypes == Init => TypeOK
BY Assumptions, NoCopyType
   DEF Init, TypeOK, Statuses, NoMeta, Metas, Reasons, Ages, InboxStatuses,
       Entries

LEMMA NextTypes == TypeOK /\ [Next]_vars => TypeOK'
<1> SUFFICES ASSUME TypeOK, [Next]_vars
             PROVE  TypeOK'
  OBVIOUS
<1>1. ASSUME NEW o \in OrderIds, OrderStep(o)
      PROVE  TypeOK'
  BY <1>1, CheckoutTypes, ProviderTypes, WorkerTypes, CheckTypes DEF OrderStep
<1>2. ASSUME NEW o \in OrderIds, NEW t \in EventTypes, HookStep(o, t)
      PROVE  TypeOK'
  BY <1>2, HookTypes
<1>3. ASSUME NEW u \in Users, UserStep(u)
      PROVE  TypeOK'
  BY <1>3, UserTypes
<1>4. CASE UNCHANGED vars
  BY <1>4 DEF vars, TypeOK, rowVars, providerVars, createVars, hookVars,
              flagVars, banVars, benefitVars
<1> QED
  BY <1>1, <1>2, <1>3, <1>4 DEF Next

\* Every variable keeps its type: the flags, copies and inbox rows that the
\* transactions write are ones that the code can store.
THEOREM TypeInvariant == Spec => []TypeOK
<1>1. Init => TypeOK
  BY InitTypes
<1>2. TypeOK /\ [Next]_vars => TypeOK'
  BY NextTypes
<1> QED
  BY <1>1, <1>2, PTL DEF Spec

-----------------------------------------------------------------------------
(* The inductive invariant                                                 *)

\* What OrderInv(p) reads is the same before and after the step.
SameOrder(p) ==
  /\ status'[p] = status[p] /\ meta'[p] = meta[p]
  /\ pay'[p] = pay[p] /\ full'[p] = full[p] /\ refund'[p] = refund[p]
  /\ p \in want' <=> p \in want
  /\ p \in creating' <=> p \in creating
  /\ p \in issued' <=> p \in issued
  /\ \A t \in EventTypes : inbox'[<<p, t>>] = inbox[<<p, t>>]
  /\ \A t \in EventTypes, seen \in Seen :
       <<<<p, t>>, seen>> \in inflight' <=> <<<<p, t>>, seen>> \in inflight
  /\ checkCopy'[p] = checkCopy[p]
  /\ banCopy'[p] = banCopy[p]
  /\ banning'[Owner[p]] = banning[Owner[p]]
  /\ \A k \in LedgerKinds : <<p, k>> \in ledger' <=> <<p, k>> \in ledger
  /\ grants'[p] = grants[p] /\ revokes'[p] = revokes[p]

\* A step that does not touch an order keeps its invariant.
LEMMA Frame ==
  ASSUME NEW p \in OrderIds, OrderInv(p), SameOrder(p)
  PROVE  OrderInv(p)'
<1> USE DEF OrderInv, SameOrder, Settled
<1>1. CheckoutInv(p)'
  BY DEF CheckoutInv
<1>2. RowInv(p)'
  BY DEF RowInv
<1>3. BenefitInv(p)'
  BY DEF BenefitInv, LedgerKinds
<1>4. HookInv(p)'
  BY DEF HookInv, EventExists, EventTypes, Seen
<1>5. CheckInv(p)'
  BY DEF CheckInv
<1>6. BanInv(p)'
  BY DEF BanInv
<1> QED
  BY <1>1, <1>2, <1>3, <1>4, <1>5, <1>6

\* A checkout step touches only an order without a row.
LEMMA CheckoutStep ==
  ASSUME TypeOK, NEW o \in OrderIds, OrderInv(o),
         \/ RequestOrder(o) \/ LockCheckout(o) \/ GatewayIssues(o)
         \/ CommitIssued(o) \/ CommitAmbiguous(o) \/ AbortCheckout(o)
  PROVE  /\ OrderInv(o)'
         /\ \A p \in OrderIds \ {o} : SameOrder(p)
<1> USE DEF rowVars, providerVars, createVars, hookVars, flagVars, banVars,
            benefitVars, OrderInv, CheckoutInv, RowInv, BenefitInv, HookInv,
            CheckInv, BanInv, Settled, EventExists, SameOrder
<1>1. CASE RequestOrder(o)
  BY <1>1 DEF RequestOrder, TypeOK
<1>2. CASE LockCheckout(o)
  BY <1>2 DEF LockCheckout, TypeOK
<1>3. CASE GatewayIssues(o)
  BY <1>3 DEF GatewayIssues, TypeOK
<1>4. CASE CommitIssued(o)
  BY <1>4 DEF CommitIssued, CommitOrder, TypeOK
<1>5. CASE CommitAmbiguous(o)
  BY <1>5 DEF CommitAmbiguous, CommitOrder, TypeOK
<1>6. CASE AbortCheckout(o)
  BY <1>6 DEF AbortCheckout, TypeOK
<1> QED
  BY <1>1, <1>2, <1>3, <1>4, <1>5, <1>6


\* The provider's steps: a final answer never changes, and only a succeeded
\* payment has an amount or a refund.
LEMMA ProviderStep ==
  ASSUME TypeOK, NEW o \in OrderIds, OrderInv(o),
         PaymentSucceeds(o) \/ PaymentCanceled(o) \/ RefundMade(o)
  PROVE  /\ OrderInv(o)'
         /\ \A p \in OrderIds \ {o} : SameOrder(p)
<1> USE DEF rowVars, providerVars, createVars, hookVars, flagVars, banVars,
            benefitVars, OrderInv, CheckoutInv, RowInv, BenefitInv, HookInv,
            CheckInv, BanInv, Settled, EventExists, SameOrder
<1>1. CASE PaymentSucceeds(o)
  BY <1>1 DEF PaymentSucceeds, TypeOK, EventTypes, Seen
<1>2. CASE PaymentCanceled(o)
  BY <1>2 DEF PaymentCanceled, TypeOK, EventTypes, Seen
<1>3. CASE RefundMade(o)
  BY <1>3 DEF RefundMade, TypeOK, EventTypes, Seen
<1> QED
  BY <1>1, <1>2, <1>3

\* What the invariant needs to know of a step that writes the row of o and
\* the benefits of o: nothing else moves, and a stale copy stays true.
RowStep(o) ==
  /\ UNCHANGED <<providerVars, want, creating, issued, banning>>
  /\ \A p \in OrderIds \ {o} :
       /\ status'[p] = status[p] /\ meta'[p] = meta[p]
       /\ grants'[p] = grants[p] /\ revokes'[p] = revokes[p]
       /\ \A k \in LedgerKinds : <<p, k>> \in ledger' <=> <<p, k>> \in ledger
  /\ status[o] # "absent" /\ status'[o] # "absent"
  /\ status[o] \in {"paid", "refunded"} =>
       /\ status'[o] \in {"paid", "refunded"}
       /\ ~meta[o].held => ~meta'[o].held
  /\ banning[Owner[o]] /\ status[o] \in {"pending", "canceled"} =>
       status'[o] \in {"pending", "canceled"}
  /\ status[o] = "refunded" => status'[o] = "refunded"
  /\ status'[o] = "pending" => status[o] = "pending"
  /\ status[o] = "canceled" /\ pay[o] = "canceled" => status'[o] = "canceled"

\* Changing one flag of one order's metadata.
LEMMA MetaEffect ==
  ASSUME TypeOK, NEW o \in OrderIds, NEW b \in BOOLEAN
  PROVE  /\ meta' = [meta EXCEPT ![o].held = b] =>
              /\ meta'[o].held = b /\ meta'[o].reason = meta[o].reason
              /\ \A p \in OrderIds \ {o} : meta'[p] = meta[p]
         /\ meta' = [meta EXCEPT ![o].review = b] =>
              /\ meta'[o].held = meta[o].held
              /\ meta'[o].reason = meta[o].reason
              /\ \A p \in OrderIds \ {o} : meta'[p] = meta[p]
BY DEF TypeOK, Metas

\* What _settle_benefits adds, and for whom.
LEMMA SettleEffect ==
  ASSUME TypeOK, NEW o \in OrderIds, SettleBenefits(o)
  PROVE  /\ \A p \in OrderIds \ {o} :
              /\ grants'[p] = grants[p]
              /\ \A k \in LedgerKinds :
                   <<p, k>> \in ledger' <=> <<p, k>> \in ledger
         /\ <<o, "payment_credit">> \in ledger' <=>
              Service[o] = "topup" \/ <<o, "payment_credit">> \in ledger
         /\ <<o, "referral_reversal">> \in ledger' <=>
              <<o, "referral_reversal">> \in ledger
         /\ Service[o] = "standard" => grants'[o] = grants[o] + 1
         /\ Service[o] # "standard" => grants'[o] = grants[o]
         /\ revokes' = revokes
BY DEF SettleBenefits, CreditEntries, BonusEntries, FulfillOrder, TypeOK,
       LedgerKinds

\* mark_order_paid, when it settles only with money.
LEMMA PaidStep ==
  ASSUME TypeOK, NEW o \in OrderIds, OrderInv(o), status[o] # "absent",
         NEW covers \in BOOLEAN, MarkOrderPaid(o, covers),
         covers /\ Payable(o) => pay[o] = "succeeded" /\ full[o],
         UNCHANGED <<providerVars, createVars, flagVars, banVars>>
  PROVE  /\ RowStep(o)
         /\ RowInv(o)'
         /\ BenefitInv(o)'
         /\ covers /\ meta[o].reason # "gateway_canceled" =>
              status'[o] \in {"paid", "refunded"}
         /\ status[o] # status'[o] => pay[o] = "succeeded"
<1> USE DEF providerVars, createVars, flagVars, banVars, benefitVars, OrderInv,
            RowInv, BenefitInv, Settled, RowStep
<1>1. CASE PaidIgnored(o)
  BY <1>1 DEF PaidIgnored, TypeOK, BanInv, Metas
<1>2. CASE PaidReleased(o)
  <2>1. CASE SettlementBlocked(o)
    BY <1>2, <2>1 DEF PaidReleased, TypeOK, Metas
  <2>2. CASE ~SettlementBlocked(o)
    <3>1. /\ status' = status /\ status[o] = "paid" /\ meta[o].held
          /\ SettleBenefits(o) /\ meta' = [meta EXCEPT ![o].held = FALSE]
      BY <1>2, <2>2 DEF PaidReleased
    <3>2. /\ meta'[o].held = FALSE /\ meta'[o].reason = meta[o].reason
          /\ \A p \in OrderIds \ {o} : meta'[p] = meta[p]
      BY <3>1, MetaEffect
    <3>3. Service[o] \in {"topup", "standard"}
      BY Assumptions
    <3>4. grants[o] \in Nat /\ revokes[o] \in Nat
      BY DEF TypeOK
    <3> QED
      <4>1. RowStep(o)
        BY <3>1, <3>2, SettleEffect
      <4>2. RowInv(o)'
        BY <3>1, <3>2, SettleEffect
      <4>3. BenefitInv(o)'
        BY <3>1, <3>2, <3>3, <3>4, SettleEffect
      <4> QED
        BY <3>1, <4>1, <4>2, <4>3
  <2> QED
    BY <2>1, <2>2
<1>3. CASE PaidTooLittle(o, covers)
  BY <1>3 DEF PaidTooLittle, Payable, TypeOK, LedgerKinds, Metas
<1>4. CASE PaidFresh(o, covers)
  <2>1. /\ status' = [status EXCEPT ![o] = "paid"]
        /\ ~banning[Owner[o]] /\ pay[o] = "succeeded" /\ full[o]
        /\ status[o] \in {"pending", "canceled"}
        /\ meta[o].reason # "gateway_canceled"
    BY <1>4 DEF PaidFresh, Payable, UserRowFree
  <2>2. /\ status'[o] = "paid"
        /\ \A p \in OrderIds \ {o} : status'[p] = status[p]
    BY <2>1 DEF TypeOK
  <2>3. ~meta[o].held /\ Service[o] \in {"topup", "standard"}
        /\ grants[o] \in Nat /\ revokes[o] \in Nat
    BY <2>1, Assumptions DEF TypeOK
  <2>4. CASE SettlementBlocked(o)
    <3>1. meta' = [meta EXCEPT ![o].held = TRUE] /\ UNCHANGED benefitVars
      BY <1>4, <2>4 DEF PaidFresh
    <3>2. /\ meta'[o].held = TRUE /\ meta'[o].reason = meta[o].reason
          /\ \A p \in OrderIds \ {o} : meta'[p] = meta[p]
      BY <3>1, MetaEffect
    <3> QED
      BY <2>1, <2>2, <2>3, <3>1, <3>2
  <2>5. CASE ~SettlementBlocked(o)
    <3>1. SettleBenefits(o) /\ meta' = meta
      BY <1>4, <2>5 DEF PaidFresh
    <3> QED
      <4>1. RowStep(o)
        BY <2>1, <2>2, <2>3, <3>1, SettleEffect
      <4>2. RowInv(o)'
        BY <2>1, <2>2, <2>3, <3>1, SettleEffect
      <4>3. BenefitInv(o)'
        BY <2>1, <2>2, <2>3, <3>1, SettleEffect
      <4> QED
        BY <2>1, <2>2, <3>1, <4>1, <4>2, <4>3
  <2> QED
    BY <2>4, <2>5
<1> QED
  BY <1>1, <1>2, <1>3, <1>4 DEF MarkOrderPaid

\* The refund branch of process_webhook_event.
LEMMA RefundStep ==
  ASSUME TypeOK, NEW o \in OrderIds, OrderInv(o), status[o] # "absent",
         MarkOrderRefunded(o),
         UNCHANGED <<providerVars, createVars, flagVars, banVars>>
  PROVE  /\ RowStep(o)
         /\ RowInv(o)'
         /\ BenefitInv(o)'
         /\ refund[o] = "full" => status'[o] = "refunded"
<1> USE DEF providerVars, createVars, flagVars, banVars, benefitVars, OrderInv,
            RowInv, BenefitInv, Settled, RowStep
<1>1. CASE RefundIgnored(o)
  BY <1>1 DEF RefundIgnored, TypeOK
<1>2. CASE RefundMismatch(o)
  <2>1. /\ meta'[o].held = meta[o].held /\ meta'[o].reason = meta[o].reason
        /\ \A p \in OrderIds \ {o} : meta'[p] = meta[p]
    BY <1>2, MetaEffect DEF RefundMismatch
  <2> QED
    BY <1>2, <2>1 DEF RefundMismatch, TypeOK
<1>3. CASE RefundTopup(o)
  BY <1>3 DEF RefundTopup, TypeOK
<1>4. CASE RefundStandard(o)
  <2>1. /\ status' = [status EXCEPT ![o] = "refunded"] /\ meta' = meta
        /\ grants' = grants /\ status[o] = "paid"
        /\ Service[o] = "standard"
    BY <1>4 DEF RefundStandard
  <2>2. /\ \A p \in OrderIds \ {o} :
             /\ revokes'[p] = revokes[p] /\ status'[p] = status[p]
             /\ \A k \in LedgerKinds :
                  <<p, k>> \in ledger' <=> <<p, k>> \in ledger
        /\ status'[o] = "refunded"
        /\ revokes'[o] = IF meta[o].held THEN revokes[o] ELSE revokes[o] + 1
        /\ <<o, "payment_credit">> \in ledger' <=>
             <<o, "payment_credit">> \in ledger
        /\ <<o, "referral_bonus">> \in ledger' <=>
             <<o, "referral_bonus">> \in ledger
        /\ <<o, "referral_reversal">> \in ledger' <=>
             <<o, "referral_bonus">> \in ledger
    BY <1>4 DEF RefundStandard, BonusReversal, TypeOK, LedgerKinds
  <2>3. grants[o] \in Nat /\ revokes[o] \in Nat
    BY DEF TypeOK
  <2>4. RowStep(o)
    BY <2>1, <2>2
  <2>5. RowInv(o)'
    BY <2>1, <2>2
  <2>6. BenefitInv(o)'
    BY <2>1, <2>2, <2>3
  <2> QED
    BY <2>2, <2>4, <2>5, <2>6
<1> QED
  BY <1>1, <1>2, <1>3, <1>4 DEF MarkOrderRefunded

\* mark_order_canceled only adds a reason.
LEMMA CanceledEffect ==
  ASSUME NEW m \in Metas, NEW r \in Reasons
  PROVE  /\ CanceledMeta(m, r).held = m.held
         /\ CanceledMeta(m, r).reason \in {m.reason, r}
BY DEF CanceledMeta, Metas

\* A pending order, or one whose payment is canceled, is canceled with
\* metadata that is not held.
LEMMA CancelStep ==
  ASSUME TypeOK, NEW o \in OrderIds, OrderInv(o),
         status[o] = "pending" \/ (pay[o] = "canceled" /\ status[o] # "absent"),
         NEW m \in Metas, ~m.held, NEW r \in Reasons,
         m.reason = "gateway_canceled" \/ r = "gateway_canceled" =>
           pay[o] = "canceled",
         status' = [status EXCEPT ![o] = "canceled"],
         meta' = [meta EXCEPT ![o] = CanceledMeta(m, r)],
         UNCHANGED <<providerVars, createVars, flagVars, banVars, benefitVars>>
  PROVE  RowStep(o) /\ RowInv(o)' /\ BenefitInv(o)'
<1> USE DEF providerVars, createVars, flagVars, banVars, benefitVars, OrderInv,
            RowInv, BenefitInv, Settled, RowStep
<1>1. /\ status'[o] = "canceled"
      /\ meta'[o] = CanceledMeta(m, r)
      /\ \A p \in OrderIds \ {o} : status'[p] = status[p] /\ meta'[p] = meta[p]
  BY DEF TypeOK
<1>2. ~meta'[o].held /\ meta'[o].reason \in {m.reason, r}
  BY <1>1, CanceledEffect
<1>3. status[o] \notin {"paid", "refunded", "absent"}
  OBVIOUS
<1>4. RowStep(o)
  BY <1>1, <1>2, <1>3
<1>5. RowInv(o)'
  BY <1>1, <1>2, <1>3
<1>6. BenefitInv(o)'
  BY <1>1, <1>2, <1>3
<1> QED
  BY <1>4, <1>5, <1>6

\* Deliveries and inbox rows of other orders do not move.
HooksOfOthers(o) ==
  \A p \in OrderIds \ {o}, t \in EventTypes :
    /\ inbox'[<<p, t>>] = inbox[<<p, t>>]
    /\ \A seen \in Seen :
         <<<<p, t>>, seen>> \in inflight' <=> <<<<p, t>>, seen>> \in inflight

\* A row step keeps the whole invariant of its order when an order_check of it
\* goes on, or ends, and the inbox is right; other orders are the same.
LEMMA RowStepHookInv ==
  ASSUME TypeOK, NEW o \in OrderIds, OrderInv(o),
         RowStep(o), RowInv(o)', BenefitInv(o)', HookInv(o)',
         HooksOfOthers(o), UNCHANGED banCopy,
         \/ checkCopy' = checkCopy
         \/ checkCopy' = [checkCopy EXCEPT ![o] = NoCopy]
  PROVE  /\ OrderInv(o)'
         /\ \A p \in OrderIds \ {o} : SameOrder(p)
<1>1. CheckoutInv(o)'
  BY DEF RowStep, OrderInv, CheckoutInv, providerVars
<1>2. CheckInv(o)'
  <2>1. CASE checkCopy' = checkCopy
    BY <2>1 DEF RowStep, OrderInv, CheckInv, providerVars
  <2>2. CASE checkCopy' = [checkCopy EXCEPT ![o] = NoCopy]
    BY <2>2 DEF CheckInv, NoCopy, NoMeta, TypeOK
  <2> QED
    BY <2>1, <2>2
<1>3. BanInv(o)'
  BY DEF RowStep, OrderInv, BanInv, providerVars, TypeOK, Statuses
<1>4. ASSUME NEW p \in OrderIds \ {o}
      PROVE  SameOrder(p)
  BY DEF RowStep, SameOrder, HooksOfOthers, providerVars, TypeOK
<1> QED
  BY <1>1, <1>2, <1>3, <1>4 DEF OrderInv

\* The same for a step that leaves the inbox alone.
LEMMA RowStepInv ==
  ASSUME TypeOK, NEW o \in OrderIds, OrderInv(o),
         RowStep(o), RowInv(o)', BenefitInv(o)',
         UNCHANGED <<hookVars, banCopy>>,
         \/ checkCopy' = checkCopy
         \/ checkCopy' = [checkCopy EXCEPT ![o] = NoCopy]
  PROVE  /\ OrderInv(o)'
         /\ \A p \in OrderIds \ {o} : SameOrder(p)
<1>1. HookInv(o)'
  BY DEF RowStep, OrderInv, HookInv, EventExists, EventTypes, Seen,
         providerVars, hookVars
<1>2. HooksOfOthers(o)
  BY DEF HooksOfOthers, hookVars
<1> QED
  BY <1>1, <1>2, RowStepHookInv

\* Cancellation, reconciliation, expiry and the clock.
LEMMA WorkerStep ==
  ASSUME TypeOK, NEW o \in OrderIds, OrderInv(o),
         OrderCancel(o) \/ Reconcile(o) \/ Expire(o) \/ Tick(o)
  PROVE  /\ OrderInv(o)'
         /\ \A p \in OrderIds \ {o} : SameOrder(p)
<1>1. CASE Tick(o)
  <2>1. SameOrder(o)
    BY <1>1 DEF Tick, SameOrder, providerVars, createVars, hookVars, banVars,
                benefitVars
  <2>2. \A p \in OrderIds \ {o} : SameOrder(p)
    BY <1>1 DEF Tick, SameOrder, providerVars, createVars, hookVars, banVars,
                benefitVars
  <2> QED
    BY <2>1, <2>2, Frame
<1>2. ASSUME NEW r \in Reasons, CancelOrder(o, r), status[o] = "pending",
             r = "gateway_canceled" => pay[o] = "canceled",
             UNCHANGED <<providerVars, createVars, hookVars, flagVars, banVars,
                         checkCopy, benefitVars>>
      PROVE  /\ OrderInv(o)'
             /\ \A p \in OrderIds \ {o} : SameOrder(p)
  <2>1. meta[o] \in Metas /\ ~meta[o].held
        /\ (meta[o].reason = "gateway_canceled" => pay[o] = "canceled")
    BY <1>2 DEF TypeOK, OrderInv, RowInv
  <2>2. /\ status' = [status EXCEPT ![o] = "canceled"]
        /\ meta' = [meta EXCEPT ![o] = CanceledMeta(meta[o], r)]
    BY <1>2 DEF CancelOrder
  <2>3. RowStep(o) /\ RowInv(o)' /\ BenefitInv(o)'
    BY <1>2, <2>1, <2>2, CancelStep
  <2> QED
    BY <1>2, <2>3, RowStepInv DEF banVars
<1>3. CASE OrderCancel(o)
  BY <1>2, <1>3 DEF OrderCancel, Reasons
<1>4. CASE Expire(o)
  <2>1. PICK r \in Reasons : CancelOrder(o, r) /\ r # "gateway_canceled"
    BY <1>4 DEF Expire, Reasons
  <2> QED
    BY <1>2, <1>4, <2>1 DEF Expire
<1>5. CASE Reconcile(o)
  <2>1. CASE pay[o] = "succeeded" /\ MarkOrderPaid(o, full[o])
    <3>1. full[o] \in BOOLEAN /\ status[o] # "absent"
      BY <1>5 DEF TypeOK, Reconcile
    <3>2. RowStep(o) /\ RowInv(o)' /\ BenefitInv(o)'
      BY <1>5, <2>1, <3>1, PaidStep DEF Reconcile
    <3> QED
      BY <1>5, <3>2, RowStepInv DEF Reconcile, banVars
  <2>2. ASSUME NEW r \in GatewayReasons, CancelOrder(o, r),
               pay[o] = "canceled", UNCHANGED benefitVars
        PROVE  /\ OrderInv(o)'
               /\ \A p \in OrderIds \ {o} : SameOrder(p)
    <3>1. r \in Reasons
      BY DEF GatewayReasons, Reasons
    <3> QED
      BY <1>2, <1>5, <2>2, <3>1 DEF Reconcile
  <2> QED
    BY <1>5, <2>1, <2>2 DEF Reconcile
<1> QED
  BY <1>1, <1>3, <1>4, <1>5

\* order_check with its stale copy.
LEMMA CheckStep ==
  ASSUME TypeOK, NEW o \in OrderIds, OrderInv(o),
         \/ CheckRead(o) \/ CheckReleaseHeld(o) \/ CheckNotify(o)
         \/ CheckGateway(o) \/ CheckFails(o)
  PROVE  /\ OrderInv(o)'
         /\ \A p \in OrderIds \ {o} : SameOrder(p)
<1>1. CASE CheckRead(o)
  <2>1. checkCopy'[o] = CopyOf(o)
    BY <1>1 DEF CheckRead, TypeOK
  <2>2. CheckInv(o)'
    BY <1>1, <2>1 DEF CheckRead, CheckInv, CopyOf, OrderInv, RowInv,
                      rowVars, providerVars
  <2>3. CheckoutInv(o)' /\ BanInv(o)'
    BY <1>1 DEF CheckRead, OrderInv, CheckoutInv, BanInv, rowVars,
                providerVars, createVars, banVars
  <2>4. RowInv(o)' /\ BenefitInv(o)'
    BY <1>1 DEF CheckRead, OrderInv, RowInv, BenefitInv, Settled, rowVars,
                providerVars, benefitVars
  <2>5. HookInv(o)'
    BY <1>1 DEF CheckRead, OrderInv, HookInv, EventExists, rowVars,
                providerVars, hookVars
  <2>6. \A p \in OrderIds \ {o} : SameOrder(p)
    BY <1>1 DEF CheckRead, SameOrder, TypeOK, rowVars, providerVars,
                createVars, hookVars, banVars, benefitVars
  <2> QED
    BY <2>2, <2>3, <2>4, <2>5, <2>6 DEF OrderInv
<1>2. ASSUME RowStep(o), RowInv(o)', BenefitInv(o)', CheckEnds(o)
      PROVE  /\ OrderInv(o)'
             /\ \A p \in OrderIds \ {o} : SameOrder(p)
  BY <1>2, RowStepInv DEF CheckEnds, banVars
<1>3. CASE CheckReleaseHeld(o)
  <2>1. status[o] \in {"paid", "refunded"} /\ TRUE \in BOOLEAN
    BY <1>3 DEF CheckReleaseHeld, OrderInv, CheckInv
  <2>2. ~Payable(o) /\ status[o] # "absent"
    BY <2>1 DEF Payable
  <2>3. RowStep(o) /\ RowInv(o)' /\ BenefitInv(o)'
    BY <1>3, <2>1, <2>2, PaidStep DEF CheckReleaseHeld, CheckEnds
  <2> QED
    BY <1>2, <1>3, <2>3 DEF CheckReleaseHeld
<1>4. CASE CheckNotify(o)
  <2>1. /\ status[o] \in {"paid", "refunded"} /\ ~meta[o].held
        /\ ~checkCopy[o].meta.held
        /\ checkCopy[o].meta.reason = "gateway_canceled" => pay[o] = "canceled"
    BY <1>4 DEF CheckNotify, OrderInv, CheckInv
  <2>2. /\ meta'[o] \in {meta[o], checkCopy[o].meta}
        /\ \A p \in OrderIds \ {o} : meta'[p] = meta[p]
    BY <1>4 DEF CheckNotify, TypeOK
  <2>3. RowStep(o)
    BY <1>4, <2>1, <2>2 DEF CheckNotify, CheckEnds, RowStep, createVars,
                            banVars, benefitVars
  <2>4. RowInv(o)'
    BY <1>4, <2>1, <2>2 DEF CheckNotify, CheckEnds, OrderInv, RowInv,
                            providerVars, benefitVars
  <2>5. BenefitInv(o)'
    BY <1>4, <2>1, <2>2 DEF CheckNotify, CheckEnds, OrderInv, BenefitInv,
                            Settled, benefitVars
  <2> QED
    BY <1>2, <1>4, <2>3, <2>4, <2>5 DEF CheckNotify
<1>5. ASSUME UNCHANGED <<rowVars, benefitVars>>, CheckEnds(o),
             status[o] # "absent" \/ checkCopy[o] = NoCopy
      PROVE  /\ OrderInv(o)'
             /\ \A p \in OrderIds \ {o} : SameOrder(p)
  <2>1. CASE checkCopy[o] = NoCopy
    <3>1. \A p \in OrderIds : SameOrder(p)
      BY <1>5, <2>1 DEF CheckEnds, SameOrder, TypeOK, rowVars, providerVars,
                        createVars, hookVars, banVars, benefitVars
    <3> QED
      BY <3>1, Frame
  <2>2. CASE status[o] # "absent"
    <3>1. RowStep(o)
      BY <1>5, <2>2 DEF CheckEnds, RowStep, rowVars, createVars, banVars,
                        benefitVars
    <3>2. RowInv(o)' /\ BenefitInv(o)'
      BY <1>5 DEF CheckEnds, OrderInv, RowInv, BenefitInv, Settled, rowVars,
                  providerVars, benefitVars
    <3> QED
      BY <1>2, <1>5, <3>1, <3>2
  <2> QED
    BY <1>5, <2>1, <2>2
<1>6. CASE CheckGateway(o)
  <2>1. /\ checkCopy[o].status \in {"pending", "canceled"}
        /\ status[o] # "absent" /\ CheckEnds(o)
    BY <1>6 DEF CheckGateway, OrderInv, CheckInv
  <2>2. CASE pay[o] = "succeeded" /\ MarkOrderPaid(o, full[o])
    <3>1. full[o] \in BOOLEAN
      BY DEF TypeOK
    <3>2. RowStep(o) /\ RowInv(o)' /\ BenefitInv(o)'
      BY <2>1, <2>2, <3>1, PaidStep DEF CheckEnds
    <3> QED
      BY <1>2, <2>1, <3>2
  <2>3. ASSUME NEW r \in GatewayReasons, WriteCanceledCopy(o, r),
               pay[o] = "canceled"
        PROVE  /\ OrderInv(o)'
               /\ \A p \in OrderIds \ {o} : SameOrder(p)
    <3>1. CASE checkCopy[o].status = "pending"
      <4>1. /\ checkCopy[o].meta \in Metas /\ ~checkCopy[o].meta.held
            /\ r \in Reasons
        BY <3>1 DEF TypeOK, Copies, OrderInv, CheckInv, GatewayReasons, Reasons
      <4>2. /\ status' = [status EXCEPT ![o] = "canceled"]
            /\ meta' = [meta EXCEPT ![o] = CanceledMeta(checkCopy[o].meta, r)]
            /\ UNCHANGED benefitVars
        BY <2>3, <3>1 DEF WriteCanceledCopy
      <4>3. RowStep(o) /\ RowInv(o)' /\ BenefitInv(o)'
        BY <2>1, <2>3, <4>1, <4>2, CancelStep DEF CheckEnds
      <4> QED
        BY <1>2, <2>1, <4>3
    <3>2. CASE checkCopy[o].status # "pending"
      <4>1. UNCHANGED <<rowVars, benefitVars>>
        BY <2>3, <3>2 DEF WriteCanceledCopy, rowVars
      <4> QED
        BY <1>5, <2>1, <4>1
    <3> QED
      BY <3>1, <3>2
  <2>4. CASE UNCHANGED <<rowVars, benefitVars>>
    BY <1>5, <2>1, <2>4
  <2> QED
    BY <1>6, <2>2, <2>3, <2>4 DEF CheckGateway
<1>7. CASE CheckFails(o)
  <2>1. CASE checkCopy[o].status # "absent"
    <3>1. status[o] # "absent"
      BY <2>1 DEF OrderInv, CheckInv
    <3> QED
      BY <1>5, <1>7, <3>1 DEF CheckFails
  <2>2. CASE checkCopy[o].status = "absent"
    <3>1. CheckInv(o)' /\ \A p \in OrderIds \ {o} : checkCopy'[p] = checkCopy[p]
      BY <1>7 DEF CheckFails, CheckEnds, CheckInv, NoCopy, NoMeta, TypeOK
    <3>2. CheckoutInv(o)' /\ BanInv(o)'
      BY <1>7 DEF CheckFails, CheckEnds, OrderInv, CheckoutInv, BanInv,
                  rowVars, providerVars, createVars, banVars
    <3>3. RowInv(o)' /\ BenefitInv(o)'
      BY <1>7 DEF CheckFails, CheckEnds, OrderInv, RowInv, BenefitInv, Settled,
                  rowVars, providerVars, benefitVars
    <3>4. HookInv(o)'
      BY <1>7 DEF CheckFails, CheckEnds, OrderInv, HookInv, EventExists,
                  rowVars, providerVars, hookVars
    <3>5. \A p \in OrderIds \ {o} : SameOrder(p)
      BY <1>7, <3>1 DEF CheckFails, CheckEnds, SameOrder, rowVars,
                        providerVars, createVars, hookVars, banVars, benefitVars
    <3> QED
      BY <3>1, <3>2, <3>3, <3>4, <3>5 DEF OrderInv
  <2> QED
    BY <2>1, <2>2
<1> QED
  BY <1>1, <1>3, <1>4, <1>6, <1>7

\* A step of a delivery that leaves every row and benefit alone.
LEMMA HookOnly ==
  ASSUME TypeOK, NEW o \in OrderIds, OrderInv(o),
         UNCHANGED <<rowVars, providerVars, createVars, flagVars, banVars,
                     checkCopy, benefitVars>>,
         HookInv(o)', HooksOfOthers(o)
  PROVE  /\ OrderInv(o)'
         /\ \A p \in OrderIds \ {o} : SameOrder(p)
<1> USE DEF rowVars, providerVars, createVars, flagVars, banVars, benefitVars,
            OrderInv
<1>1. CheckoutInv(o)' /\ BanInv(o)' /\ CheckInv(o)'
  BY DEF CheckoutInv, BanInv, CheckInv
<1>2. RowInv(o)' /\ BenefitInv(o)'
  BY DEF RowInv, BenefitInv, Settled
<1>3. ASSUME NEW p \in OrderIds \ {o}
      PROVE  SameOrder(p)
  BY DEF SameOrder, HooksOfOthers
<1> QED
  BY <1>1, <1>2, <1>3

\* What an inbox write does to the rows of the inbox.
LEMMA OutcomeEffect ==
  ASSUME TypeOK, NEW o \in OrderIds, NEW t \in EventTypes, NEW seen, NEW x,
         RecordOutcome(<<o, t>>, seen, x)
  PROVE  /\ inbox'[<<o, t>>] \in {inbox[<<o, t>>], x}
         /\ \A p \in OrderIds, k \in EventTypes :
              <<p, k>> # <<o, t>> => inbox'[<<p, k>>] = inbox[<<p, k>>]
<1>1. inbox \in [Events -> InboxStatuses]
  BY DEF TypeOK
<1>2. \A p \in OrderIds, k \in EventTypes : <<p, k>> \in Events
  BY DEF Events
<1> QED
  BY <1>1, <1>2 DEF RecordOutcome

\* The end of a delivery takes it out of inflight, or keeps it.
LEMMA DeliveryEffect ==
  ASSUME NEW o \in OrderIds, NEW t \in EventTypes, NEW seen,
         \/ DeliveryEnds(<<o, t>>, seen)
         \/ inflight' = inflight \ {<<<<o, t>>, seen>>}
  PROVE  /\ \A p \in OrderIds, k \in EventTypes, s \in Seen :
              <<<<p, k>>, s>> \in inflight' => <<<<p, k>>, s>> \in inflight
         /\ \A p \in OrderIds \ {o}, k \in EventTypes, s \in Seen :
              <<<<p, k>>, s>> \in inflight' <=> <<<<p, k>>, s>> \in inflight
BY DEF DeliveryEnds

\* What must hold of an order whose event is recorded as done.
Done(o, t) ==
  /\ t = "succeeded" /\ full[o] => status[o] \in {"paid", "refunded"}
  /\ t = "canceled" => status[o] = "canceled"
  /\ t = "refund" /\ refund[o] = "full" => status[o] = "refunded"

\* An answer 200 is recorded only for an event that was acted on.
LEMMA HookInvKept ==
  ASSUME TypeOK, NEW o \in OrderIds, OrderInv(o), NEW t \in EventTypes,
         NEW seen, NEW x,
         EventExists(o, t), UNCHANGED providerVars,
         RowStep(o) \/ UNCHANGED status,
         RecordOutcome(<<o, t>>, seen, x),
         DeliveryEnds(<<o, t>>, seen),
         x = "succeeded" => Done(o, t)'
  PROVE  HookInv(o)' /\ HooksOfOthers(o)
<1> DEFINE Others == OrderIds \ {o}
<1>1. HooksOfOthers(o)
  <2>1. \A p \in Others, k \in EventTypes : inbox'[<<p, k>>] = inbox[<<p, k>>]
    <3>1. \A p \in OrderIds, k \in EventTypes :
            <<p, k>> # <<o, t>> => inbox'[<<p, k>>] = inbox[<<p, k>>]
      BY OutcomeEffect
    <3> QED
      BY <3>1
  <2>2. \A p \in Others, k \in EventTypes, s \in Seen :
          <<<<p, k>>, s>> \in inflight' <=> <<<<p, k>>, s>> \in inflight
    BY DeliveryEffect
  <2> QED
    BY <2>1, <2>2 DEF HooksOfOthers
<1>2. \A k \in EventTypes : EventExists(o, k)' <=> EventExists(o, k)
  BY DEF EventExists, providerVars
<1>3. \A k \in EventTypes, s \in Seen :
        <<<<o, k>>, s>> \in inflight' => EventExists(o, k)'
  BY <1>2, DeliveryEffect DEF OrderInv, HookInv
<1>4. \A k \in EventTypes : inbox'[<<o, k>>] = "succeeded" => EventExists(o, k)'
  BY <1>2, OutcomeEffect DEF OrderInv, HookInv
<1>5. /\ status[o] \in {"paid", "refunded"} => status'[o] \in {"paid", "refunded"}
      /\ status[o] = "refunded" => status'[o] = "refunded"
      /\ status[o] = "canceled" /\ pay[o] = "canceled" => status'[o] = "canceled"
  BY DEF RowStep
<1>6. ASSUME NEW k \in EventTypes, inbox'[<<o, k>>] = "succeeded"
      PROVE  Done(o, k)'
  <2>1. CASE inbox[<<o, k>>] = "succeeded"
    <3>1. EventExists(o, k) /\ Done(o, k)
      BY <2>1 DEF OrderInv, HookInv, Done
    <3>2. k = "canceled" => pay[o] = "canceled"
      BY <3>1 DEF EventExists
    <3> QED
      BY <1>5, <3>1, <3>2 DEF Done, providerVars
  <2>2. CASE inbox[<<o, k>>] # "succeeded"
    <3>1. k = t /\ x = "succeeded"
      BY <1>6, <2>2, OutcomeEffect
    <3> QED
      BY <3>1
  <2> QED
    BY <2>1, <2>2
<1>7. /\ inbox'[<<o, "succeeded">>] = "succeeded" => Done(o, "succeeded")'
      /\ inbox'[<<o, "canceled">>] = "succeeded" => Done(o, "canceled")'
      /\ inbox'[<<o, "refund">>] = "succeeded" => Done(o, "refund")'
  BY <1>6 DEF EventTypes
<1> QED
  BY <1>1, <1>3, <1>4, <1>7 DEF HookInv, Done

\* A delivery: reading its inbox row, acting on the order, or being rolled
\* back.
LEMMA HookStepInv ==
  ASSUME TypeOK, NEW o \in OrderIds, OrderInv(o), NEW t \in EventTypes,
         HookStep(o, t)
  PROVE  /\ OrderInv(o)'
         /\ \A p \in OrderIds \ {o} : SameOrder(p)
<1>1. CASE WebhookReceive(o, t)
  <2>1. EventExists(o, t) /\ inbox' = inbox
    BY <1>1 DEF WebhookReceive
  <2>2. \A p \in OrderIds, k \in EventTypes, s \in Seen :
          <<<<p, k>>, s>> \in inflight' =>
            <<<<p, k>>, s>> \in inflight \/ (p = o /\ k = t)
    BY <1>1 DEF WebhookReceive
  <2>3. inflight \subseteq inflight'
    BY <1>1 DEF WebhookReceive
  <2>4. HookInv(o)'
    BY <1>1, <2>1, <2>2 DEF WebhookReceive, OrderInv, HookInv, EventExists,
                            rowVars, providerVars
  <2>5. HooksOfOthers(o)
    BY <2>1, <2>2, <2>3 DEF HooksOfOthers
  <2> QED
    BY <1>1, <2>4, <2>5, HookOnly DEF WebhookReceive
<1>2. ASSUME NEW seen \in Seen, WebhookFails(o, t, seen)
      PROVE  /\ OrderInv(o)'
             /\ \A p \in OrderIds \ {o} : SameOrder(p)
  <2>1. inflight' = inflight \ {<<<<o, t>>, seen>>} /\ inbox' = inbox
    BY <1>2 DEF WebhookFails
  <2>2. HooksOfOthers(o)
    BY <2>1, DeliveryEffect DEF HooksOfOthers
  <2>3. HookInv(o)'
    BY <1>2, <2>1 DEF WebhookFails, OrderInv, HookInv, EventExists, rowVars,
                      providerVars
  <2> QED
    BY <1>2, <2>2, <2>3, HookOnly DEF WebhookFails
<1>3. ASSUME NEW seen \in Seen, WebhookProcess(o, t, seen)
      PROVE  /\ OrderInv(o)'
             /\ \A p \in OrderIds \ {o} : SameOrder(p)
  <2>1. /\ DeliveryEnds(<<o, t>>, seen)
        /\ UNCHANGED <<providerVars, createVars, flagVars, banVars, checkCopy>>
        /\ EventExists(o, t)
    BY <1>3 DEF WebhookProcess, OrderInv, HookInv
  <2>2. ASSUME NEW x, RecordOutcome(<<o, t>>, seen, x), x # "succeeded",
               UNCHANGED <<rowVars, benefitVars>>
        PROVE  /\ OrderInv(o)'
               /\ \A p \in OrderIds \ {o} : SameOrder(p)
    <3>1. UNCHANGED status
      BY <2>2 DEF rowVars
    <3>2. HookInv(o)' /\ HooksOfOthers(o)
      BY <2>1, <2>2, <3>1, HookInvKept
    <3> QED
      BY <2>1, <2>2, <3>2, HookOnly
  <2>3. ASSUME RowStep(o), RowInv(o)', BenefitInv(o)', Done(o, t)',
               RecordOutcome(<<o, t>>, seen, "succeeded")
        PROVE  /\ OrderInv(o)'
               /\ \A p \in OrderIds \ {o} : SameOrder(p)
    <3>1. HookInv(o)' /\ HooksOfOthers(o)
      BY <2>1, <2>3, HookInvKept
    <3> QED
      BY <2>1, <2>3, <3>1, RowStepHookInv DEF banVars
  <2>4. CASE UnknownOrder(o, t, seen)
    BY <2>2, <2>4 DEF UnknownOrder
  <2>5. CASE t = "succeeded" /\ SucceededEvent(o, seen)
    <3>1. /\ status[o] # "absent" /\ MarkOrderPaid(o, full[o])
          /\ RecordOutcome(<<o, t>>, seen, "succeeded")
          /\ full[o] \in BOOLEAN /\ pay[o] = "succeeded"
      BY <2>1, <2>5 DEF SucceededEvent, TypeOK, EventExists
    <3>2. meta[o].reason # "gateway_canceled"
      BY <3>1 DEF OrderInv, RowInv
    <3>3. /\ RowStep(o) /\ RowInv(o)' /\ BenefitInv(o)'
          /\ full[o] => status'[o] \in {"paid", "refunded"}
      BY <2>1, <3>1, <3>2, PaidStep
    <3>4. Done(o, t)'
      BY <2>1, <2>5, <3>3 DEF Done, providerVars
    <3> QED
      BY <2>3, <3>1, <3>3, <3>4
  <2>6. CASE t = "canceled" /\ CanceledEvent(o, seen)
    <3>1. /\ status[o] # "absent" /\ pay[o] = "canceled"
          /\ RecordOutcome(<<o, t>>, seen, "succeeded")
          /\ UNCHANGED benefitVars
      BY <2>1, <2>6 DEF CanceledEvent, EventExists
    <3>2. CASE status[o] = "pending"
      <4>1. /\ status' = [status EXCEPT ![o] = "canceled"]
            /\ meta' = [meta EXCEPT ![o] =
                          CanceledMeta(meta[o], "gateway_canceled")]
        BY <2>6, <3>2 DEF CanceledEvent
      <4>2. meta[o] \in Metas /\ ~meta[o].held /\ "gateway_canceled" \in Reasons
        BY <3>2 DEF TypeOK, OrderInv, RowInv, Reasons
      <4>3. RowStep(o) /\ RowInv(o)' /\ BenefitInv(o)'
        BY <2>1, <3>1, <3>2, <4>1, <4>2, CancelStep
      <4>4. Done(o, t)'
        BY <2>6, <4>1 DEF Done, TypeOK
      <4> QED
        BY <2>3, <3>1, <4>3, <4>4
    <3>3. CASE status[o] # "pending"
      <4>1. status' = status /\ meta' = meta
        BY <2>6, <3>3 DEF CanceledEvent
      <4>2. status[o] = "canceled"
        BY <3>1, <3>3 DEF OrderInv, RowInv, TypeOK, Statuses
      <4>3. RowStep(o)
        BY <2>1, <3>1, <4>1, <4>2 DEF RowStep, createVars, banVars, benefitVars
      <4>4. RowInv(o)' /\ BenefitInv(o)'
        BY <2>1, <3>1, <4>1 DEF OrderInv, RowInv, BenefitInv, Settled,
                                providerVars, benefitVars
      <4>5. Done(o, t)'
        BY <2>6, <4>1, <4>2 DEF Done
      <4> QED
        BY <2>3, <3>1, <4>3, <4>4, <4>5
    <3> QED
      BY <3>2, <3>3
  <2>7. CASE t = "refund" /\ RefundEvent(o, seen)
    <3>1. CASE /\ RecordOutcome(<<o, "refund">>, seen, "pending")
               /\ UNCHANGED <<rowVars, benefitVars>>
      BY <2>2, <2>7, <3>1
    <3>2. CASE /\ MarkOrderRefunded(o)
               /\ RecordOutcome(<<o, "refund">>, seen, "succeeded")
      <4>1. status[o] # "absent"
        BY <3>2 DEF MarkOrderRefunded, RefundIgnored, RefundMismatch,
                    RefundTopup, RefundStandard
      <4>2. /\ RowStep(o) /\ RowInv(o)' /\ BenefitInv(o)'
            /\ refund[o] = "full" => status'[o] = "refunded"
        BY <2>1, <3>2, <4>1, RefundStep
      <4>3. Done(o, t)'
        BY <2>1, <2>7, <4>2 DEF Done, providerVars
      <4> QED
        BY <2>3, <2>7, <3>2, <4>2, <4>3
    <3> QED
      BY <2>7, <3>1, <3>2 DEF RefundEvent
  <2> QED
    BY <1>3, <2>4, <2>5, <2>6, <2>7 DEF WebhookProcess
<1> QED
  BY <1>1, <1>2, <1>3 DEF HookStep

\* An order that only loses its ban copy, or gets the copy of a pending row.
LEMMA BanCopyInv ==
  ASSUME NEW p \in OrderIds, OrderInv(p), BanInv(p)',
         status'[p] = status[p], meta'[p] = meta[p],
         UNCHANGED <<providerVars, createVars, hookVars, checkCopy,
                     benefitVars>>
  PROVE  OrderInv(p)'
<1> USE DEF providerVars, createVars, hookVars, benefitVars, OrderInv
<1>1. CheckoutInv(p)' /\ CheckInv(p)'
  BY DEF CheckoutInv, CheckInv
<1>2. RowInv(p)' /\ BenefitInv(p)'
  BY DEF RowInv, BenefitInv, Settled
<1>3. HookInv(p)'
  BY DEF HookInv, EventExists
<1> QED
  BY <1>1, <1>2, <1>3

\* The flush of a ban's copy of a pending order.
LEMMA BannedOrderInv ==
  ASSUME TypeOK, NEW p \in OrderIds, OrderInv(p), BanInv(p)',
         banCopy[p].status = "pending",
         status'[p] = "canceled",
         meta'[p] = CanceledMeta(banCopy[p].meta, "user_banned"),
         UNCHANGED <<providerVars, createVars, hookVars, checkCopy,
                     benefitVars>>
  PROVE  OrderInv(p)'
<1> USE DEF providerVars, createVars, hookVars, benefitVars
<1>1. /\ status[p] \in {"pending", "canceled"} /\ ~banCopy[p].meta.held
      /\ banCopy[p].meta.reason = "gateway_canceled" => pay[p] = "canceled"
  BY DEF OrderInv, BanInv
<1>2. banCopy[p].meta \in Metas /\ "user_banned" \in Reasons
  BY DEF TypeOK, Copies, Reasons
<1>3. /\ ~meta'[p].held
      /\ meta'[p].reason \in {banCopy[p].meta.reason, "user_banned"}
  BY <1>1, <1>2, CanceledEffect
<1>4. CheckoutInv(p)' /\ CheckInv(p)'
  BY <1>1, <1>3 DEF OrderInv, CheckoutInv, CheckInv
<1>5. RowInv(p)'
  BY <1>1, <1>3 DEF OrderInv, RowInv
<1>6. BenefitInv(p)'
  BY <1>1, <1>3 DEF OrderInv, BenefitInv, Settled
<1>7. HookInv(p)'
  BY <1>1, <1>3 DEF OrderInv, HookInv, EventExists
<1> QED
  BY <1>4, <1>5, <1>6, <1>7 DEF OrderInv

\* Bans, unbans and flags: a ban touches every pending order of its user.
LEMMA UserStepInv ==
  ASSUME TypeOK, \A p \in OrderIds : OrderInv(p), NEW u \in Users, UserStep(u)
  PROVE  \A p \in OrderIds : OrderInv(p)'
<1> SUFFICES ASSUME NEW p \in OrderIds PROVE OrderInv(p)'
  OBVIOUS
<1>1. OrderInv(p) /\ Owner[p] \in Users
  BY Assumptions
<1>2. CASE BanBegin(u)
  <2>1. /\ banning' = [banning EXCEPT ![u] = TRUE] /\ ~banning[u]
        /\ banCopy'[p] = IF Owner[p] = u /\ status[p] = "pending"
                         THEN CopyOf(p) ELSE banCopy[p]
        /\ UNCHANGED <<rowVars, providerVars, createVars, hookVars, checkCopy,
                       benefitVars>>
    BY <1>2 DEF BanBegin, UserRowFree
  <2>2. banning'[Owner[p]] = (banning[Owner[p]] \/ Owner[p] = u)
    BY <1>1, <2>1 DEF TypeOK
  <2>3. BanInv(p)'
    <3>1. CASE Owner[p] = u /\ status[p] = "pending"
      <4>1. banCopy'[p] = CopyOf(p) /\ banning'[Owner[p]]
        BY <2>1, <2>2, <3>1
      <4> QED
        BY <1>1, <2>1, <3>1, <4>1
           DEF OrderInv, RowInv, BanInv, CopyOf, rowVars, providerVars
    <3>2. CASE ~(Owner[p] = u /\ status[p] = "pending")
      <4>1. banCopy'[p] = banCopy[p]
        BY <2>1, <3>2
      <4> QED
        BY <1>1, <2>1, <2>2, <4>1 DEF OrderInv, BanInv, rowVars, providerVars
    <3> QED
      BY <3>1, <3>2
  <2>4. status'[p] = status[p] /\ meta'[p] = meta[p]
    BY <2>1 DEF rowVars
  <2> QED
    BY <1>1, <2>1, <2>3, <2>4, BanCopyInv
<1>3. ASSUME BanEnds(u), Owner[p] # u => status'[p] = status[p]
      PROVE  BanInv(p)'
  <2>1. CASE Owner[p] = u
    <3>1. banCopy'[p] = NoCopy
      BY <1>3, <2>1 DEF BanEnds
    <3> QED
      BY <3>1 DEF BanInv, NoCopy, NoMeta
  <2>2. CASE Owner[p] # u
    <3>1. banCopy'[p] = banCopy[p] /\ banning'[Owner[p]] = banning[Owner[p]]
      BY <1>1, <1>3, <2>2 DEF BanEnds, TypeOK
    <3> QED
      BY <1>1, <1>3, <2>2, <3>1 DEF BanEnds, OrderInv, BanInv, providerVars
  <2> QED
    BY <2>1, <2>2
<1>4. CASE BanCommit(u)
  <2>1. BanEnds(u)
    BY <1>4 DEF BanCommit
  <2>2. UNCHANGED <<providerVars, createVars, hookVars, checkCopy, benefitVars>>
    BY <2>1 DEF BanEnds
  <2>3. CASE p \in BanLoaded(u)
    <3>1. /\ banCopy[p].status = "pending" /\ Owner[p] = u
          /\ status'[p] = "canceled"
          /\ meta'[p] = CanceledMeta(banCopy[p].meta, "user_banned")
      BY <1>4, <2>3 DEF BanCommit, BanLoaded
    <3>2. BanInv(p)'
      BY <1>3, <2>1, <3>1
    <3> QED
      BY <1>1, <2>2, <3>1, <3>2, BannedOrderInv
  <2>4. CASE p \notin BanLoaded(u)
    <3>1. status'[p] = status[p] /\ meta'[p] = meta[p]
      BY <1>4, <2>4 DEF BanCommit
    <3>2. BanInv(p)'
      BY <1>3, <2>1, <3>1
    <3> QED
      BY <1>1, <2>2, <3>1, <3>2, BanCopyInv
  <2> QED
    BY <2>3, <2>4
<1>5. CASE BanAbort(u)
  <2>1. BanEnds(u) /\ status'[p] = status[p] /\ meta'[p] = meta[p]
    BY <1>5 DEF BanAbort
  <2>2. UNCHANGED <<providerVars, createVars, hookVars, checkCopy, benefitVars>>
    BY <2>1 DEF BanEnds
  <2>3. BanInv(p)'
    BY <1>3, <2>1
  <2> QED
    BY <1>1, <2>1, <2>2, <2>3, BanCopyInv
<1>6. CASE Unban(u) \/ FlagFlip(u)
  <2>1. SameOrder(p)
    BY <1>6 DEF Unban, FlagFlip, SameOrder, rowVars, providerVars, createVars,
                hookVars, banVars, benefitVars
  <2> QED
    BY <1>1, <2>1, Frame
<1> QED
  BY <1>2, <1>4, <1>5, <1>6 DEF UserStep

\* No order exists, and nothing is under way.
LEMMA InitInv == Init => IInv
<1> SUFFICES ASSUME Init PROVE IInv
  OBVIOUS
<1>1. TypeOK
  BY InitTypes
<1>2. ASSUME NEW o \in OrderIds
      PROVE  OrderInv(o)
  <2> USE DEF Init
  <2>1. CheckoutInv(o) /\ RowInv(o) /\ BenefitInv(o)
    BY DEF CheckoutInv, RowInv, BenefitInv, NoMeta, Settled
  <2>2. HookInv(o)
    BY DEF HookInv, Events, EventTypes
  <2>3. CheckInv(o) /\ BanInv(o)
    BY DEF CheckInv, BanInv, NoCopy, NoMeta
  <2> QED
    BY <2>1, <2>2, <2>3 DEF OrderInv
<1> QED
  BY <1>1, <1>2 DEF IInv

\* Every step keeps the inductive invariant.
LEMMA NextInv == IInv /\ [Next]_vars => IInv'
<1> SUFFICES ASSUME IInv, [Next]_vars PROVE IInv'
  OBVIOUS
<1>1. TypeOK /\ (\A o \in OrderIds : OrderInv(o)) /\ TypeOK'
  BY NextTypes DEF IInv
<1>2. ASSUME NEW p \in OrderIds
      PROVE  OrderInv(p)'
  <2>1. OrderInv(p)
    BY <1>1
  <2>2. ASSUME NEW o \in OrderIds, OrderInv(o)',
               \A q \in OrderIds \ {o} : SameOrder(q)
        PROVE  OrderInv(p)'
    <3>1. CASE p = o
      BY <2>2, <3>1
    <3>2. CASE p # o
      BY <2>1, <2>2, <3>2, Frame
    <3> QED
      BY <3>1, <3>2
  <2>3. ASSUME NEW o \in OrderIds, OrderStep(o)
        PROVE  OrderInv(p)'
    <3>1. OrderInv(o)' /\ \A q \in OrderIds \ {o} : SameOrder(q)
      BY <1>1, <2>3, CheckoutStep, ProviderStep, WorkerStep, CheckStep
         DEF OrderStep
    <3> QED
      BY <2>2, <3>1
  <2>4. ASSUME NEW o \in OrderIds, NEW t \in EventTypes, HookStep(o, t)
        PROVE  OrderInv(p)'
    <3>1. OrderInv(o)' /\ \A q \in OrderIds \ {o} : SameOrder(q)
      BY <1>1, <2>4, HookStepInv
    <3> QED
      BY <2>2, <3>1
  <2>5. ASSUME NEW u \in Users, UserStep(u)
        PROVE  OrderInv(p)'
    BY <1>1, <2>5, UserStepInv
  <2>6. CASE UNCHANGED vars
    <3>1. SameOrder(p)
      BY <2>6 DEF vars, SameOrder, rowVars, providerVars, createVars,
                  hookVars, banVars, benefitVars
    <3> QED
      BY <2>1, <3>1, Frame
  <2> QED
    BY <2>3, <2>4, <2>5, <2>6 DEF Next
<1> QED
  BY <1>1, <1>2 DEF IInv

\* The inductive invariant holds in every reachable state.
THEOREM InductiveInvariant == Spec => []IInv
<1>1. Init => IInv
  BY InitInv
<1>2. IInv /\ [Next]_vars => IInv'
  BY NextInv
<1> QED
  BY <1>1, <1>2, PTL DEF Spec

-----------------------------------------------------------------------------
(* The safety invariants                                                   *)

\* mark_order_paid, the refund branch and the stale copies of order_check and
\* the ban never separate an order's status from its benefits: a top-up is
\* credited, a tariff extended, exactly while the order is paid and not held.
THEOREM BenefitSafety == Spec => []BenefitIffSettled
<1>1. IInv => BenefitIffSettled
  BY DEF IInv, OrderInv, BenefitInv, BenefitIffSettled
<1> QED
  BY <1>1, InductiveInvariant, PTL

\* mark_order_paid needs a succeeded payment of the full amount, although it
\* releases a held order for order_check without being given an amount.
THEOREM MoneySafety == Spec => []PaidNeedsMoney
<1>1. IInv => PaidNeedsMoney
  BY DEF IInv, OrderInv, RowInv, PaidNeedsMoney
<1> QED
  BY <1>1, InductiveInvariant, PTL

\* The webhook answers 200 only after its event was acted on, for deliveries
\* in any number and order, and nothing undoes that later.
THEOREM AcknowledgeSafety == Spec => []AcknowledgedIsDone
<1>1. IInv => AcknowledgedIsDone
  BY DEF IInv, OrderInv, HookInv, AcknowledgedIsDone
<1> QED
  BY <1>1, InductiveInvariant, PTL

\* reverse_referral_bonus_for_topup takes a bonus back exactly when its order
\* is refunded, and grant_referral_bonus_for_topup gives it with settlement.
THEOREM BonusSafety == Spec => []BonusReversedWithRefund
<1>1. IInv => BonusReversedWithRefund
  BY DEF IInv, OrderInv, BenefitInv, BonusReversedWithRefund
<1> QED
  BY <1>1, InductiveInvariant, PTL

-----------------------------------------------------------------------------
(* How a row may move                                                      *)

\* An invoice that the deduplication of create_order can find.
OpenInvoice(p) == status[p] = "pending" /\ url[p] /\ age[p] < 2

\* A settled order stays paid until its refund, and no invoice opens.
RowMoves(p) ==
  /\ status[p] = "paid" => status'[p] \in {"paid", "refunded"}
  /\ status[p] = "refunded" => status'[p] = "refunded"
  /\ OpenInvoice(p)' => OpenInvoice(p)

\* Settlement moves only rows that are pending or canceled, to paid.
LEMMA PaidMoves ==
  ASSUME TypeOK, NEW o \in OrderIds, NEW p \in OrderIds, NEW covers,
         MarkOrderPaid(o, covers)
  PROVE  RowMoves(p)
<1>1. /\ \/ status' = status
         \/ Payable(o) /\ status' = [status EXCEPT ![o] = "paid"]
      /\ url' = url /\ age' = age
  BY DEF MarkOrderPaid, PaidIgnored, PaidReleased, PaidTooLittle, PaidFresh
<1> QED
  BY <1>1 DEF TypeOK, Payable, RowMoves, OpenInvoice

\* Refunds move only paid rows, to refunded.
LEMMA RefundMoves ==
  ASSUME TypeOK, NEW o \in OrderIds, NEW p \in OrderIds, MarkOrderRefunded(o)
  PROVE  RowMoves(p)
<1>1. /\ \/ status' = status
         \/ status[o] = "paid" /\ status' = [status EXCEPT ![o] = "refunded"]
      /\ url' = url /\ age' = age
  BY DEF MarkOrderRefunded, RefundIgnored, RefundMismatch, RefundTopup,
         RefundStandard
<1> QED
  BY <1>1 DEF TypeOK, RowMoves, OpenInvoice

\* Cancellations move only rows that are not settled.
LEMMA CancelMoves ==
  ASSUME TypeOK, NEW o \in OrderIds, NEW p \in OrderIds,
         status[o] \notin {"paid", "refunded"},
         status' = [status EXCEPT ![o] = "canceled"],
         UNCHANGED <<url, age>>
  PROVE  RowMoves(p)
BY DEF TypeOK, RowMoves, OpenInvoice

\* A step that leaves the rows' status and link alone.
LEMMA NoMoves ==
  ASSUME NEW p \in OrderIds, UNCHANGED <<status, url, age>>
  PROVE  RowMoves(p)
BY DEF RowMoves, OpenInvoice

\* The end of a checkout is the only step that opens an invoice.
LEMMA OrderMoves ==
  ASSUME IInv, NEW o \in OrderIds, NEW p \in OrderIds, OrderStep(o)
  PROVE  \/ RowMoves(p)
         \/ CommitIssued(o)
<1> USE DEF rowVars
<1>1. TypeOK /\ OrderInv(o)
  BY DEF IInv
<1>2. CASE \/ RequestOrder(o) \/ LockCheckout(o) \/ GatewayIssues(o)
           \/ AbortCheckout(o)
  BY <1>2, NoMoves DEF RequestOrder, LockCheckout, GatewayIssues, AbortCheckout
<1>3. CASE CommitAmbiguous(o)
  <2>1. status[o] = "absent"
    BY <1>1, <1>3 DEF CommitAmbiguous, OrderInv, CheckoutInv
  <2> QED
    BY <1>1, <1>3, <2>1 DEF CommitAmbiguous, CommitOrder, TypeOK, RowMoves,
                            OpenInvoice
<1>4. CASE PaymentSucceeds(o) \/ PaymentCanceled(o) \/ RefundMade(o)
  BY <1>4, NoMoves DEF PaymentSucceeds, PaymentCanceled, RefundMade
<1>5. CASE OrderCancel(o) \/ Expire(o)
  <2>1. status[o] = "pending" /\ \E r \in Reasons : CancelOrder(o, r)
    BY <1>5 DEF OrderCancel, Expire, Reasons
  <2> QED
    BY <1>1, <2>1, CancelMoves DEF CancelOrder
<1>6. CASE Reconcile(o)
  BY <1>1, <1>6, PaidMoves, CancelMoves DEF Reconcile, CancelOrder
<1>7. CASE Tick(o)
  BY <1>1, <1>7 DEF Tick, TypeOK, Ages, RowMoves, OpenInvoice
<1>8. CASE CheckRead(o) \/ CheckNotify(o) \/ CheckFails(o)
  BY <1>8, NoMoves DEF CheckRead, CheckNotify, CheckFails
<1>9. CASE CheckReleaseHeld(o)
  BY <1>1, <1>9, PaidMoves DEF CheckReleaseHeld
<1>10. CASE CheckGateway(o)
  <2>1. CASE MarkOrderPaid(o, full[o])
    BY <1>1, <2>1, PaidMoves
  <2>2. ASSUME NEW r, WriteCanceledCopy(o, r), pay[o] = "canceled"
        PROVE  RowMoves(p)
    <3>1. status[o] \notin {"paid", "refunded"}
      BY <1>1, <2>2 DEF OrderInv, RowInv
    <3> QED
      BY <1>1, <2>2, <3>1, CancelMoves, NoMoves DEF WriteCanceledCopy
  <2>3. CASE UNCHANGED rowVars
    BY <2>3, NoMoves
  <2> QED
    BY <1>10, <2>1, <2>2, <2>3 DEF CheckGateway
<1> QED
  BY <1>2, <1>3, <1>4, <1>5, <1>6, <1>7, <1>8, <1>9, <1>10 DEF OrderStep

\* Deliveries move rows as settlement, cancellation and refunds do.
LEMMA HookMoves ==
  ASSUME IInv, NEW o \in OrderIds, NEW t \in EventTypes, NEW p \in OrderIds,
         HookStep(o, t)
  PROVE  RowMoves(p)
<1>1. TypeOK
  BY DEF IInv
<1>2. CASE WebhookReceive(o, t)
  BY <1>2, NoMoves DEF WebhookReceive, rowVars
<1>3. ASSUME NEW seen \in Seen, WebhookFails(o, t, seen)
      PROVE  RowMoves(p)
  BY <1>3, NoMoves DEF WebhookFails, rowVars
<1>4. ASSUME NEW seen \in Seen, WebhookProcess(o, t, seen)
      PROVE  RowMoves(p)
  <2>1. CASE UnknownOrder(o, t, seen)
    BY <2>1, NoMoves DEF UnknownOrder, rowVars
  <2>2. CASE SucceededEvent(o, seen)
    BY <1>1, <2>2, PaidMoves DEF SucceededEvent
  <2>3. CASE CanceledEvent(o, seen)
    BY <1>1, <2>3, CancelMoves, NoMoves DEF CanceledEvent
  <2>4. CASE RefundEvent(o, seen)
    BY <1>1, <2>4, RefundMoves, NoMoves DEF RefundEvent, rowVars
  <2> QED
    BY <1>4, <2>1, <2>2, <2>3, <2>4 DEF WebhookProcess
<1> QED
  BY <1>2, <1>3, <1>4 DEF HookStep

\* A ban moves only the rows that are not settled.
LEMMA UserMoves ==
  ASSUME IInv, NEW u \in Users, NEW p \in OrderIds, UserStep(u)
  PROVE  RowMoves(p)
<1>1. TypeOK /\ OrderInv(p)
  BY DEF IInv
<1>2. CASE BanBegin(u) \/ BanAbort(u) \/ Unban(u) \/ FlagFlip(u)
  BY <1>2, NoMoves DEF BanBegin, BanAbort, BanEnds, Unban, FlagFlip, rowVars
<1>3. CASE BanCommit(u)
  <2>1. /\ status'[p] = IF p \in BanLoaded(u) THEN "canceled" ELSE status[p]
        /\ UNCHANGED <<url, age>>
    BY <1>3 DEF BanCommit, BanEnds
  <2>2. p \in BanLoaded(u) => status[p] \in {"pending", "canceled"}
    BY <1>1 DEF BanLoaded, OrderInv, BanInv
  <2> QED
    BY <2>1, <2>2 DEF RowMoves, OpenInvoice
<1> QED
  BY <1>2, <1>3 DEF UserStep

\* Late events, stale copies and bans never take an order out of paid, except
\* for its refund, and never out of refunded.
THEOREM FinalitySafety == Spec => PaidIsFinal
<1> DEFINE Final(p) ==
      /\ status[p] = "paid" => status'[p] \in {"paid", "refunded"}
      /\ status[p] = "refunded" => status'[p] = "refunded"
<1>1. ASSUME IInv, [Next]_vars, NEW p \in OrderIds
      PROVE  Final(p)
  <2>1. ASSUME NEW o \in OrderIds, OrderStep(o)
        PROVE  Final(p)
    <3>1. CASE CommitIssued(o)
      <4>1. TypeOK /\ status[o] = "absent"
        BY <1>1, <3>1 DEF CommitIssued, IInv, OrderInv, CheckoutInv, TypeOK
      <4> QED
        BY <1>1, <3>1, <4>1 DEF CommitIssued, CommitOrder, TypeOK
    <3> QED
      BY <1>1, <2>1, <3>1, OrderMoves DEF RowMoves
  <2>2. ASSUME NEW o \in OrderIds, NEW t \in EventTypes, HookStep(o, t)
        PROVE  Final(p)
    BY <1>1, <2>2, HookMoves DEF RowMoves
  <2>3. ASSUME NEW u \in Users, UserStep(u)
        PROVE  Final(p)
    BY <1>1, <2>3, UserMoves DEF RowMoves
  <2>4. CASE UNCHANGED vars
    BY <2>4 DEF vars, rowVars
  <2> QED
    BY <1>1, <2>1, <2>2, <2>3, <2>4 DEF Next
<1>2. IInv /\ [Next]_vars =>
        [\A o \in OrderIds :
           /\ status[o] = "paid" => status'[o] \in {"paid", "refunded"}
           /\ status[o] = "refunded" => status'[o] = "refunded"]_vars
  BY <1>1
<1> QED
  BY <1>2, InductiveInvariant, PTL DEF Spec, PaidIsFinal

-----------------------------------------------------------------------------
(* One open invoice per purchase                                           *)

\* Under the advisory lock: at most one checkout per user, and no invoice that
\* it should have found.
InvoiceInv ==
  /\ \A o, p \in creating : Owner[o] = Owner[p] => o = p
  /\ \A o \in creating : \A p \in OrderIds : ~IsOpenInvoice(p, o)
  /\ NoDoubleInvoice

\* Invoices only close, and no checkout begins.
LEMMA InvoiceFrame ==
  ASSUME TypeOK, InvoiceInv, \A p \in OrderIds : RowMoves(p),
         creating' \subseteq creating
  PROVE  InvoiceInv'
<1>1. \A p \in OrderIds, o \in OrderIds :
        IsOpenInvoice(p, o)' => IsOpenInvoice(p, o)
  BY DEF RowMoves, OpenInvoice, IsOpenInvoice
<1>2. creating \subseteq OrderIds
  BY DEF TypeOK
<1>3. NoDoubleInvoice'
  BY <1>1 DEF InvoiceInv, NoDoubleInvoice, RowMoves, OpenInvoice
<1> QED
  BY <1>1, <1>2, <1>3 DEF InvoiceInv

\* The lock admits a checkout only if there is no other of that user, and the
\* search under the lock has found no invoice.
LEMMA InvoiceLock ==
  ASSUME TypeOK, InvoiceInv, NEW o \in OrderIds, LockCheckout(o)
  PROVE  InvoiceInv'
<1>1. UNCHANGED <<status, url, age>>
  BY DEF LockCheckout, rowVars
<1>2. \A p, q \in OrderIds : IsOpenInvoice(p, q)' <=> IsOpenInvoice(p, q)
  BY <1>1 DEF IsOpenInvoice
<1>3. NoDoubleInvoice'
  BY <1>1 DEF InvoiceInv, NoDoubleInvoice, IsOpenInvoice
<1>4. /\ \A p \in creating : Owner[p] # Owner[o]
      /\ creating \subseteq OrderIds
      /\ \/ creating' = creating
         \/ /\ creating' = creating \cup {o}
            /\ \A p \in OrderIds : ~IsOpenInvoice(p, o)
  BY DEF LockCheckout, AdvisoryLockFree, TypeOK
<1> QED
  BY <1>2, <1>3, <1>4 DEF InvoiceInv

\* The commit opens the invoice of the only checkout of its user.
LEMMA InvoiceCommit ==
  ASSUME TypeOK, InvoiceInv, NEW o \in OrderIds, CommitIssued(o)
  PROVE  InvoiceInv'
<1>1. /\ o \in creating /\ creating' = creating \ {o} /\ age' = age
      /\ \A p \in OrderIds \ {o} : status'[p] = status[p] /\ url'[p] = url[p]
      /\ creating \subseteq OrderIds
  BY DEF CommitIssued, CommitOrder, TypeOK
<1>2. \A p \in OrderIds \ {o}, q \in OrderIds :
        IsOpenInvoice(p, q)' => IsOpenInvoice(p, q)
  BY <1>1 DEF IsOpenInvoice
<1>3. \A p \in OrderIds : ~IsOpenInvoice(p, o)
  BY <1>1 DEF InvoiceInv
<1>4. \A q \in creating' : \A p \in OrderIds : ~IsOpenInvoice(p, q)'
  <2> SUFFICES ASSUME NEW q \in creating', NEW p \in OrderIds,
                      IsOpenInvoice(p, q)'
               PROVE  FALSE
    OBVIOUS
  <2>1. q \in creating /\ q # o /\ q \in OrderIds /\ Owner[q] # Owner[o]
    BY <1>1 DEF InvoiceInv
  <2>2. p # o
    BY <2>1 DEF IsOpenInvoice
  <2> QED
    BY <1>2, <2>1, <2>2 DEF InvoiceInv
<1>5. NoDoubleInvoice'
  <2> SUFFICES ASSUME NEW q \in OrderIds, NEW p \in OrderIds, q # p,
                      status'[q] = "pending", url'[q], age'[q] < 2,
                      IsOpenInvoice(p, q)'
               PROVE  FALSE
    BY DEF NoDoubleInvoice
  <2>1. IsOpenInvoice(q, p)'
    BY DEF IsOpenInvoice
  <2>2. CASE q = o
    BY <1>2, <1>3, <2>2
  <2>3. CASE p = o
    BY <1>2, <1>3, <2>1, <2>3
  <2>4. CASE q # o /\ p # o
    BY <1>1, <1>2, <2>4 DEF InvoiceInv, NoDoubleInvoice
  <2> QED
    BY <2>2, <2>3, <2>4
<1>6. \A q, p \in creating' : Owner[q] = Owner[p] => q = p
  BY <1>1 DEF InvoiceInv
<1> QED
  BY <1>4, <1>5, <1>6 DEF InvoiceInv

\* create_order holds the advisory lock from the search for an open invoice
\* to the commit of a new one, so clicks in any number and order leave one.
THEOREM InvoiceSafety == Spec => []NoDoubleInvoice
<1>1. Init => InvoiceInv
  BY DEF Init, InvoiceInv, NoDoubleInvoice, IsOpenInvoice
<1>2. ASSUME IInv, InvoiceInv, [Next]_vars
      PROVE  InvoiceInv'
  <2>1. TypeOK
    BY <1>2 DEF IInv
  <2>2. ASSUME NEW o \in OrderIds, OrderStep(o)
        PROVE  InvoiceInv'
    <3>1. CASE LockCheckout(o)
      BY <1>2, <2>1, <3>1, InvoiceLock
    <3>2. CASE CommitIssued(o)
      BY <1>2, <2>1, <3>2, InvoiceCommit
    <3>3. CASE ~LockCheckout(o) /\ ~CommitIssued(o)
      <4>1. \A p \in OrderIds : RowMoves(p)
        BY <1>2, <2>2, <3>3, OrderMoves
      <4>2. creating' \subseteq creating
        BY <2>2, <3>3
           DEF OrderStep, RequestOrder, GatewayIssues, CommitAmbiguous,
               CommitOrder, AbortCheckout, PaymentSucceeds, PaymentCanceled,
               RefundMade, OrderCancel, Reconcile, Expire, Tick, CheckRead,
               CheckReleaseHeld, CheckNotify, CheckGateway, CheckFails,
               CheckEnds, createVars
      <4> QED
        BY <1>2, <2>1, <4>1, <4>2, InvoiceFrame
    <3> QED
      BY <3>1, <3>2, <3>3
  <2>3. ASSUME NEW o \in OrderIds, NEW t \in EventTypes, HookStep(o, t)
        PROVE  InvoiceInv'
    <3>1. creating' = creating
      BY <2>3 DEF HookStep, WebhookReceive, WebhookFails, WebhookProcess,
                  createVars
    <3> QED
      BY <1>2, <2>1, <2>3, <3>1, HookMoves, InvoiceFrame
  <2>4. ASSUME NEW u \in Users, UserStep(u)
        PROVE  InvoiceInv'
    <3>1. creating' = creating
      BY <2>4 DEF UserStep, BanBegin, BanCommit, BanAbort, BanEnds, Unban,
                  FlagFlip, createVars
    <3> QED
      BY <1>2, <2>1, <2>4, <3>1, UserMoves, InvoiceFrame
  <2>5. CASE UNCHANGED vars
    <3>1. UNCHANGED <<status, url, age, creating>>
      BY <2>5 DEF vars, rowVars, createVars
    <3> QED
      BY <1>2, <2>1, <3>1, NoMoves, InvoiceFrame
  <2> QED
    BY <1>2, <2>2, <2>3, <2>4, <2>5 DEF Next
<1>3. InvoiceInv => NoDoubleInvoice
  BY DEF InvoiceInv
<1> QED
  BY <1>1, <1>2, <1>3, InductiveInvariant, PTL DEF Spec

-----------------------------------------------------------------------------
(* No benefits for blocked users                                           *)

\* What order p has given to its user and to the referrer.
Given(p) == {p} \X {"payment_credit", "referral_bonus"}

GrantRule(p) ==
  ledger' \cap Given(p) # ledger \cap Given(p) \/ grants'[p] > grants[p]
    => ~SettlementBlocked(p) /\ ~banning[Owner[p]]

\* A step that gives nothing.
LEMMA NoGrants ==
  ASSUME TypeOK, NEW p \in OrderIds, UNCHANGED <<ledger, grants>>
  PROVE  GrantRule(p)
BY DEF TypeOK, GrantRule

\* Settlement gives under the user's row lock, after reading the flags.
LEMMA PaidGrants ==
  ASSUME TypeOK, NEW o \in OrderIds, NEW p \in OrderIds, NEW covers,
         MarkOrderPaid(o, covers)
  PROVE  GrantRule(p)
<1>1. \/ UNCHANGED benefitVars
      \/ /\ ~SettlementBlocked(o) /\ ~banning[Owner[o]]
         /\ SettleBenefits(o)
  BY DEF MarkOrderPaid, PaidIgnored, PaidReleased, PaidTooLittle, PaidFresh,
         UserRowFree
<1>2. CASE UNCHANGED benefitVars
  BY <1>2, NoGrants DEF benefitVars
<1>3. CASE /\ ~SettlementBlocked(o) /\ ~banning[Owner[o]]
           /\ SettleBenefits(o)
  <2>1. CASE p = o
    BY <1>3, <2>1 DEF GrantRule
  <2>2. CASE p # o
    <3>1. grants'[p] = grants[p]
          /\ \A k \in LedgerKinds : <<p, k>> \in ledger' <=> <<p, k>> \in ledger
      BY <1>3, <2>2, SettleEffect
    <3>2. ledger' \cap Given(p) = ledger \cap Given(p)
      BY <3>1 DEF Given, LedgerKinds
    <3>3. grants[p] \in Nat
      BY DEF TypeOK
    <3> QED
      BY <3>1, <3>2, <3>3 DEF GrantRule
  <2> QED
    BY <2>1, <2>2
<1> QED
  BY <1>1, <1>2, <1>3

\* A refund gives nothing: its ledger entry is a debit.
LEMMA RefundGrants ==
  ASSUME TypeOK, NEW o \in OrderIds, NEW p \in OrderIds, MarkOrderRefunded(o)
  PROVE  GrantRule(p)
<1>1. CASE UNCHANGED benefitVars
  BY <1>1, NoGrants DEF benefitVars
<1>2. CASE RefundStandard(o)
  <2>1. /\ ledger' = ledger \cup BonusReversal(o) /\ grants' = grants
        /\ BonusReversal(o) \subseteq {<<o, "referral_reversal">>}
    BY <1>2 DEF RefundStandard, BonusReversal
  <2>2. ledger' \cap Given(p) = ledger \cap Given(p)
    BY <2>1 DEF Given
  <2>3. grants[p] \in Nat
    BY DEF TypeOK
  <2> QED
    BY <2>1, <2>2, <2>3 DEF GrantRule
<1> QED
  BY <1>1, <1>2 DEF MarkOrderRefunded, RefundIgnored, RefundMismatch,
                    RefundTopup

\* A payment after a ban, a hold or a block, or during the ban transaction,
\* gives no credit, no bonus and no access, whoever settles the order, and a
\* held order is not released either.
THEOREM BlockedSafety == Spec => NoGrantWhileBlocked
<1>1. ASSUME TypeOK, [Next]_vars, NEW p \in OrderIds
      PROVE  GrantRule(p)
  <2>1. ASSUME NEW o \in OrderIds, OrderStep(o)
        PROVE  GrantRule(p)
    <3>1. CASE \E covers : MarkOrderPaid(o, covers)
      BY <1>1, <3>1, PaidGrants
    <3>2. CASE UNCHANGED benefitVars
      BY <1>1, <3>2, NoGrants DEF benefitVars
    <3>3. \/ \E covers : MarkOrderPaid(o, covers)
          \/ UNCHANGED benefitVars
      BY <2>1
         DEF OrderStep, RequestOrder, LockCheckout, GatewayIssues,
             CommitIssued, CommitAmbiguous, CommitOrder, AbortCheckout,
             PaymentSucceeds, PaymentCanceled, RefundMade, OrderCancel,
             Reconcile, Expire, Tick, CheckRead, CheckReleaseHeld, CheckNotify,
             CheckGateway, WriteCanceledCopy, CheckFails
    <3> QED
      BY <3>1, <3>2, <3>3
  <2>2. ASSUME NEW o \in OrderIds, NEW t \in EventTypes, HookStep(o, t)
        PROVE  GrantRule(p)
    <3>1. \/ MarkOrderPaid(o, full[o])
          \/ MarkOrderRefunded(o)
          \/ UNCHANGED benefitVars
      BY <2>2 DEF HookStep, WebhookReceive, WebhookFails, WebhookProcess,
                  UnknownOrder, SucceededEvent, CanceledEvent, RefundEvent
    <3> QED
      BY <1>1, <3>1, PaidGrants, RefundGrants, NoGrants DEF benefitVars
  <2>3. ASSUME NEW u \in Users, UserStep(u)
        PROVE  GrantRule(p)
    <3>1. UNCHANGED benefitVars
      BY <2>3 DEF UserStep, BanBegin, BanCommit, BanAbort, BanEnds, Unban,
                  FlagFlip
    <3> QED
      BY <1>1, <3>1, NoGrants DEF benefitVars
  <2>4. CASE UNCHANGED vars
    BY <1>1, <2>4, NoGrants DEF vars, benefitVars
  <2> QED
    BY <1>1, <2>1, <2>2, <2>3, <2>4 DEF Next
<1>2. TypeOK /\ [Next]_vars =>
        [\A o \in OrderIds :
           ledger' \cap ({o} \X {"payment_credit", "referral_bonus"})
               # ledger \cap ({o} \X {"payment_credit", "referral_bonus"})
             \/ grants'[o] > grants[o]
           => ~SettlementBlocked(o) /\ ~banning[Owner[o]]]_vars
  BY <1>1 DEF GrantRule, Given
<1> QED
  BY <1>2, TypeInvariant, PTL DEF Spec, NoGrantWhileBlocked

=============================================================================
