------------------------------- MODULE Orders -------------------------------
(***************************************************************************)
(* The life of an externally paid order: OrderService (create, settle,     *)
(* cancel, refund), the YooKassa webhook with its inbox, the "check        *)
(* payment" and "cancel" buttons, the reconciliation of stale orders and   *)
(* the ban transaction that closes pending orders.                         *)
(*                                                                         *)
(* One action is one database transaction, or the part of one that lies    *)
(* between two awaits when rows read before the await are used after it    *)
(* without a lock:                                                         *)
(*   - create_order holds the per-user advisory lock over the HTTP call    *)
(*     to the gateway, and its row is visible only after the commit;       *)
(*   - the webhook reads its inbox row before it locks the order;          *)
(*   - order_check reads the order without a lock, asks the gateway, and   *)
(*     writes its old copy back;                                           *)
(*   - the ban reads the pending orders without locking them and writes    *)
(*     its copies back at the flush, under the lock of the USER row.       *)
(* Money amounts are reduced to what the guards compare: whether the       *)
(* payment, or the refund, covers the order's amount.                      *)
(***************************************************************************)
EXTENDS Naturals

CONSTANTS
  Users,        \* users.id
  OrderIds,     \* orders.id: every order row that may ever be inserted
  NoUser,       \* users.referred_by IS NULL
  Owner,        \* [OrderIds -> Users]: orders.user_id
  Service,      \* [OrderIds -> {"topup", "standard"}]: orders.service_type
  Terms,        \* [OrderIds -> value]: tariff, days, devices, price
  Referrer,     \* [Users -> Users \cup {NoUser}]: users.referred_by
  BonusDue,     \* [OrderIds -> BOOLEAN]: the bonus rounds to at least 1 RUB
  MaxFlips      \* bound: changes of a user's ban, hold and block flags

ASSUME NoUserAssumption == NoUser \notin Users
ASSUME OwnerAssumption == Owner \in [OrderIds -> Users]
ASSUME ServiceAssumption == Service \in [OrderIds -> {"topup", "standard"}]
ASSUME ReferrerAssumption == Referrer \in [Users -> Users \cup {NoUser}]
ASSUME BonusDueAssumption == BonusDue \in [OrderIds -> BOOLEAN]
ASSUME MaxFlipsAssumption == MaxFlips \in Nat

VARIABLES
  status,     \* orders.status ("absent": no committed row)
  meta,       \* the keys of orders.metadata that guards read
  ext,        \* orders.external_id IS NOT NULL
  url,        \* orders.payment_url IS NOT NULL
  age,        \* time since orders.created_at, see Ages
  pay,        \* the provider's payment object
  full,       \* the payment covers orders.amount_rub
  refund,     \* the refund the owner made in the provider's cabinet
  want,       \* checkouts past the handler's checks, before the lock
  creating,   \* create_order transactions under the advisory lock
  issued,     \* those of them that have the gateway's answer, not the commit
  inbox,      \* webhook_inbox.status per event
  inflight,   \* deliveries that have read their inbox row
  banned, hold, block, \* users.is_banned, financial_hold, topup_blocked
  flips,      \* how often those flags changed
  banning,    \* a ban transaction holds the user's row and advisory lock
  banCopy,    \* the ORM copies of that transaction
  checkCopy,  \* the ORM copy of an order_check in progress
  ledger,     \* account_ledger_entries written by settlement and refunds
  grants,     \* fulfill_order calls that extended access
  revokes     \* revoke_order calls that took it back

rowVars == <<status, meta, ext, url, age>>
providerVars == <<pay, full, refund>>
createVars == <<want, creating, issued>>
hookVars == <<inbox, inflight>>
flagVars == <<banned, hold, block, flips>>
banVars == <<banning, banCopy>>
benefitVars == <<ledger, grants, revokes>>
vars == <<rowVars, providerVars, createVars, hookVars, flagVars, banVars,
          checkCopy, benefitVars>>

-----------------------------------------------------------------------------
Statuses == {"absent", "pending", "paid", "canceled", "refunded"}

\* metadata.cancellation_reason; "provider_reason" is any reason text that
\* YooKassa reports in cancellation_details.
Reasons == {"none", "gateway_canceled", "provider_reason", "user_canceled",
            "user_banned", "ambiguous_creation_timeout", "order_expired_24h"}

\* held: settlement_held; review: requires_manual_review.
Metas == [reason : Reasons, held : BOOLEAN, review : BOOLEAN]
NoMeta == [reason |-> "none", held |-> FALSE, review |-> FALSE]

\* 0: below 3 minutes, 1: below 15 minutes, 2: below 30 minutes,
\* 3: below 24 hours, 4: older.
Ages == 0..4

EventTypes == {"succeeded", "canceled", "refund"}
Events == OrderIds \X EventTypes
InboxStatuses == {"absent", "pending", "succeeded", "dead"}
Seen == {"absent", "pending"}

\* A row as an ORM session holds it in memory.
Copies == [status : Statuses, meta : Metas, ext : BOOLEAN]
NoCopy == [status |-> "absent", meta |-> NoMeta, ext |-> FALSE]
CopyOf(o) == [status |-> status[o], meta |-> meta[o], ext |-> ext[o]]

LedgerKinds == {"payment_credit", "referral_bonus", "referral_reversal"}
Entries == OrderIds \X LedgerKinds

TypeOK ==
  /\ status \in [OrderIds -> Statuses]
  /\ meta \in [OrderIds -> Metas]
  /\ ext \in [OrderIds -> BOOLEAN]
  /\ url \in [OrderIds -> BOOLEAN]
  /\ age \in [OrderIds -> Ages]
  /\ pay \in [OrderIds -> {"none", "pending", "succeeded", "canceled"}]
  /\ full \in [OrderIds -> BOOLEAN]
  /\ refund \in [OrderIds -> {"none", "full", "partial"}]
  /\ want \in SUBSET OrderIds
  /\ creating \in SUBSET OrderIds
  /\ issued \in SUBSET creating
  /\ inbox \in [Events -> InboxStatuses]
  /\ inflight \in SUBSET (Events \X Seen)
  /\ banned \in [Users -> BOOLEAN]
  /\ hold \in [Users -> BOOLEAN]
  /\ block \in [Users -> BOOLEAN]
  /\ flips \in 0..MaxFlips
  /\ banning \in [Users -> BOOLEAN]
  /\ banCopy \in [OrderIds -> Copies]
  /\ checkCopy \in [OrderIds -> Copies]
  /\ ledger \in SUBSET Entries
  /\ grants \in [OrderIds -> Nat]
  /\ revokes \in [OrderIds -> Nat]

Init ==
  /\ status = [o \in OrderIds |-> "absent"]
  /\ meta = [o \in OrderIds |-> NoMeta]
  /\ ext = [o \in OrderIds |-> FALSE]
  /\ url = [o \in OrderIds |-> FALSE]
  /\ age = [o \in OrderIds |-> 0]
  /\ pay = [o \in OrderIds |-> "none"]
  /\ full = [o \in OrderIds |-> FALSE]
  /\ refund = [o \in OrderIds |-> "none"]
  /\ want = {}
  /\ creating = {}
  /\ issued = {}
  /\ inbox = [e \in Events |-> "absent"]
  /\ inflight = {}
  /\ banned = [u \in Users |-> FALSE]
  /\ hold = [u \in Users |-> FALSE]
  /\ block = [u \in Users |-> FALSE]
  /\ flips = 0
  /\ banning = [u \in Users |-> FALSE]
  /\ banCopy = [o \in OrderIds |-> NoCopy]
  /\ checkCopy = [o \in OrderIds |-> NoCopy]
  /\ ledger = {}
  /\ grants = [o \in OrderIds |-> 0]
  /\ revokes = [o \in OrderIds |-> 0]

-----------------------------------------------------------------------------
(* Checkout: OrderService.create_order and its two callers                 *)

\* The handler's checks, made on the user row that the middleware loaded:
\* order_pay_card and _create_and_render_topup. They are over before the
\* advisory lock is requested.
RequestOrder(o) ==
  LET u == Owner[o] IN
  /\ status[o] = "absent" /\ pay[o] = "none"
  /\ o \notin want /\ o \notin creating
  /\ ~banned[u] /\ ~hold[u]
  /\ Service[o] = "topup" => ~block[u]
  /\ want' = want \cup {o}
  /\ UNCHANGED <<rowVars, providerVars, creating, issued, hookVars, flagVars,
                 banVars, checkCopy, benefitVars>>

\* Variant: bans exclude checkouts, but checkouts do not exclude each other.
NoCheckoutLock(u) == ~banning[u]

\* pg_advisory_xact_lock(-user_id): checkouts and bans of one user exclude
\* each other until the commit.
AdvisoryLockFree(u) == ~banning[u] /\ \A o \in creating : Owner[o] # u

\* A pending order of the same terms, with a link, younger than 15 minutes.
IsOpenInvoice(p, o) ==
  /\ Owner[p] = Owner[o] /\ Service[p] = Service[o] /\ Terms[p] = Terms[o]
  /\ status[p] = "pending" /\ url[p] /\ age[p] < 2

\* Under the lock: an open invoice is returned as it is, otherwise the row is
\* inserted (not committed) and the gateway is called.
LockCheckout(o) ==
  /\ o \in want
  /\ AdvisoryLockFree(Owner[o])
  /\ want' = want \ {o}
  /\ creating' = IF \E p \in OrderIds : IsOpenInvoice(p, o)
                 THEN creating ELSE creating \cup {o}
  /\ UNCHANGED <<rowVars, providerVars, issued, hookVars, flagVars, banVars,
                 checkCopy, benefitVars>>

\* The gateway answers: the payment exists and the user is shown its link
\* while the transaction is still open.
GatewayIssues(o) ==
  /\ o \in creating \ issued
  /\ issued' = issued \cup {o}
  /\ pay' = [pay EXCEPT ![o] = "pending"]
  /\ UNCHANGED <<rowVars, full, refund, want, creating, hookVars, flagVars,
                 banVars, checkCopy, benefitVars>>

\* Variant: the checkout keeps its answer after the commit.
CommitKeepsAnswer(o, linked) ==
  /\ status' = [status EXCEPT ![o] = "pending"]
  /\ ext' = [ext EXCEPT ![o] = linked]
  /\ url' = [url EXCEPT ![o] = linked]
  /\ creating' = creating \ {o}
  /\ UNCHANGED <<meta, age, want, issued, hookVars, flagVars, banVars,
                 checkCopy, benefitVars>>

\* The end of the create_order transaction: the lock is released and the row
\* appears with the given link columns.
CommitOrder(o, linked) ==
  /\ status' = [status EXCEPT ![o] = "pending"]
  /\ ext' = [ext EXCEPT ![o] = linked]
  /\ url' = [url EXCEPT ![o] = linked]
  /\ creating' = creating \ {o}
  /\ issued' = issued \ {o}
  /\ UNCHANGED <<meta, age, want, hookVars, flagVars, banVars, checkCopy,
                 benefitVars>>

\* session_scope commits when the handler returns.
CommitIssued(o) ==
  /\ o \in issued
  /\ CommitOrder(o, TRUE)
  /\ UNCHANGED providerVars

\* PaymentCreationAmbiguousError: the order is committed without its link,
\* whether or not the provider has created the payment.
CommitAmbiguous(o) ==
  /\ o \in creating \ issued
  /\ CommitOrder(o, FALSE)
  /\ \E p \in {"none", "pending"} : pay' = [pay EXCEPT ![o] = p]
  /\ UNCHANGED <<full, refund>>

\* The gateway refuses, or the process or the commit fails: nothing is kept.
AbortCheckout(o) ==
  /\ o \in creating
  /\ creating' = creating \ {o}
  /\ issued' = issued \ {o}
  /\ UNCHANGED <<rowVars, providerVars, want, hookVars, flagVars, banVars,
                 checkCopy, benefitVars>>

-----------------------------------------------------------------------------
(* The provider, as the code sees it (external)                            *)

PaymentSucceeds(o) ==
  /\ pay[o] = "pending"
  /\ pay' = [pay EXCEPT ![o] = "succeeded"]
  /\ \E f \in BOOLEAN : full' = [full EXCEPT ![o] = f]
  /\ UNCHANGED <<rowVars, refund, createVars, hookVars, flagVars, banVars,
                 checkCopy, benefitVars>>

PaymentCanceled(o) ==
  /\ pay[o] = "pending"
  /\ pay' = [pay EXCEPT ![o] = "canceled"]
  /\ UNCHANGED <<rowVars, full, refund, createVars, hookVars, flagVars,
                 banVars, checkCopy, benefitVars>>

\* Refunds are made by the owner of the shop in the provider's cabinet.
RefundMade(o) ==
  /\ pay[o] = "succeeded" /\ refund[o] = "none"
  /\ \E r \in {"full", "partial"} : refund' = [refund EXCEPT ![o] = r]
  /\ UNCHANGED <<rowVars, pay, full, createVars, hookVars, flagVars, banVars,
                 checkCopy, benefitVars>>

\* The notifications the provider sends, and sends again.
EventExists(o, t) ==
  \/ t = "succeeded" /\ pay[o] = "succeeded"
  \/ t = "canceled" /\ pay[o] = "canceled"
  \/ t = "refund" /\ refund[o] # "none"

-----------------------------------------------------------------------------
(* Settlement: OrderService.mark_order_paid under the order's row lock     *)

\* The flags that withhold the benefits of an order of this user.
SettlementBlocked(o) ==
  LET u == Owner[o] IN
  banned[u] \/ hold[u] \/ (Service[o] = "topup" /\ block[u])

\* SELECT ... FOR UPDATE on the user row waits for a ban in progress.
UserRowFree(u) == ~banning[u]

\* grant_referral_bonus_for_topup: the referrer's bonus entry, keyed by the
\* order, unless there is no referrer or the referrer is banned.
BonusGranted(o) ==
  LET r == Referrer[Owner[o]] IN
  /\ BonusDue[o]
  /\ r \in Users /\ r # Owner[o]
  /\ ~banned[r]

\* The referrer row is locked too.
ReferrerRowFree(o) ==
  Referrer[Owner[o]] \in Users => UserRowFree(Referrer[Owner[o]])

\* create_order_credit is an insert that does nothing when the entry exists.
CreditEntries(o) ==
  IF Service[o] = "topup" THEN {<<o, "payment_credit">>} ELSE {}

BonusEntries(o) == IF BonusGranted(o) THEN {<<o, "referral_bonus">>} ELSE {}

\* fulfill_order extends access; for a top-up it only drops a cache entry.
FulfillOrder(o) ==
  IF Service[o] = "standard" THEN [grants EXCEPT ![o] = @ + 1] ELSE grants

\* _settle_benefits: credit the wallet, grant the bonus, fulfil.
SettleBenefits(o) ==
  /\ ReferrerRowFree(o)
  /\ ledger' = ledger \cup CreditEntries(o) \cup BonusEntries(o)
  /\ grants' = FulfillOrder(o)
  /\ UNCHANGED revokes

\* Paid, and the benefits were given.
Settled(o) == status[o] = "paid" /\ ~meta[o].held

\* Variant: the reason of a cancellation is not looked at.
IgnoreAnyCancellation(o) ==
  /\ status[o] \in {"canceled", "refunded"} \/ Settled(o)
  /\ UNCHANGED <<status, meta, ext, benefitVars>>

\* Already settled, refunded, or canceled by the gateway: nothing happens.
PaidIgnored(o) ==
  /\ \/ Settled(o)
     \/ status[o] = "refunded"
     \/ status[o] = "canceled" /\ meta[o].reason = "gateway_canceled"
  /\ UNCHANGED <<status, meta, ext, benefitVars>>

\* Variant: the hold is not cleared when the benefits are given.
ReleaseKeepsHold(o) ==
  /\ status[o] = "paid" /\ meta[o].held
  /\ UserRowFree(Owner[o])
  /\ ~SettlementBlocked(o) /\ SettleBenefits(o)
  /\ UNCHANGED <<status, meta, ext>>

\* A held order is released by the next attempt after the flags are cleared.
PaidReleased(o) ==
  /\ status[o] = "paid" /\ meta[o].held
  /\ UserRowFree(Owner[o])
  /\ IF SettlementBlocked(o)
     THEN UNCHANGED <<meta, benefitVars>>
     ELSE /\ meta' = [meta EXCEPT ![o].held = FALSE]
          /\ SettleBenefits(o)
  /\ UNCHANGED <<status, ext>>

\* Variant: a refunded order can be paid again.
PayableTwice(o) ==
  \/ status[o] \in {"pending", "refunded"}
  \/ status[o] = "canceled" /\ meta[o].reason # "gateway_canceled"

\* Pending, or canceled for another reason than by the gateway.
Payable(o) ==
  \/ status[o] = "pending"
  \/ status[o] = "canceled" /\ meta[o].reason # "gateway_canceled"

\* An underpaid order keeps its status and asks for a manual review.
PaidTooLittle(o, covers) ==
  /\ Payable(o) /\ ~covers
  /\ ext' = [ext EXCEPT ![o] = TRUE]
  /\ meta' = [meta EXCEPT ![o].review = TRUE]
  /\ UNCHANGED <<status, benefitVars>>

\* Variant: the user's flags are read without the user's row lock.
SettleUnlocked(o, covers) ==
  /\ Payable(o) /\ covers
  /\ status' = [status EXCEPT ![o] = "paid"]
  /\ ext' = [ext EXCEPT ![o] = TRUE]
  /\ ~SettlementBlocked(o) /\ UNCHANGED meta
  /\ SettleBenefits(o)

\* Variant: the amount is not compared.
SettleAnyAmount(o, covers) ==
  /\ Payable(o)
  /\ UserRowFree(Owner[o])
  /\ status' = [status EXCEPT ![o] = "paid"]
  /\ ext' = [ext EXCEPT ![o] = TRUE]
  /\ ~SettlementBlocked(o) /\ UNCHANGED meta
  /\ SettleBenefits(o)

\* First settlement, with the user's flags read under the user's row lock.
PaidFresh(o, covers) ==
  /\ Payable(o) /\ covers
  /\ UserRowFree(Owner[o])
  /\ status' = [status EXCEPT ![o] = "paid"]
  /\ ext' = [ext EXCEPT ![o] = TRUE]
  /\ IF SettlementBlocked(o)
     THEN /\ meta' = [meta EXCEPT ![o].held = TRUE]
          /\ UNCHANGED benefitVars
     ELSE /\ UNCHANGED meta
          /\ SettleBenefits(o)

MarkOrderPaid(o, covers) ==
  /\ \/ PaidIgnored(o)
     \/ PaidReleased(o)
     \/ PaidTooLittle(o, covers)
     \/ PaidFresh(o, covers)
  /\ UNCHANGED <<url, age>>

\* mark_order_canceled on a copy of the row: the whole metadata of the copy is
\* written back, the first reason wins.
CanceledMeta(m, reason) ==
  IF m.reason = "none" THEN [m EXCEPT !.reason = reason] ELSE m

\* The reason text of a payment that the gateway reports as canceled.
GatewayReasons == {"gateway_canceled", "provider_reason"}

-----------------------------------------------------------------------------
(* Refunds: the last branch of process_webhook_event                       *)

\* A refund of less (or more) than the order's amount is left to the admin.
RefundMismatch(o) ==
  /\ status[o] = "paid" /\ refund[o] = "partial"
  /\ meta' = [meta EXCEPT ![o].review = TRUE]
  /\ UNCHANGED <<status, benefitVars>>

\* A top-up that was never credited has nothing to take back. The branch of
\* a credited top-up calls get_account_balance with a positional argument
\* that it does not accept: the TypeError rolls everything back, so there is
\* no disjunct for it (the delivery ends in WebhookFails).
RefundTopup(o) ==
  /\ status[o] = "paid" /\ refund[o] = "full" /\ Service[o] = "topup"
  /\ <<o, "payment_credit">> \notin ledger
  /\ status' = [status EXCEPT ![o] = "refunded"]
  /\ UNCHANGED <<meta, benefitVars>>

\* Variant: only top-ups have their bonus reversed.
ReverseTopupOnly(o) ==
  IF Service[o] = "topup" /\ <<o, "referral_bonus">> \in ledger
  THEN {<<o, "referral_reversal">>} ELSE {}

\* reverse_referral_bonus_for_topup: one debit per bonus entry of the order.
BonusReversal(o) ==
  IF <<o, "referral_bonus">> \in ledger
  THEN {<<o, "referral_reversal">>} ELSE {}

\* A directly paid tariff: the bonus is reversed, and the access is taken
\* back unless it was withheld in the first place.
RefundStandard(o) ==
  /\ status[o] = "paid" /\ refund[o] = "full" /\ Service[o] = "standard"
  /\ UserRowFree(Owner[o])
  /\ status' = [status EXCEPT ![o] = "refunded"]
  /\ ledger' = ledger \cup BonusReversal(o)
  /\ revokes' = IF meta[o].held THEN revokes
                ELSE [revokes EXCEPT ![o] = @ + 1]
  /\ UNCHANGED <<meta, grants>>

RefundIgnored(o) ==
  /\ status[o] = "refunded"
  /\ UNCHANGED <<status, meta, benefitVars>>

MarkOrderRefunded(o) ==
  /\ \/ RefundIgnored(o)
     \/ RefundMismatch(o)
     \/ RefundTopup(o)
     \/ RefundStandard(o)
  /\ UNCHANGED <<ext, url, age>>

-----------------------------------------------------------------------------
(* The webhook: inbox row, process_webhook_event, inbox status             *)

\* A delivery reads the inbox row of its event without a lock; an event that
\* is already done, or dead, is answered 200 at once.
WebhookReceive(o, t) ==
  LET e == <<o, t>> IN
  /\ EventExists(o, t)
  /\ inbox[e] \in Seen
  /\ <<e, inbox[e]>> \notin inflight
  /\ inflight' = inflight \cup {<<e, inbox[e]>>}
  /\ UNCHANGED <<rowVars, providerVars, createVars, inbox, flagVars, banVars,
                 checkCopy, benefitVars>>

\* A loaded inbox row is updated; otherwise INSERT .. ON CONFLICT DO NOTHING.
RecordOutcome(e, seen, outcome) ==
  inbox' = IF seen = "pending" \/ inbox[e] = "absent"
           THEN [inbox EXCEPT ![e] = outcome] ELSE inbox

\* The provider repeats an event until it is answered 200, so a second
\* delivery that has read the same inbox row may still be under way.
DeliveryEnds(e, seen) ==
  \/ inflight' = inflight \ {<<e, seen>>}
  \/ inflight' = inflight

\* process_webhook_event found no order: 503 and a retry, then DEAD; refunds
\* are retried for ever.
UnknownOrder(o, t, seen) ==
  /\ status[o] = "absent"
  /\ RecordOutcome(<<o, t>>, seen,
       IF t # "refund" /\ seen = "pending" THEN "dead" ELSE "pending")
  /\ UNCHANGED <<rowVars, benefitVars>>

SucceededEvent(o, seen) ==
  /\ status[o] # "absent"
  /\ MarkOrderPaid(o, full[o])
  /\ RecordOutcome(<<o, "succeeded">>, seen, "succeeded")

CanceledEvent(o, seen) ==
  /\ status[o] # "absent"
  /\ IF status[o] = "pending"
     THEN /\ status' = [status EXCEPT ![o] = "canceled"]
          /\ meta' = [meta EXCEPT ![o] = CanceledMeta(@, "gateway_canceled")]
     ELSE UNCHANGED <<status, meta>>
  /\ RecordOutcome(<<o, "canceled">>, seen, "succeeded")
  /\ UNCHANGED <<ext, url, age, benefitVars>>

\* Variant: the early refund is acknowledged instead of deferred.
RefundNotDeferred(o, seen) ==
  \/ /\ status[o] \in {"pending", "canceled"}
     /\ RecordOutcome(<<o, "refund">>, seen, "succeeded")
     /\ UNCHANGED <<rowVars, benefitVars>>
  \/ /\ MarkOrderRefunded(o)
     /\ RecordOutcome(<<o, "refund">>, seen, "succeeded")

\* A refund of an order that is not paid (yet) is deferred: 503, retry.
RefundEvent(o, seen) ==
  \/ /\ status[o] \in {"pending", "canceled"}
     /\ RecordOutcome(<<o, "refund">>, seen, "pending")
     /\ UNCHANGED <<rowVars, benefitVars>>
  \/ /\ MarkOrderRefunded(o)
     /\ RecordOutcome(<<o, "refund">>, seen, "succeeded")

WebhookProcess(o, t, seen) ==
  /\ <<<<o, t>>, seen>> \in inflight
  /\ DeliveryEnds(<<o, t>>, seen)
  /\ \/ UnknownOrder(o, t, seen)
     \/ t = "succeeded" /\ SucceededEvent(o, seen)
     \/ t = "canceled" /\ CanceledEvent(o, seen)
     \/ t = "refund" /\ RefundEvent(o, seen)
  /\ UNCHANGED <<providerVars, createVars, flagVars, banVars, checkCopy>>

\* An exception or a crash before the commit: rolled back, 500 or no answer.
WebhookFails(o, t, seen) ==
  /\ <<<<o, t>>, seen>> \in inflight
  /\ inflight' = inflight \ {<<<<o, t>>, seen>>}
  /\ UNCHANGED <<rowVars, providerVars, createVars, inbox, flagVars, banVars,
                 checkCopy, benefitVars>>

-----------------------------------------------------------------------------
(* Cancellation by the user, by the reconciliation worker, by age          *)

CancelOrder(o, reason) ==
  /\ status' = [status EXCEPT ![o] = "canceled"]
  /\ meta' = [meta EXCEPT ![o] = CanceledMeta(@, reason)]
  /\ UNCHANGED <<ext, url, age>>

\* handle_order_cancel, under the row lock.
OrderCancel(o) ==
  /\ status[o] = "pending" /\ ~banned[Owner[o]]
  /\ CancelOrder(o, "user_canceled")
  /\ UNCHANGED <<providerVars, createVars, hookVars, flagVars, banVars,
                 checkCopy, benefitVars>>

\* _reconcile_stale_pending_orders: the gateway is asked outside any
\* transaction; its final answers never change and the status is checked
\* again under the row lock, so that question and answer are one step.
Reconcile(o) ==
  /\ status[o] = "pending" /\ ext[o] /\ age[o] \in 1..3
  /\ \/ pay[o] = "succeeded" /\ MarkOrderPaid(o, full[o])
     \/ /\ pay[o] = "canceled"
        /\ \E r \in GatewayReasons : CancelOrder(o, r)
        /\ UNCHANGED benefitVars
  /\ UNCHANGED <<providerVars, createVars, hookVars, flagVars, banVars,
                 checkCopy>>

\* Variant: an expired order gets the default reason "gateway_canceled".
ExpireAsGateway(o) ==
  /\ status[o] = "pending"
  /\ age[o] = 4 \/ (~ext[o] /\ age[o] = 3)
  /\ CancelOrder(o, "gateway_canceled")
  /\ UNCHANGED <<providerVars, createVars, hookVars, flagVars, banVars,
                 checkCopy, benefitVars>>

\* Orders without a link expire after 30 minutes, all others after 24 hours.
Expire(o) ==
  /\ status[o] = "pending"
  /\ age[o] = 4 \/ (~ext[o] /\ age[o] = 3)
  /\ CancelOrder(o, IF ext[o] THEN "order_expired_24h"
                    ELSE "ambiguous_creation_timeout")
  /\ UNCHANGED <<providerVars, createVars, hookVars, flagVars, banVars,
                 checkCopy, benefitVars>>

Tick(o) ==
  /\ status[o] = "pending" /\ age[o] < 4
  /\ age' = [age EXCEPT ![o] = @ + 1]
  /\ UNCHANGED <<status, meta, ext, url, providerVars, createVars, hookVars,
                 flagVars, banVars, checkCopy, benefitVars>>

-----------------------------------------------------------------------------
(* The "check payment" button: handle_order_check                          *)

\* session.get without a lock: the copy is used after the next awaits.
CheckRead(o) ==
  /\ status[o] \in {"pending", "canceled", "paid"} /\ ~banned[Owner[o]]
  /\ checkCopy[o] = NoCopy
  /\ checkCopy' = [checkCopy EXCEPT ![o] = CopyOf(o)]
  /\ UNCHANGED <<rowVars, providerVars, createVars, hookVars, flagVars,
                 banVars, benefitVars>>

CheckEnds(o) ==
  /\ checkCopy' = [checkCopy EXCEPT ![o] = NoCopy]
  /\ UNCHANGED <<providerVars, createVars, hookVars, flagVars, banVars>>

\* A paid, held copy: mark_order_paid reloads the row under its lock.
CheckReleaseHeld(o) ==
  /\ checkCopy[o].status = "paid" /\ checkCopy[o].meta.held
  /\ MarkOrderPaid(o, TRUE)
  /\ CheckEnds(o)

\* A paid copy: mark_notified writes the copy's whole metadata back, unless
\* the notification flag was already clear in the copy.
CheckNotify(o) ==
  /\ checkCopy[o].status = "paid" /\ ~checkCopy[o].meta.held
  /\ \/ meta' = [meta EXCEPT ![o] = checkCopy[o].meta]
     \/ UNCHANGED meta
  /\ UNCHANGED <<status, ext, url, age, benefitVars>>
  /\ CheckEnds(o)

\* mark_order_canceled applied to the copy and flushed.
WriteCanceledCopy(o, reason) ==
  LET c == checkCopy[o] IN
  /\ IF c.status = "pending"
     THEN /\ status' = [status EXCEPT ![o] = "canceled"]
          /\ meta' = [meta EXCEPT ![o] = CanceledMeta(c.meta, reason)]
     ELSE UNCHANGED <<status, meta>>
  /\ UNCHANGED <<ext, url, age, benefitVars>>

\* A copy that is not paid: ask the gateway if it has a payment id.
CheckGateway(o) ==
  /\ checkCopy[o].status \in {"pending", "canceled"}
  /\ \/ /\ checkCopy[o].ext /\ pay[o] = "succeeded"
        /\ MarkOrderPaid(o, full[o])
     \/ /\ checkCopy[o].ext /\ pay[o] = "canceled"
        /\ \E r \in GatewayReasons : WriteCanceledCopy(o, r)
     \/ /\ checkCopy[o].ext => pay[o] \in {"none", "pending"}
        /\ UNCHANGED <<rowVars, benefitVars>>
  /\ CheckEnds(o)

\* The gateway does not answer, the delivery of the card fails, a crash.
CheckFails(o) ==
  /\ checkCopy[o] # NoCopy
  /\ UNCHANGED <<rowVars, benefitVars>>
  /\ CheckEnds(o)

-----------------------------------------------------------------------------
(* Bans, and the flags that are set outside this code base                 *)

\* _ban_user: advisory lock, user row lock, then the pending orders are
\* loaded without a lock of their own.
BanBegin(u) ==
  /\ ~banned[u] /\ flips < MaxFlips
  /\ AdvisoryLockFree(u) /\ UserRowFree(u)
  /\ banning' = [banning EXCEPT ![u] = TRUE]
  /\ banCopy' = [o \in OrderIds |->
       IF Owner[o] = u /\ status[o] = "pending" THEN CopyOf(o) ELSE banCopy[o]]
  /\ flips' = flips + 1
  /\ UNCHANGED <<rowVars, providerVars, createVars, hookVars, banned, hold,
                 block, checkCopy, benefitVars>>

BanEnds(u) ==
  /\ banning' = [banning EXCEPT ![u] = FALSE]
  /\ banCopy' = [o \in OrderIds |->
                   IF Owner[o] = u THEN NoCopy ELSE banCopy[o]]
  /\ UNCHANGED <<ext, url, age, providerVars, createVars, hookVars, hold,
                 block, flips, checkCopy, benefitVars>>

\* The orders that the ban transaction of u has loaded and changed.
BanLoaded(u) == {o \in OrderIds : Owner[o] = u /\ banCopy[o].status = "pending"}

\* The flush writes status and metadata of every copy, then commits.
BanCommit(u) ==
  /\ banning[u]
  /\ status' = [o \in OrderIds |->
       IF o \in BanLoaded(u) THEN "canceled" ELSE status[o]]
  /\ meta' = [o \in OrderIds |->
       IF o \in BanLoaded(u)
       THEN CanceledMeta(banCopy[o].meta, "user_banned") ELSE meta[o]]
  /\ banned' = [banned EXCEPT ![u] = TRUE]
  /\ BanEnds(u)

\* A crash, or the victim of a deadlock with a settlement: the ban takes the
\* user before the orders, mark_order_paid the order before the user.
BanAbort(u) ==
  /\ banning[u]
  /\ UNCHANGED <<status, meta, banned>>
  /\ BanEnds(u)

Unban(u) ==
  /\ banned[u] /\ AdvisoryLockFree(u) /\ UserRowFree(u)
  /\ banned' = [banned EXCEPT ![u] = FALSE]
  /\ UNCHANGED <<rowVars, providerVars, createVars, hookVars, hold, block,
                 flips, banVars, checkCopy, benefitVars>>

\* No code of the repository sets these columns (external).
FlagFlip(u) ==
  /\ flips < MaxFlips /\ UserRowFree(u)
  /\ flips' = flips + 1
  /\ \/ hold' = [hold EXCEPT ![u] = ~@] /\ UNCHANGED block
     \/ block' = [block EXCEPT ![u] = ~@] /\ UNCHANGED hold
  /\ UNCHANGED <<rowVars, providerVars, createVars, hookVars, banned, banVars,
                 checkCopy, benefitVars>>

-----------------------------------------------------------------------------
OrderStep(o) ==
  \/ RequestOrder(o) \/ LockCheckout(o) \/ GatewayIssues(o)
  \/ CommitIssued(o) \/ CommitAmbiguous(o) \/ AbortCheckout(o)
  \/ PaymentSucceeds(o) \/ PaymentCanceled(o) \/ RefundMade(o)
  \/ OrderCancel(o) \/ Reconcile(o) \/ Expire(o) \/ Tick(o)
  \/ CheckRead(o) \/ CheckReleaseHeld(o) \/ CheckNotify(o)
  \/ CheckGateway(o) \/ CheckFails(o)

HookStep(o, t) ==
  \/ WebhookReceive(o, t)
  \/ \E seen \in Seen : WebhookProcess(o, t, seen) \/ WebhookFails(o, t, seen)

UserStep(u) ==
  \/ BanBegin(u) \/ BanCommit(u) \/ BanAbort(u) \/ Unban(u) \/ FlagFlip(u)

Next ==
  \/ \E o \in OrderIds : OrderStep(o)
  \/ \E o \in OrderIds, t \in EventTypes : HookStep(o, t)
  \/ \E u \in Users : UserStep(u)

Spec == Init /\ [][Next]_vars

\* YooKassa repeats an event until it is answered 200, so a delivery whose
\* transaction can commit again and again is not rolled back every time;
\* transactions do not stay open.
Fairness ==
  /\ \A o \in OrderIds, t \in EventTypes : WF_vars(WebhookReceive(o, t))
  /\ \A o \in OrderIds, t \in EventTypes :
       SF_vars(\E seen \in Seen : WebhookProcess(o, t, seen))
  /\ \A u \in Users : WF_vars(BanCommit(u) \/ BanAbort(u))

FairSpec == Spec /\ Fairness

-----------------------------------------------------------------------------
(* Safety                                                                  *)

\* The customer has what the order pays for exactly while the order is paid
\* and not held: one credit of the wallet for a top-up, one extension of
\* access that was not taken back for a tariff. Settlement may be attempted
\* by the webhook (several times), by order_check and by the worker; a held
\* order is released later; stale copies of the row are written back.
BenefitIffSettled ==
  \A o \in OrderIds :
    /\ <<o, "payment_credit">> \in ledger
         <=> Service[o] = "topup" /\ Settled(o)
    /\ Service[o] = "standard" =>
         grants[o] = revokes[o] + (IF Settled(o) THEN 1 ELSE 0)
    /\ grants[o] <= 1

\* No order becomes paid, or refunded, without a succeeded payment of at
\* least its amount: order_check releases a held order without an amount, and
\* ban, worker and button cancel orders that are being paid.
PaidNeedsMoney ==
  \A o \in OrderIds :
    status[o] \in {"paid", "refunded"} => pay[o] = "succeeded" /\ full[o]

\* An event that is answered 200 was acted on: the provider sends it no more,
\* so a full payment must be settled, a canceled payment must not leave its
\* order pending, and a full refund of a settled order must have closed it.
AcknowledgedIsDone ==
  \A o \in OrderIds :
    /\ inbox[<<o, "succeeded">>] = "succeeded" /\ full[o] =>
         status[o] \in {"paid", "refunded"}
    /\ inbox[<<o, "canceled">>] = "succeeded" => status[o] = "canceled"
    /\ inbox[<<o, "refund">>] = "succeeded" /\ refund[o] = "full" =>
         status[o] = "refunded"

\* The referrer keeps the bonus of an order exactly as long as the order is
\* not refunded.
BonusReversedWithRefund ==
  \A o \in OrderIds :
    /\ <<o, "referral_bonus">> \in ledger =>
         status[o] = "refunded" \/ Settled(o)
    /\ <<o, "referral_reversal">> \in ledger <=>
         status[o] = "refunded" /\ <<o, "referral_bonus">> \in ledger

\* A double click never gives the user two open invoices for one purchase:
\* create_order holds the advisory lock from the search to the commit.
NoDoubleInvoice ==
  \A o, p \in OrderIds :
    o # p /\ status[o] = "pending" /\ url[o] /\ age[o] < 2 =>
      ~IsOpenInvoice(p, o)

\* No credit and no access is given to a user who is banned, on hold or
\* blocked, nor while a ban of that user is being committed ("payment after a
\* ban must not grant access automatically", BanService). Held orders of the
\* user are not released either.
NoGrantWhileBlocked ==
  [][\A o \in OrderIds :
       ledger' \cap ({o} \X {"payment_credit", "referral_bonus"})
           # ledger \cap ({o} \X {"payment_credit", "referral_bonus"})
         \/ grants'[o] > grants[o]
       => ~SettlementBlocked(o) /\ ~banning[Owner[o]]]_vars

\* A paid order can only be refunded and a refunded order is final, whatever
\* copies of it are still in memory.
PaidIsFinal ==
  [][\A o \in OrderIds :
       /\ status[o] = "paid" => status'[o] \in {"paid", "refunded"}
       /\ status[o] = "refunded" => status'[o] = "refunded"]_vars

-----------------------------------------------------------------------------
(* Liveness, under FairSpec                                                *)

\* The deliveries of an event stop for good after the second one that finds
\* no order: the inbox row is DEAD.
GivenUp(o) == inbox[<<o, "succeeded">>] = "dead"

\* A full payment of an existing order settles it in the end, whatever
\* canceled or banned in between.
PaymentIsSettled ==
  \A o \in OrderIds :
    pay[o] = "succeeded" /\ full[o] /\ status[o] # "absent"
      ~> status[o] \in {"paid", "refunded"} \/ GivenUp(o)

\* The full refund of a tariff payment ends in a refunded order, also when
\* the refund event arrives before the payment's own event.
RefundIsHonoured ==
  \A o \in OrderIds :
    Service[o] = "standard" /\ refund[o] = "full" /\ full[o]
        /\ status[o] # "absent"
      ~> status[o] = "refunded" \/ GivenUp(o)

\* The same for a top-up: BILLING_ARCHITECTURE_MANIFESTO, Rule 2, says that
\* the refund webhook marks the order refunded and takes the money back.
TopupRefundIsHonoured ==
  \A o \in OrderIds :
    Service[o] = "topup" /\ refund[o] = "full" /\ full[o]
        /\ status[o] # "absent"
      ~> status[o] = "refunded" \/ GivenUp(o)

\* create_order's comment on an ambiguous answer: an event that finds no
\* order is retried by YooKassa for 24 hours.
UnknownOrderRetried ==
  \A o \in OrderIds, t \in EventTypes : inbox[<<o, t>>] # "dead"

=============================================================================
