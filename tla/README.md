# just1kbot: TLA+ models, checks and proofs

just1kbot is a Telegram bot that sells VPN access. It takes money through
YooKassa, keeps a wallet per user, extends subscriptions, provisions VLESS and
"White Internet" nodes, and runs background workers beside its handlers. All of
its state is in PostgreSQL; every handler, webhook and worker iteration is one
asynchronous database transaction (`session_scope`, src/database/connection.py),
so the hard part of the program is how those transactions interleave, and what
is used after an `await` that was read before it.

This directory holds the specifications of that behaviour, the TLC models that
check them, and the TLAPS proofs about them. Two workers keep state in memory
(the node monitor and the supervisor), and three external machines take part:
the payment provider, the Xray nodes and Telegram.

- `PROJECT.json` lists components, runs, the source lines of every definition,
  the hazards and the theorems in machine-readable form.
- `tlc -config <cfg> <module>` runs a model, `tlapm <module>.tla` checks proofs.

## 1. Inventory

| Component | State | Operations | Hard behaviour | Correct when |
|---|---|---|---|---|
| Orders (`order_service.py`) | `orders` row: status, metadata, external id, link | create, settle, release, cancel, refund | four callers settle the same order; late, early and repeated events; orders canceled while they are being paid | benefits are given once, to users who may have them, for full payments only; a payment is never lost |
| Webhook (`webhook.py`) | `webhook_inbox` row per event | receive, process, answer | at-least-once, reordered, concurrent delivery; failure after any step | an event answered 200 was acted on |
| Gateway (`yookassa_service.py`, `integrations/`) | none | create payment, check status, parse | time-outs with unknown outcome | an ambiguous creation can still be settled |
| Payment screens (`bot/handlers/payment`) | none | request a checkout, "check payment", "cancel" | reads without locks before long awaits | stale copies never undo a settlement |
| Ban service (`ban_service.py`) | `users.is_banned` | ban, unban | locks user then orders, settlement the other way round; unlocked copies | no grant to a banned user |
| Stale-order worker (`cleanup.py`) | backoff cache | settle, cancel, expire | gateway asked outside any transaction | settles what the webhook missed and cancels nothing that is paid |
| Ledger (`account_ledger_repo.py`) | `account_ledger_entries`, allocations | credit, debit, refund debit, FIFO attribution | idempotency keys, buckets, debt | balances add up, no double entry, refunds capped |
| Referral bonus (`referral_bonus.py`, `process_onboarding`) | `users.referred_by`, ledger entries of the referrer | bind, grant, reverse | links followed while payments arrive, rates counted while others pay | bonus follows its order, a referrer is settled before the first payment, no circles |
| Fulfilment (`fulfillment_service.py`, `subscription.py`) | `users.subscription_end`, tariff, access state | extend, change tariff, revoke | refunds long after other extensions | access equals what was paid |
| Credit notifications (`order_notifications.py`, `credit_notifications.py`) | debt flags in order metadata | mark, deliver, finalize | three deliverers; crash between delivery and flag | every debt is delivered or dropped, rarely twice |
| VLESS (`vless_subscription_service.py`, `cleanup.py`, `traffic.py`) | subscription row, version, pending revocations, traffic snapshots | provision, deprovision, rotate, count | background tasks after commit, retries, stale versions | a revoked key is removed from every node |
| White Internet (`white_internet_service.py`, workers) | subscription status, generations, quotas | purchase, renew, top up, suspend, reconcile | node calls without locks, generation checks | the node converges to the database |
| Node monitor (`node_monitor.py`) | per-server counters in memory | probe, alert, recover | flapping, restart, maintenance | one alert per outage |
| Worker supervision (`workers/__init__.py`, `heartbeat.py`) | health per worker | spawn, restart, give up, stop | crashes, hangs, shutdown | heartbeat only while the critical workers live |
| Reminders (`notifications.py`) | flags and retry counters of the user | send, retry | one failing of many | at most one reminder of a kind per period |
| Middlewares (`action_lock.py`, `throttling.py`) | locks and caches in memory | acquire, release, expire | double clicks, cancellation | one action per user at a time |
| Mass operations (`mass_extend.py`, `mass_bonus.py`, `broadcast.py`) | forms in Redis, batch state, progress rows | preview, confirm, resume | repeated clicks, crash in the middle of a batch | nobody gets it twice, nobody is forgotten |
| Cards of one user (`bot/handlers/admin/users`) | messages with buttons, operation keys, action lock | extend, grant, change, reduce, reset, credit | old cards, taps before the commit of the last one | a card takes effect once |
| Servers (`servers_repo.py`, `bot/handlers/admin/servers`) | `servers` row, allocations | add, edit, drain, migrate, delete, purge | network probes between read and write, two-step deletion | nobody is left on a server that is gone |
| Feed settings (`incy_routes.py`, `edit_routes.py`) | `extra_data` of the server | edit, hide, reset, renew relays | whole-value writes after network calls | what is hidden is not served |
| Settings cache (`system_settings_repo.py`) | row and process-wide cache | get, set, reset | cache dropped before the commit | stale for the time to live at most |

How they interact: buttons and webhooks call the order service, which calls the
ledger, the referral bonus and fulfilment inside one transaction; the ban and
the stale-order worker write the same order rows from transactions of their
own; notification flags ride in the order's metadata, which each writer stores
as a whole. Three locks order these transactions: the row lock of the order,
the row lock of the user, and the advisory lock per user that checkouts and
bans share.

`PROJECT.json` lists every component with what is modelled of it, and every
hazard at its line.

## 2. Modules

### Orders

State: the rows of `orders` (status, the metadata keys that guards read,
whether there is an external id and a link, age), the provider's payment and
refund per order, checkouts in progress (`want`: past the handler's checks;
`creating`: holding the advisory lock; `issued`: the gateway has answered but
nothing is committed), the inbox and the deliveries that have read it, the
user's flags, bans in progress with their copies of orders, order_check's copy,
and what has been given: ledger entries, extensions and revocations of access.

Actions and code:

| Action | Code |
|---|---|
| RequestOrder, LockCheckout, GatewayIssues, CommitIssued, CommitAmbiguous, AbortCheckout | `create_order` and its callers, cut where it waits for the lock, for the gateway and for the commit |
| WebhookReceive, WebhookProcess, WebhookFails | `yookassa_webhook_handler` around `process_webhook_event`; the inbox row is read before the order is locked, so two deliveries of one event may both be under way |
| MarkOrderPaid (PaidIgnored, PaidReleased, PaidTooLittle, PaidFresh) | the branches of `mark_order_paid`, with `_settle_benefits` |
| MarkOrderRefunded (RefundIgnored, RefundMismatch, RefundTopup, RefundStandard) | the refund branches; the branch of a credited top-up raises an exception and therefore is `WebhookFails` |
| OrderCancel, Reconcile, Expire, Tick | `handle_order_cancel`, `_reconcile_stale_pending_orders`, time |
| CheckRead, CheckReleaseHeld, CheckNotify, CheckGateway, CheckFails | `handle_order_check`, cut where its unlocked copy is used later |
| BanBegin, BanCommit, BanAbort, Unban | `_ban_user`, cut between the unlocked read of the orders and the flush, and `_unban_user` |
| PaymentSucceeds, PaymentCanceled, RefundMade, FlagFlip | outside the repository: the customer, the provider, the owner, the administrator of the database |

A row lock that is held for one action only needs no variable. Locks that last
over several actions do: `creating` and `banning` are the advisory lock,
`banning` also the user's row lock (`UserRowFree`). The ban flushes its orders
while it holds the user row, and `mark_order_paid` takes the order first and
the user second; the database aborts one of the two, which is `BanAbort` or
`WebhookFails`.

Abstractions: amounts are reduced to "covers the order" and "equals the
order"; ages to the five intervals between 3 minutes, 15 minutes, 30 minutes
and 24 hours; the advisory lock's queue to nondeterministic choice. A payment
belongs to one order, so the id mismatch branches of `process_webhook_event`
cannot happen. A payment is refunded at most once.

### MCSales, MCOrders

Instances for TLC: MCSales for the safety properties, MCOrders for liveness and
for the findings. Orders of different users share no state, and orders of one
user meet only at the advisory lock and in the ban, so one order with
everything that can happen to it is the interesting instance for all
properties but `NoDoubleInvoice`, which has two orders; the proofs cover any
number.

### OrdersProofs

The theorems, see section 5.

### AccountLedger

One user's wallet with amounts. Entries carry their place in the ledger
(`posted`), which is the order of `(created_at, id)`; `alloc` is the table of
allocations; `reversed` holds the bonuses whose reversal entry exists; `legacy`
the rows that a wallet may have from before the order model; `asked` the
administrator's deductions between preview and confirmation.

| Action | Code |
|---|---|
| CreditTopUp | `create_order_credit` |
| CreditGift | `create_admin_adjustment` with a positive amount (form, preset, mass bonus) |
| GrantBonus, ReverseBonus | the entry written by `grant_referral_bonus_for_topup`, `reverse_referral_bonus_for_topup` |
| PayFromWallet | `pay_from_wallet` with `create_order_debit` and `_allocate_fifo` |
| CheckoutPaid, CheckoutCanceled | `_checkout_wallet_order` of White Internet |
| AskDeduction, ApplyDeduction, RefuseDeduction | `process_balance_deduct`, `apply_user_balance_change` |

The loop of `_allocate_fifo` is stated by what it takes from each lot
(`Chunk`): what the lots before it leave over, at most what the lot has. Its
last check is `Covered`, and the database's trigger is `LotsAccept`.

An action is one transaction because every writer of a wallet either reads the
ledger after it has locked the user's row, or inserts a row with a foreign key
to that row, which waits for the lock. Each order and each form is written once
(Orders proves it for settlements), so idempotency keys are never met twice.
The terms and the fulfilment that `pay_from_wallet` also calls are in
PaidAccess; the conditions and the rate of a bonus are in Referrals: here any
bonus may be granted. A refused operation (hold, ban, debt) that leaves no row is a step
that does not happen.

### Referrals

Who invited whom, and at which rate the inviter is paid.

| Action | Code |
|---|---|
| Arrive | `UserContextMiddleware`: the user is read, or registered under the unique key |
| NothingToBind, LockOwnRow, CheckReferral, CommitReferral, VisitFails | `cmd_start` with `process_onboarding`, cut at the row lock, at the check and at the commit; the push to the referrer follows the commit |
| LockPayer, Hold, CountReferrals, CommitSettlement, SettlementFails | `mark_order_paid` with `grant_referral_bonus_for_topup`, cut at both row locks |
| Refund | the refund branches, one transaction |

Row locks that last over several actions are in `lock`. What `process_onboarding`
knows of the user's referrer is `copy`: the session read it before the lock. The
rate is the count that selects the tier; the tiers, amounts and the ledger are
elsewhere. A row that is committed while another message of the same new user
waits is found by that one (`Arrive` again). Nothing in the repository deletes a
user, throttling of a second /start and the user cache are left out, and
referrers that are banned are in Orders.

### PaidAccess

What the days of standard access are worth. `OrderTerms` is `_resolve_order_terms`
with `calculate_tariff_change`; `Fulfill` and `EndRefunded` are the standard
branches of `fulfill_order` and `revoke_order`; `CreateOrder`, `Settle`, `Refund`
and `PayFromWallet` are the moments at which the code uses them. One user, who
was invited; prices do not change; the price of a day times `Scale` is a whole
number, so that values compare exactly. `rounded` adds up what changes of tariff
have rounded in the user's favour (a started day counts as a whole one), and
`misfit` says that terms were applied, or taken back, that were no longer those
of the moment; both are history for the properties.

### WhiteInternet

One White Internet subscription row (one client uuid) and the origin nodes. A
transaction that holds the row lock is one step; each network call, and each
write made after one from a copy read before, is a step of its own.

| Action | Code |
|---|---|
| ProcessBuy, ProcessRenew, TrialActivate, TopupExecute, AddDeviceConfirm | the buttons: `purchase_subscription`, `convert_trial_to_paid`, `renew_subscription`, `create_trial_subscription`, `topup_quota`, `purchase_device_slot` with the inline sync that follows some of them |
| AdminExtend, AdminResetTrial, DeactivateUserSubscriptions | the administrator's operations and the ban |
| InlineCall, InlineRecord | `_sync_subscription_inline`, cut at the call |
| DispatchRuns | the fire-and-forget deprovision of an old node |
| ReadBatch, PlanTask, CallNode, RecordResult, FinalizeHardDelete, SweepOrphan, SweepUnallocated, RefreshEpoch | `run_reconciliation_cycle`: batch read, one task per due row, call, record; hard deletes; the orphan-cleanup outbox |
| LostAnswers, NodeRestarts, HealthChanges, ServerDeleted, TimePasses, Crash | the environment |

The node keeps the highest version it was told per client and answers
"already newer" to older calls; a restart empties it and gives it a new epoch.
`overtaken` is history for `SettledIsTrue`: an inline sync has lifted a ban with an
old copy (finding 4), or a top-up has moved the subscription back to a node to which
a call was still under way (section 4). Everything else the property covers, at
every moment and not only when nothing is under way.
The White Internet branches of `fulfill_order` and `revoke_order` are reached by
no handler: White Internet is paid from the wallet, and gateway orders are
created as "topup" (src/bot/handlers/payment/balance_routes.py:273) or "standard"
(src/bot/handlers/payment/purchase_routes.py:236) only.

### WhiteQuota, TwoPots

WhiteQuota is the meter of one subscription: usage, base and extra quota, the
overage, the baseline of the counter, the device limit with its cap, and every
operation on them (`TopUp`, `AddDeviceSlot`, `RenewSubscription`,
`ConvertTrialToPaid`, `Admin*`, `Expire`, `Activate`, `Deactivated`). The worker
is three steps: `Poll`, `ApplySnapshot` under the row lock, `SendWarning`.

TwoPots is what a buyer is promised: the tariff's bytes and the bought bytes
are two pots, traffic empties the first before the second, a new period fills
the first and keeps the second. WhiteQuota implements it under a refinement
mapping that computes both pots from quota, usage and overage
(`KeepsThePots`). The corrections of administrators (`Corrects`: base quota,
reset usage, device limit) overrule what was promised; the pots go on from what
they leave, and every other step must be one of TwoPots.

### VlessSync

The VLESS row of one user with its uuid, version and list of revocations, and
the nodes. Sessions that change a copy read without the lock are two steps and
write only the columns that differ from the copy, as SQLAlchemy flushes them
(`Flushed`). `TaskStep` are the post-commit tasks `sync` and `revoke`, `CallNode`
by node, with `RetrySync` after a version conflict; `SweepRevocations`,
`SweepOutOfSync`, `SyncAllActive`, `EpochSeen`, `NetworkGrace*` and
`RetentionGrace` are `cleanup.py` and `traffic.py`. Nodes answer already_newer
only below the version they hold. Two tasks write the version that counts as
synchronised: a sync that has reached every node, and a revocation queued at a commit
that finds the row switched off when it is recorded (`SyncedByRevoke`). The administrator's
two buttons differ: `AdminVlessRotate` always replaces the uuid, `AdminVlessHwidReset` only
when devices are registered, and writes `is_active` in either case. `stale` is history: a session has flushed a copy
that the row had left behind, so an update was lost (section 4, bans).

### DeviceSlots

The device places of both feeds. `Fresh` says whether the locked row is read
again (`vless_subscription_repo.py`, `populate_existing`) or is the object that
the session had already loaded (`white_internet_repo.py`). A request is two
steps: it finds the row by its token (`Opens`), and it locks and writes it
(`FeedServes`, `FeedRefuses`, `ResetHwids`, `ResetToken`, `SetDeviceLimit`). A device
stamped less than `Throttle` ago (15 minutes in the code, against 48 hours of `TTL`) is
served without a new stamp when no other place is given up (`Throttled`); data of the app that
differ from the registered ones stamp it in any case, which is left open (`Registries`).
`since` and `seats` are history: who was served since the last reset, and when.

### VlessTraffic

Counters per node, epoch and uuid; a pass asks all nodes, then records node by
node, then looks at the quota alerts. One user; the traffic of the host and the
split into up and down are left out. Bytes that a node counts and loses by a
restart between two polls are counted by nobody, in the code and here.

### NodeHealth, IngressAlerts

The node monitor for one server. `BeginProbe`, `Evaluate`, `Save` (compare and
swap on the row), `Tell`, `Record`; beside it an administrator's switch
(`ToggleWrites`, `ToggleCommits`), lost messages, failing saves and crashes.
Counters saturate at `Cap`; waiting for the next check is a stutter; there is
one monitor process. IngressAlerts has the alerts of the public address and of
the relays, which set their flag after and before the delivery (`Relay`). The
CDN is evaluated like the address; its own counters, and the disk alerts, are
not modelled. `cut` is history: a crash came between a message and its record, or
a relay's reminder was not delivered, which clears the flag of the outage
(section 4); the next record ends it.

### ServerRegistry, FeedSettings, SettingsCache

ServerRegistry: rows of servers and the subscriptions allocated to them. The
edits of address and key are cut at the network probe (`EditUrlReads`,
`EditUrlWrites`), a deletion is two transactions (`DeleteBegins`, `DeleteEnds`),
`Migrate` asks before it locks. FeedSettings: the settings of `extra_data` that
feeds show, with the writers that rest on copies (`RelaysStores`, `UrlWrites`);
`dropped` is history: the second has overwritten settings by those it had read.
SettingsCache: one row of `system_settings`, writers that drop the cache at the
flush, readers that fill it after their read.

### MassGrants, Broadcast

MassGrants: the conversations of mass extension and mass bonus (kept in Redis,
so they survive a crash), their guards and locks in memory, and the background
runs in chunks. A deleted server is one without capabilities, "back" buttons
are stutters, and reports and throttling are left out. Broadcast: the progress
row, batches in the order of ids, a checkpoint after each message; `Resume`
happens before the bot takes updates again.

### AdminAccess

The cards on which administrators change one user. A tap may be handled when
the card already shows something else; the action lock is given back when the
handler returns, before the session commits. Each handler is `Tap`, `Reads` and
one action that applies its change, then `Commits` or `Rollback`. One user, who
is not deleted and not on financial hold; the pending state of White Internet is
folded into active; the cooldown of a trial, messages and audits are left out.
`Renewal` is a payment of the user: the same rule on a row that was just read.
A card of a preset without a token refuses a second credit even when it is
meant.

### CreditNotify, Reminders

CreditNotify: the two debts of one order and the three deliverers. The worker
reads, claims, sends without a session and settles under the lock; the webhook
and the button work on a copy and write the metadata back whole. When the
owner's debt is anomalous `_deliver_one` returns before the referrer's, as in the
code. The batch limit of 20 is abstracted. Reminders: time is counted in the
windows of the reminders, `Worker` is one pass cut at each message; the limit of
500 users per pass is abstracted.

### Supervisor

`_supervise_workers`: a round looks at every worker (`RoundBegins`,
`Supervises`); workers die, run stable for the reset interval, or end their
backoff or cooldown (`Dies`, `Elapses`). The heartbeat file and the alert keys of
cooldowns are not modelled. After a cooldown the count stays above the budget, so
the next death leads to the next cooldown.

### Billing, VlessSubscription, Administration, BackgroundWorkers

Four modules compose components that live side by side in the system. Each
extends one (SettingsCache, DeviceSlots, AdminAccess, Supervisor), has the variables
of all, and names the others as instances (`Access` is PaidAccess; `Sync` and `Traffic`;
`Feed`, `Mass` and `News`; `Credit` and `Alerts`). They state what is promised of the
instances (`DaysArePaid`, `CredentialsKept`, `TrafficExact`, `HiddenIsNotServed`,
`GrantsAsTalked`, `CompletedReachedAll`, `NewsIsKept`) in terms of that one state, so that a run and a
theorem about it speak of the same definition. No component writes what another
reads, but for the events named in the modules.

### The modules of theorems

OrdersProofs, ReferralsProofs, WhiteQuotaProofs and WhiteInternetProofs each extend
the module of their name; BillingProofs, VlessProofs, AdminProofs and WorkersProofs
extend the four compositions. See section 5.

### MCBilling, MCVless, MCConverge, MCWorkers, MCAdmin

Each runs several components. A variable `scene`, fixed in the initial state, says
which of them runs. TLC so explores the union of the components: as they share
no state in the way they are modelled, their product would show nothing more.
The module extends a component or a composition, whose own row rests in an
initial state in the scenes of the others, and instantiates what a scene runs;
variables of what does not run are `Idle`:

| Module | Extends | Instantiates |
|---|---|---|
| MCBilling | Billing | AccountLedger, Referrals (3) |
| MCVless | VlessSubscription | DeviceSlots (2, one with `Fresh` false and one request at a time), VlessSync (4), VlessTraffic |
| MCConverge | WhiteQuota | WhiteInternet, VlessSync |
| MCWorkers | BackgroundWorkers | NodeHealth (2), IngressAlerts (4), CreditNotify, Reminders (2) |
| MCAdmin | Administration | AdminAccess (3), ServerRegistry (2), NodeHealth, FeedSettings, MassGrants (2), Broadcast |

Instances of one module differ in `Kinds`, the operations they allow: each scene
has the operations whose interplay its properties are about, and together they
have every action. The extended module is the one that theorems are about: its
assumptions on constants are evaluated in the run, and what a theorem states is
the very definition that the run checks. Assumptions of instances are restated in
the MC modules (`InstancesFit`). MCWhiteInternet and MCAdminAccess extend one
module alone.

Definitions marked "Variant" are not part of the system: each is what
a plausible mistake would make of the definition after it, and shows that the
property named for it can fail.

## 3. Runs

| Run | Question | Instance | Result |
|---|---|---|---|
| MCSales_safety | Are status and benefits always consistent, for paid money only, for users who may have them; are acknowledged events done, bonuses reversed with refunds, and can two clicks make two invoices? | `topup`: 1 order, 2 flag changes; `tariff`: 1 order of a referred user, 1 flag change; `clicks`: 2 orders | holds (1.8 million states) |
| MCBilling_safety | Can every purchase be attributed to lots, bonuses first, without debt; do links and payments at once leave referrers and rates right; are the days that are left always paid for; is a cached setting never uncommitted, and stale for its time to live at most? | `wallet` (2 top-ups, gift, bonus, 3 purchases, deduction, 3 sets of old rows), `links` (3 users, 2 messages, 1 payment), `friends` and `little` (3 users, 1 message, 2 payments), `days` (3 tariffs, 2 orders, 1 wallet purchase), `setting` (2 writers, 2 readers) | holds (0.5 million) |
| MCOrders_settlement | Is a full payment always settled, and a full refund always carried out? | 1 tariff, 1 flag change, fair | holds, unless the event was given up before the order existed |
| MCWhiteInternet_safety | Is a credential ever left on a node that nobody will clean, and does a settled row tell the truth? | 2 nodes, 3 events | holds (1.5 million) |
| MCVless_safety | Is every credential that a node serves the row's or listed for revocation, are bytes counted once, do device limits, resets and places hold when requests race? | `reset`, `life`, `admin`, `ban`: 1 node, 3 events; `traffic`: 2 nodes, 2 events; `slots`: 3 devices, 2 requests; `single`: the same one at a time | holds (2.3 million) |
| MCConverge_live | Do nodes do in the end what the rows say, is the 90 % warning sent, is a replaced uuid off for ever? Is every byte metered once, is every change of service published, are the two pots kept? | `life` 2 events, `quota` 3, `reset` 3, fair | holds (0.2 million) |
| MCWorkers_live | Do dead workers come back, does the bot stop for a reason only, are outages, credits and reminders told? | 10 scenes, 2 to 6 events, fair | holds (0.14 million) |
| MCAdmin_safety | Do cards, servers, feed settings, mass grants and broadcasts keep their promises against old copies, repeated taps and crashes? | 10 scenes, 4 to 7 events; cards: 1 or 2 administrators, 2 handlers at once | holds (1.8 million) |
| MCOrders_topup_refund | Is the full refund of a top-up always carried out? | 1 top-up, fair | VIOLATED, finding 1 |
| MCOrders_dead_event | Is an event without an order retried for 24 hours? | 1 top-up | VIOLATED, finding 2 |
| MCAdminAccess_lost | Does an extension always add its days to the current end? | 2 administrators, 1 renewal | VIOLATED, finding 3 |
| MCWhiteInternet_revived | Does a banned user's White Internet stay off? | 2 nodes, 3 events | VIOLATED, finding 4 |

Several properties of a scene are gathered under one name per run when they
answer one question (`ServersHold`, `QuotaExact`, `WalletExact`, ...); the
parts are named in the modules and each has its comment there. One part is claimed in one scene only:
`EndpointChecked` (of `ServersHold`) where a single administrator has one edit under
way at a time. Two edits at once can store an address with a key that were not tried together,
since each is tried before the row is locked.

Bounds of Orders. `MaxFlips` bounds how often the user's flags change: two
changes are enough to ban or hold a user before the payment and to start another
ban while the held order is released; the proofs have no such bound. Scene
`clicks` stops where payments become final, because the property is about
pending orders. The settlement run looks at the button "check payment" and at
bans one at a time (constraint `ChecksOrBans`); the safety runs have both.

Bounds of AccountLedger. Amounts from 1 to 3 rubles let a purchase meet the
balance exactly, miss it by one, empty a lot, and span two or three lots; the
two top-ups give the order of age something to decide. The old rows are: none,
money left after a refund, and a payment refunded after it was spent, which
starts the wallet in debt and gives a lot a negative capacity.

Bounds of Referrals and PaidAccess. Three users are enough for a circle that does
not close at once, and for two referrals that pay while their referrer is
counted; the initial states are all chains that three users can form, known or
not. Two messages and a payment race in `links`; two payments, of two friends or
of one, race with a message in `friends` and `little`. Tariffs of 3 and 4 rubles
for two days and of 6 for four have equal and different daily prices, odd halves
to round, and days that are worth more and less than a cycle; a day has two
ticks, so that a day can have started.

Bounds of the others. `MaxEvents` bounds operations of people and faults
together, so that after them only the system's own steps are left: three events
are a change, a change that races it and a fault; the scenes in which an outage
must first be confirmed have six. Two origin nodes let a subscription leave a
node and come back. `MaxVersion`, `MaxUuid` and `MaxTasks` of VlessSync let a
replaced uuid be replaced again while tasks for the first are under way (scenes `reset` and
`life`); an administrator replaces it once, and with bans the
version changes twice. New links
are looked at in the scene `single`: for the registry they do what a reset does. A
tariff of ten units with downloads of nine makes 90 % and 100 % different. Three
devices and two places make one lose; five ticks with a place kept for three and no
new stamp for two let a device be served without a stamp, and fall silent and return; two chunks and two runs make mass grants
overlap. The supervisor's budget is two deaths of at most five in all, so that the
fatal limit is passed and a stable run may come between.

Symmetry. Nodes, devices, requests, sessions, servers and users are symmetric
where no constant tells them apart, in runs without liveness only.

Deadlock is not checked because every system here may come to rest: payments
final, events answered, bounds used up.

Fairness.
- Orders: YooKassa repeats a notification until it is answered 200, so
  `WebhookReceive` is weakly fair. Processing is strongly fair: a delivery may be
  rolled back by a crash or by a deadlock with a ban any number of times, but
  not always. A ban transaction ends. None is assumed for users, for the
  worker, for the provider or for the release of held orders.
- MCConverge: the reconciliation loop visits every due row and every entry of
  the outbox, tasks and sessions that have begun go on, the traffic worker
  polls and sends. `SweepRevocations` is strongly fair, since each pass of the
  cleanup looks at the list again although a task may hold the row when it does.
- MCWorkers: each worker's loop goes on, a handler of an administrator that has
  begun ends, caches and backoffs expire. No message is assumed to
  arrive: lost ones are bounded events.

`GivenUp` is the exception in `PaymentIsSettled` and `RefundIsHonoured`: an event
that arrives twice while its checkout is still uncommitted is marked dead. The
safety net for such payments is the stale-order worker, which looks at pending
orders with an external id only.

Where the promise fails, the liveness properties say so: a crash of the monitor
between a message and its record loses the memory of an ingress outage (`cut`
in `AlertsAreTold`; scene `forgetful` has no fairness, only `NewsIsKept`), and an
administrator's extension that writes old reminder flags back loses a reminder
(scene `byHand` checks the order of urgency only).

## 4. Findings

1. The refund of a credited top-up always fails. The branch calls
   `get_account_balance(session, order.user_id)`
   (src/services/order_service.py:800), whose `user_id` is keyword-only; the
   TypeError rolls back the refund debit, the bonus reversal and the status,
   and the webhook answers 500 each time. Rule 2 of
   docs/BILLING_ARCHITECTURE_MANIFESTO.md says that the bot marks the order
   refunded. Run MCOrders_topup_refund.
2. An event that finds no order is given up on the second delivery
   (src/bot/handlers/webhook.py:150-158), while the comment in `create_order`
   (src/services/order_service.py:363-368) says that it is retried for 24 hours.
   Run MCOrders_dead_event.
3. An extension by an administrator can swallow a renewal. The handler loads the
   user, `extend_subscription` then locks the row without reading it again
   (src/services/subscription.py:318-325), so the end it adds to may be old; the
   comment at line 342 says that an extension always adds its days to the
   current end. Run MCAdminAccess_lost.
4. A subscription that a ban has disabled can come back as ACTIVE: the inline
   sync writes the status of a copy made before the network call
   (src/services/white_internet_service.py:1081). The reconciliation worker then
   provisions the banned user. Run MCWhiteInternet_revived.

Disagreements seen while modelling that have no run of their own:

- Spent bonuses that are reversed leave a negative balance made by an
  `admin_adjustment` (src/services/referral_bonus.py:520), which invariant 10 of
  src/scripts/audit_invariants.py:262 does not allow; unspent, the reversal is
  attributed to no lot, so own money is shown as bonus although the comment at
  src/database/repositories/account_ledger_repo.py:258 says that the buckets
  stay exact. The total is right, and the error is to one side only.
- The expiry of White Internet is decided on an unlocked copy
  (src/services/workers/white_internet_reconciliation.py:488), and
  `expire_subscription_atomic` looks at the status only: a renewal that races it
  is expired with its period unused.
- A top-up moves a live subscription away from a node that is down
  (src/services/white_internet_service.py:886) without a new version:
  `topup_quota_atomic` gives one to an EXHAUSTED subscription only
  (src/database/repositories/white_internet_repo.py:438). Every other move has its own version.
  If the subscription moves away and back while the worker's answer from its first stay is
  not recorded yet, the answer confirms the row, although the deprovisioning call has switched
  the client off at the old node under the next version. The customer is not
  served until the version changes or the node restarts. It takes two failures, two
  top-ups and calls between them, more than the bound of the run; the attempt to prove
  `SettledIsTrue` showed it, and the theorem excepts it by name (`overtaken`).
- The flag of the 90 % warning is written after the message
  (src/services/workers/white_internet_traffic.py:454), over a row that was topped
  up meanwhile; a later warning is then not sent. A counter that is reset and
  seen at zero loses the bytes before its next poll (line 240).
- A VLESS sync retried after a version conflict keeps its first decision to serve
  (src/services/vless_subscription_service.py:503), so a customer whose access
  was withdrawn may be served until the next sync. A node that restarts during
  a sweep may serve a uuid whose revocation was just struck off (line 628).
- A ban that copies the VLESS row before a rotation writes its own list of
  revocations over the rotation's (src/services/ban_service.py:186). From then on
  (`stale`) `CredentialsKept` promises no more than that the uuid in use is not
  revoked.
- An administrator's reset of the devices of a customer who has none registered writes
  `is_active` from a user read before (src/bot/handlers/admin/users/device_routes.py:237),
  while `reset_hwids` returns without a new version
  (src/database/repositories/vless_subscription_repo.py:346), so no revocation and no
  sync follows. The nodes go on as before, and since the version has not moved the sweep for
  rows that are behind (src/services/workers/cleanup.py:333) does not see it. A payment
  committed between the reading and the reset is thereby undone in this column until the next
  write. No invariant over version, list and nodes can tell it; `CredentialsKept` speaks of
  versions and credentials only, and the scene `admin` shows that these stay right.
- Over a whole `TTL` more devices than the limit may be served one after the other: a device
  served within 15 minutes of its stamp is not stamped again
  (src/database/repositories/vless_subscription_repo.py:284,
  src/database/repositories/white_internet_repo.py:763), so its place is given up 48
  hours after the stamp and not after its last service. With a limit of one, A
  stamped at 0:00 and served at 0:14, then B two days later at 0:01. `LimitHolds` therefore
  counts the devices served within `TTL` less `Throttle`; over the whole `TTL` TLC finds just
  this course.
- Two devices that fetch the White Internet feed at once are both served under a
  limit of one. The feed loads the row by its token
  (src/bot/handlers/white_internet_web.py:358), and `register_hwid_atomic`
  (src/database/repositories/white_internet_repo.py:708) locks it without
  `populate_existing`, so the session keeps the registry it had read before, although
  its docstring says that it registers atomically under the row lock, and
  src/docs/INCY_MASTER_GUIDE.md:99 warns of this race. DeviceSlots shows it at once
  with `Fresh` false and two sessions (`LimitHolds` fails). The VLESS repository
  reads the row anew, and there the limit holds.
- The edit of a server's address writes `extra_data` as it was before the node was
  asked (src/bot/handlers/admin/servers/edit_routes.py:590): what was hidden
  meanwhile is shown again (`dropped` in `HiddenIsNotServed`).
- A relay's flag is put back after an alert that was not delivered as if it had been
  the alert of the outage or of its end (src/services/workers/node_monitor.py:908-918); after a
  reminder that clears the flag of
  an outage that was told, and a crash between the evaluation and the message of
  the end does the same (`cut` in `OutageIsRemembered`).
- A migration looks at the target's `is_active` only
  (src/database/repositories/servers_repo.py:557), not at its life cycle. Between the
  two transactions of a deletion (src/bot/handlers/admin/servers/delete_routes.py:263)
  a second administrator may switch the server on again and a third may migrate
  subscriptions to it, which the second transaction then lets go: they keep a
  place on no server. `ServersHold` has two administrators, for whom it holds.
- A mass extension can be started twice from one card
  (src/bot/handlers/admin/users/mass_extend.py:834): its guard ends with the run,
  the card does not.
- A setting is dropped from the cache at the flush, before the commit
  (src/database/repositories/system_settings_repo.py:69): the old value may be
  served for one more time to live (`StaleForTTLOnly` shows: no longer).
- `mark_notified` writes a stale copy of the metadata back
  (src/bot/handlers/webhook.py:206-226): the referrer may be told twice. An
  administrator's extension likewise writes old reminder flags back.
- Two links that are followed at once can make a circle of referrals: each chain is
  read without a lock. And since the user's row is locked but not read again
  (src/services/subscription.py:170), the second of two messages of one user
  overwrites the referrer that the first has bound, and both referrers are told.
  Users who invited each other so make their settlements wait for each other's
  rows. `ReferralsHold` shows that this is the only way (`overlapped`).
- A payment that is held counts as an active referral, since its status is "paid".
- Whether an order changes the tariff is decided at the checkout and not again
  when it is paid (src/services/order_service.py:286): what is left of
  one tariff may then run on under another, or be converted twice. The
  welcome discount is likewise given to every order that is open at once,
  although src/database/repositories/users_repo.py:402 says the first only.
- The refund of a change of tariff restores the end it met
  (src/services/fulfillment_service.py:148), also when what it met was refunded.
  `DaysArePaid` shows that nothing is lost or given otherwise (`misfit`). Each
  change counts the started day as a whole one, as src/tests/test_referral_bonus.py
  expects.
- A bonus claim whose task dies with the process is not resumed.

## 5. Proofs

### OrdersProofs

For every set of users and orders, every assignment of owners, services, terms,
referrers and bonuses, and any number of flag changes:

| Theorem | States |
|---|---|
| TypeInvariant | `Spec => []TypeOK` |
| InductiveInvariant | `Spec => []IInv` |
| BenefitSafety | `Spec => []BenefitIffSettled` |
| MoneySafety | `Spec => []PaidNeedsMoney` |
| AcknowledgeSafety | `Spec => []AcknowledgedIsDone` |
| BonusSafety | `Spec => []BonusReversedWithRefund` |
| FinalitySafety | `Spec => PaidIsFinal` |
| InvoiceSafety | `Spec => []NoDoubleInvoice` |
| BlockedSafety | `Spec => NoGrantWhileBlocked` |

Assumptions: only the typing of the constants, named in Orders.

The argument. None of the properties is inductive. `BenefitIffSettled` is broken
by a stale copy that says "paid, not held" of an order that is held, or by a
ban that writes "canceled" over a paid row; so the invariant must say what
stale copies may still claim. `IInv` is `TypeOK` and, for each order, six parts:
`CheckoutInv` (a checkout in progress has no row), `RowInv` (only paid orders
are held, only refunded ones revoked, "gateway_canceled" is the gateway's own
answer), `BenefitInv` (the benefits), `HookInv` (deliveries and inbox rows
belong to events that exist, and answered ones are done), `CheckInv` (what
order_check's copy implies about the row: a paid copy that is not held means
the row is not held now) and `BanInv` (a ban's copies are pending, and while it
holds the user row their orders are not settled).

Every action but a ban touches one order. So the proof has a lemma per group of
actions that shows `OrderInv(o)'` for the order it touches and `SameOrder(p)`
for the others, and the lemma `Frame` carries the invariant over `SameOrder`.
`PaidStep`, `RefundStep` and `CancelStep` treat the branches of the service
once for all their callers; `RowStep` is the interface between them and the
parts about copies and deliveries. Bans are treated order by order.
`InvoiceSafety` adds `InvoiceInv` (under the advisory lock there is one checkout
per user, and no invoice it should have found); `FinalitySafety` and
`BlockedSafety` go through the branches with `RowMoves` and `GrantRule`.

### WorkersProofs

Supervisor, CreditNotify and IngressAlerts. For every set of workers, of which any are
critical, every budget, number of attempts and count of probes:

| Theorem | States |
|---|---|
| SupervisorTypes | `Spec => []TypeOK` |
| FatalHasReason | `Spec => []FatalForAReason` |
| SeriesTold | `Spec => []SeriesIsTold` |
| DebtsKept | `Credit!Spec => [](Credit!TypeOK /\ Credit!NoDebtLost)` |
| OutageRemembered | `Alerts!Spec => [](Alerts!TypeOK /\ Alerts!OutageIsRemembered)` |
| NewsKeptAlways | `Credit!Spec /\ Alerts!Spec => []NewsIsKept` |

Assumptions: `SupervisorAssumption` (the budget and the bound on deaths are
natural numbers, the critical workers are workers), `MaxTries \in Nat`, and
`AlertConstants` (the counts that confirm an outage and its end are natural numbers).

The argument for the supervisor. `series` is history: the deaths of a worker since its
last stable run. The supervisor counts what it has seen, one visit later, and a worker that
has run long enough is forgiven only when it is visited. `CountInv` ties the two:
until a stable run was overlooked, the count plus the death that was not yet seen
is at most the series. `ReasonInv` says why the bot stopped: supervision ends with
`_fatal`, so the culprit's series stays as it was. `ToldInv` says that whoever
rests after a crash has its alert key set in the visit that made it rest. One
step per action of Next preserves each.

For the debts. A debt is struck off some steps after the message, by the worker, or by
the webhook and the button, which write a copy of the metadata back. `DebtInv` adds what
each of them has seen: whoever holds an accepted delivery (`turn.ok`, `req.sent`) holds
one that was counted.

For the outages. What was told last and what the row says differ while the record is
under way, and a relay's record comes before the message. `RecordFollows` says what is
being recorded, and `RowKnows` at which stages of an alert the row may not know yet; with
`cut` the promise ends until the next record. `NewsKeptAlways` takes both specifications
as they are: each has its own variables, so any behaviour that satisfies both, in any
interleaving, keeps both promises.

### ReferralsProofs

For every set of users (finite), messages and payments:

| Theorem | States |
|---|---|
| RowsAreHeld | `Spec => []FrozenInv` |
| PaidIsFrozen | `Spec => [][FrozenOncePaid]_vars` |

Assumption: `ConstantsFit` of Referrals, which MCBilling has TLC evaluate for its
instances (`InstancesFit`). The argument. `has_successful_topup` is read some steps
before the referrer is written, so the invariant must say that what it read
still holds: a message past its lock has the row of its user (`VisitLocks`), a
settlement that is under way has the row of its payer (`SettleLocks`), the two
exclude each other, and so nobody pays for a user whose message is valid
(`UnpaidIfValid`). `SettlementEnds` treats the three ends of a settlement at once.

### BillingProofs

SettingsCache and PaidAccess. For every set of values, writers and readers and every
time to live; and for every set of tariffs and orders, all prices and lengths, any number
of wallet purchases and any time:

| Theorem | States |
|---|---|
| SettingInvariant | `Spec => []SettingInv` |
| CommittedOnly | `Spec => []NeverUncommitted` |
| StaleForTTL | `Spec => StaleForTTLOnly` |
| AccessPaid | `Access!Spec => []DaysArePaid` |

Assumptions: `ConstantsFit` of each (the default is a value, the time to live a number;
prices, lengths, the ticks of a day and the parts of a ruble are positive, and the price of
a day comes out whole in those parts). TLC evaluates both (`InstancesFit` of MCBilling).

The argument for settings. An entry is dated by the time before its read; `Since(v, t)`
says that v is the committed value or was replaced at t or later. Every entry
(`CacheInv`) and every value that a reader holds (`ReaderInv`) is `Since` its
date; a commit keeps that for the value it replaces because no date is in the
future (`DatesInv`). An entry that is served is younger than the time to live.

The argument for access. `AccessIsPaid` is not inductive: the refund of an order of
another tariff takes its money out of `paid` and leaves the days, and the refund of a change
brings the days from before it back. What makes up for both is that a tariff which was
changed is used up: `WorthInv` says that the days left are worth no more than what
was paid beyond the open orders of other tariffs (`Foreign`), and the days that the refund of
a change would bring back no more than what was paid beyond all open orders (`Open`: paid,
and under no later change). `SumInv` says that the orders which count as paid have their
money in `paid`; the rest is from the wallet. As for the traffic of VLESS there is no
induction over orders: a sum is the number of pairs of an order and a ruble (`Coins`), and
`SumAdds` and `SumLess` are all that is used of it. Rounding is a matter of three lemmas: a
rounded quotient is off by half its divisor at most (`RoundIs`), and therefore the rest of a
tariff by less than half a ruble (`RestIs`) and the days bought for it by half a day
(`BuysIs`); `ChangeIs` puts both together, once for `WorthInv` and once for `ChangeIsFair`.
Terms are fixed when an order is created and not looked at again when it is paid, so
`WorthInv` and `OnceInv` end with `misfit`. Terms that do still fit at their payment offer the
discount only while no paid order with a price exists (`FirstDiscount`), so it is given once.

### WhiteQuotaProofs

For every tariff, cap, set of packs and downloads and any number of operations:

| Theorem | States |
|---|---|
| QuotaIsExact | `Spec => []QuotaExact` |
| ServingPublished | `Spec => ServingIsPublished` |
| PotsAreKept | `Spec => KeepsThePots`: WhiteQuota implements TwoPots |

Assumption: `QuotaConstants` (numbers, and at least one device).

The argument. That no byte is metered twice is no property of the row alone:
between the poll and the write a node may restart and a second poll may come.
`CounterIsServed` says that the client's counter, as far as it exceeds the baseline
of the row, is not metered yet; `SnapshotIsServed` says the same of what the counters
will be once the snapshot in hand is applied. Both have a second branch for a
row whose epoch is not the node's, from which the whole counter is new. `Sound`
is what the quota operations keep among themselves: overage within usage, extra
under its cap, and exhausted only when nothing is left. Each operation is shown once
to lead from a sound row to a sound row (`Follows`), which also says that a change of
service has a new version; the two theorems are read off it.

The refinement is proved step by step: each operation that sells or meters is shown
to be a named step of TwoPots on the mapped pots, or to leave them alone.
`PotsAreKept` has no hypothesis. What it excepts is written in the formula
itself: a step of `Corrects`, by which an administrator overrules base quota, usage
or device limit. From the pots a correction leaves, all other steps are again
steps of TwoPots.

### WhiteInternetProofs

For every set of nodes, any number of moves, failures, restarts and crashes:

| Theorem | States |
|---|---|
| WhiteTypes | `Spec => []TypeOK` |
| NobodyIsOrphaned | `Spec => []NoCredentialOrphaned` |
| SettledTrue | `Spec => []SettledIsTrue` |

Assumption: `WhiteConstants` (absent node and absent row are neither).

The argument. A credential is orphaned when a node serves a client that the row has
left, and neither the outbox nor a deprovisioning call knows of it. The danger is a
call from before the move that arrives after the node was cleaned. `CallsCovered`
says of every such call, the session's (`inline`) and the worker's (`task`), that its
node is the origin still, or holds a higher version, so that it will answer
"already newer", or is in the outbox with one. `CopiesBehind` gives the versions
their order: no copy is ahead of the row, and one that would turn a disabled client on
is behind. A trial's row may be deleted when its node has confirmed, and then
nothing would list the node: `DisabledIsTrue`, `AnswerKept` and `TrialStays` carry
what the node answered from the call to the record and to the deletion, and
`OneRow` says that nobody comes back for a deleted row. `AnswersAre` states what
callers rely on of a node's answer; one lemma for each group of actions
preserves the whole.

`SettledIsTrue` needs a second invariant beside that one, `SettledInv`, because a row
becomes settled by an answer that is older than the record of it. `TaskTrue`
and `InlineTrue` say that an answer which may still confirm the row is true now, as
long as the row has the version of the copy and the node the generation of the call:
calls for the row's version ask for the same (`SameVersion`, `CopiesServe`), older calls are
refused by the node, and dispatched ones go to nodes that were left (`CallsAway`).
`RowTrue` says the same of what is recorded. A step that gives the row a new
version makes all three vacuous, a restart does so by the generation
(`EpochsBehind`). What is left are two recorders at once: the worker writes its older
epoch over the one a session has confirmed, which `InlineLater` and `SeenLater`
exclude for a generation that is still current.

### AdminProofs

AdminAccess, Broadcast, MassGrants and FeedSettings. For every set of administrators,
sessions, users, audiences, rows, relays and parameters, all numbers and limits, and any
lengths of a day and of the grace:

| Theorem | States |
|---|---|
| AccessInvariant | `Spec => []AccessInv` |
| AdminTypes | `Spec => []TypeOK` |
| StandardHolds | `Spec => []StandardFits` |
| KeysTakeOnce | `Spec => []OncePerKey` |
| WiExtensionsAdd | `Spec => []WiExtensionsCount` |
| NewsDelivered | `News!Spec => []CompletedReachedAll` and the three promises it is made of |
| GrantsKept | `Mass!Spec => []GrantsAsTalked` and the promises it is made of |
| HiddenKept | `Feed!Spec => []HiddenIsNotServed` and the promises it is made of |

Assumptions: `AdminConstants` (typing; limits are positive), `BroadcastConstants` (ids
are numbers, a batch has room for one, an absent row is no row) and `GrantConstants` (limits
are numbers). FeedSettings needs none.

The argument for the cards. A handler reads, applies and commits, and others come in
between. `Pending` says what a flushed change of the standard subscription still promises:
it holds the row, the devices it will leave fit its limit, and a reduction was computed from
the row that is there. `HasRead` gives a copy its kind, since one session may work on either
subscription. The end of a user who was cut must be remembered while a ban hides
it, which is `CutEnd`; `StandardFits` alone is lost when the ban is lifted.

For broadcasts. `CompletedReachedAll` is about the end of a run; what holds along the way
is `NewsInv`. `DueReached` says that whoever was in the audience all the time is reached
as far as the row has got; `BatchCovers`, that nobody due is between the row and the
batch, nor missing from it. `ReplaysCounted` is the other half: the messages that a further
attempt would repeat, together with those repeated already, are no more than the tasks that
were cut off, since each is cut between at most one message and its checkpoint.
`WorkersOwn` gives a row to one task and an administrator to one row.

For mass grants. `Picked` says that a form never answers what was not chosen in its own
conversation, though "back", repeated clicks and crashes come between. `TalksPass` gives
conversations an order: one that a bonus has left is never taken up again, and so no second
run can be of it.

For feeds, what was hidden is compared with the row. `FeedInv` says that they agree until an
edit of the address has written its copy back (`dropped`).

### VlessProofs

DeviceSlots, VlessSync and VlessTraffic. For every finite set of devices and of nodes,
all limits, times, versions, numbers of faults and bytes:

| Theorem | States |
|---|---|
| SlotsInvariant | `OneByOne`: `Spec => []SlotsInv` |
| LimitIsHeld | `OneByOne`: `Spec => []LimitHolds` |
| ResetsStick | `OneByOne`: `Spec => []ResetSticks` |
| SeatsAreKept | `OneByOne`: `Spec => SeatKept` |
| OwnNeverRevoked | `Sync!Spec => []Sync!InUseNotRevoked` |
| CredentialsSafe | `Sync!Spec => []CredentialsKept` and the promises it is made of |
| TrafficCounted | `Traffic!Spec => []TrafficExact` and the promises it is made of |

Assumptions: `SlotConstants`, `SyncConstants` and `TrafficConstants` (bounds are numbers,
the metered nodes are finitely many), and for the first four the hypothesis `OneByOne`:
the row is read anew under its lock, or there is one session. It is what the two
repositories differ in: the VLESS one satisfies it for any number of requests at once;
for the White Internet one the theorems say that all is well with one request at a time,
and section 4 shows that two break it. MCVless checks both instances.

The argument for devices. `Copies` is the hypothesis made a state predicate: what a handler
decides from is the row. `SeatsListed` ties history to the registry: who was served lately
is in it, with the time of that service or one less than `Throttle` before; `SeatsFit` says that the registry fits the limit once it has
been served from. Counting needs finite sets, so `LiveFinite` is cited throughout.

For credentials there are two invariants. `UseInv` holds always: rows, copies and tasks speak
of uuids that were given out, and no copy lists its own uuid for revocation; it proves
`OwnNeverRevoked`. `CallsInv` holds while no session has flushed a copy the row had left
behind (`stale`), and says what calls under way may still do. A uuid is `Gone` when it is
neither the row's nor listed: then it is off on every node, at a version that outdates each
task that would still switch it on (`GoneOff`, `Out`). A uuid leaves the list when a
revocation has succeeded, so `RevokeFits` must say that of the nodes it has called, and
`RestFits` that of the uuids a sync has found listed. `CallFits` orders the versions,
those of revocations too, so that neither way of recording a version passes the row
(`SyncedInTurn`); only a sync retried after a conflict runs ahead of the row, by one, under the lock, and there
is one such sync (`AgainOnce`).

For traffic the promise is about sums over nodes, for which there is no induction here. A
sum is therefore written as the number of pairs of a node and a byte between two marks
(`Between(low, high)`); `Raised` and `Lowered` say how it changes when one node's mark
moves, and no other fact about sums is needed. `PotInv` bounds what was recorded plus what
is still to be recorded by what the nodes served; what is still to be recorded of a node is
measured in two steps while an answer is under way (`Both`), because the node goes on. `LossInv`
is the equation that holds while the credential stays and no node restarts. `AlertsFit`
ties messages on their way to marked months, one for each.

### Theorems about instances

A proof module extends a composition, and what it proves of an instance is stated with the
instance's own specification (`Sync!Spec`, `News!Spec`). The runs have the component
in the same way, so a property of a composition means the same in both. The lemmas about
an instance never mention the variables of another component.

### Only model-checked

- Liveness, which is outside the prover's reach: `PaymentIsSettled`,
  `RefundIsHonoured`, `Converges`, `WarnedEventually`, `ReplacedIsRevoked`,
  `DeadComeBack`, and `ToldInTheEnd` with its parts (`AlertsAreTold`, `DebtsEnd`,
  `DueIsTold`).
- Sums and chains over data, which need induction that no installed prover can
  instantiate: `WalletExact` (sums of lots over purchases in the order of age), and of
  `ReferralsHold` all but the frozen referrer, which is proved (`PaidIsFrozen`).
- `ServersHold`, which would be false for any number of administrators: three are enough
  to migrate to a server between the two transactions of its deletion (section 4). A theorem
  must except that migration first.

Every invariant and every other safety property of a passing run is a theorem.

## 6. Not modelled, and the plan

Not modelled, with the reason:

- Order service: the limit of unfinished top-ups counted outside the advisory lock,
  and a wallet purchase against a ban that commits just before it; AccountLedger
  has no bans, Orders no wallet purchases. Refund debits and their cap, because
  their branch cannot commit (finding 1). Changes of prices.
- Ban: legacy payments. Users that are deleted.
- White Internet: the rendered Xray configuration. VLESS: links and headers of
  the feed.
- Node monitor: CDN and disk alerts. Supervision: the heartbeat file.
- Middlewares: throttling, the user cache, the chat cleaner. Telegram helpers,
  texts, keyboards, templates, migrations, scripts: wording, layout and I/O.
- Repositories of users, tariffs, purchases and audit: single statements, whose
  users are modelled instead.

Next, in this order:

1. ServerRegistry (`PlacesHold`), with the migration of section 4 excepted.
2. `Checkout`: limits and bans at the advisory lock, composed of Orders,
   AccountLedger and PaidAccess.
