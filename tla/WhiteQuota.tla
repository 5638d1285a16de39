----------------------------- MODULE WhiteQuota -----------------------------
(***************************************************************************)
(* The traffic quota of one White Internet subscription: the worker that   *)
(* polls the counters of the node, applies them to the row and warns the   *)
(* user, and every operation that changes quota, usage or device limit.    *)
(*                                                                         *)
(* The poll, the application of the snapshot under the row lock, and the   *)
(* warning with its write of notified_90p are three steps; operations,     *)
(* restarts and crashes come between them.  The quota is metered by        *)
(* downlink; the uplink has a baseline of its own, treated the same way,   *)
(* and is left out.  The subscription stays on one node here.              *)
(***************************************************************************)
EXTENDS Integers

CONSTANTS
    Base,        \* WHITE_INTERNET_BASE_TRAFFIC_BYTES, per device
    Packs,       \* sizes of top-ups and of the quota of a device slot
    Cap,         \* WHITE_INTERNET_MAX_QUOTA_BYTES, per device
    MaxDevices,  \* WHITE_INTERNET_MAX_DEVICE_LIMIT
    Downloads,   \* amounts a client may download at once
    MaxServed,   \* bound on the bytes served
    MaxEvents,   \* bound on operations and faults of one behaviour
    Idle,        \* the worker has nothing in hand
    NoEpoch      \* traffic_stats_epoch IS NULL

ASSUME QuotaConstants ==
    /\ Base \in Nat /\ Cap \in Nat /\ MaxDevices \in Nat \ {0}
    /\ Packs \subseteq Nat /\ Downloads \subseteq Nat
    /\ NoEpoch \notin Nat

VARIABLES
    row,     \* the row of white_internet_subscriptions
    clock,   \* its time: running, over, or late (the 7 days of grace gone)
    node,    \* the node: Xray's epoch and the client's counter
    job,     \* what the traffic worker has in hand
    total,   \* users.total_wi_traffic_bytes
    served,  \* history: bytes the node served
    events   \* how many bounded events have happened

vars == <<row, clock, node, job, total, served, events>>

Statuses == {"PENDING", "ACTIVE", "EXHAUSTED", "EXPIRED", "DISABLED"}
Event == events < MaxEvents /\ events' = events + 1

Smaller(m, n) == IF m < n THEN m ELSE n
Larger(m, n) == IF m > n THEN m ELSE n

Quota(r) == r.base + r.extra
Charged(r) == Larger(0, r.used - r.over)
Available(r) == Larger(0, Quota(r) - Charged(r))
NinetyPercent(r) == Quota(r) > 0 /\ 10 * Charged(r) >= 9 * Quota(r)

\* Whether the node is to serve the row.
Serving(r) == r.status \in {"PENDING", "ACTIVE"}

-----------------------------------------------------------------------------
\* External: the node and its counters.

ClientDownloads(n) ==
    /\ served + n <= MaxServed
    /\ node' = [node EXCEPT !.count = @ + n]
    /\ served' = served + n
    /\ UNCHANGED <<row, clock, job, total, events>>

\* The client is added anew to a running Xray.
CounterResets ==
    /\ Event
    /\ node' = [node EXCEPT !.count = 0]
    /\ UNCHANGED <<row, clock, job, total, served>>

NodeRestarts ==
    /\ Event
    /\ node' = [epoch |-> node.epoch + 1, count |-> 0]
    /\ UNCHANGED <<row, clock, job, total, served>>

-----------------------------------------------------------------------------
\* The traffic worker.

Poll ==
    /\ job = Idle
    /\ job' = [kind |-> "snapshot", epoch |-> node.epoch, count |-> node.count, ver |-> 0]
    /\ UNCHANGED <<row, clock, node, total, served, events>>

\* The counter the difference is taken from: a new epoch or a fallen counter
\* starts from zero.
Baseline(r, s) ==
    IF r.epoch # s.epoch \/ s.count < r.last THEN 0 ELSE r.last

\* record_and_deduct_traffic_atomic for a positive difference.
Recorded(r, s) ==
    LET delta == s.count - Baseline(r, s)
        overage == IF r.status \in {"DISABLED", "EXPIRED"} THEN delta
                   ELSE Larger(0, delta - Available(r))
        metered == [r EXCEPT !.used = @ + delta, !.over = @ + overage,
                             !.last = s.count, !.epoch = s.epoch]
    IN  IF Available(metered) = 0 /\ r.status = "ACTIVE"
        THEN [metered EXCEPT !.status = "EXHAUSTED", !.ver = @ + 1, !.warned = TRUE]
        ELSE metered

\* Variant: the warning is only asked for when traffic crosses the threshold.
WarnOnGrowth(r, grew) ==
    grew /\ r.status = "ACTIVE" /\ ~r.warned /\ NinetyPercent(r)

\* The worker asks for the warning at every poll until it was sent.
MustWarn(r, grew) ==
    r.status = "ACTIVE" /\ ~r.warned /\ NinetyPercent(r)

\* The loop of run_traffic_cycle over one client, under the user and row locks.
ApplySnapshot ==
    /\ job # Idle /\ job.kind = "snapshot"
    /\ LET delta == job.count - Baseline(row, job)
           after == IF delta > 0 THEN Recorded(row, job) ELSE row
       IN  /\ row' = after
           /\ total' = total + Larger(0, delta)
           /\ job' = IF MustWarn(after, delta > 0)
                     THEN [job EXCEPT !.kind = "warn", !.ver = after.ver] ELSE Idle
    /\ UNCHANGED <<clock, node, served, events>>

\* The message, then notified_90p if the version is still the one seen.
SendWarning ==
    /\ job # Idle /\ job.kind = "warn"
    /\ \/ /\ row' = IF row.ver = job.ver THEN [row EXCEPT !.warned = TRUE] ELSE row
          /\ UNCHANGED events
       \/ Event /\ UNCHANGED row          \* the message is not delivered
    /\ job' = Idle
    /\ UNCHANGED <<clock, node, total, served>>

Crash ==
    /\ Event
    /\ job # Idle /\ job' = Idle
    /\ UNCHANGED <<row, clock, node, total, served>>

-----------------------------------------------------------------------------
\* Operations on the row; each is a transaction that holds its lock.

Keeps == UNCHANGED <<node, job, total, served>>

\* EXHAUSTED becomes ACTIVE again, and the node is told.
Reactivated(r) ==
    IF r.status = "EXHAUSTED" THEN [r EXCEPT !.status = "ACTIVE", !.ver = @ + 1] ELSE r

\* The warning is due again below the threshold.
Rearmed(r) ==
    IF Quota(r) > 0 /\ ~NinetyPercent(r) THEN [r EXCEPT !.warned = FALSE] ELSE r

Upgradable(r) ==
    ~r.trial /\ r.status \in {"ACTIVE", "EXHAUSTED"} /\ clock = "running"

FitsCap(limit, extra) == extra <= limit * Cap

\* topup_quota_atomic.
TopUp(pack) ==
    /\ Event
    /\ Upgradable(row) /\ FitsCap(row.limit, row.extra + pack)
    /\ row' = Rearmed(Reactivated([row EXCEPT !.extra = @ + pack]))
    /\ Keeps /\ UNCHANGED clock

\* add_device_slot_atomic; the flag of the warning is left as it is.
AddDeviceSlot(pack) ==
    /\ Event
    /\ Upgradable(row)
    /\ row.limit < MaxDevices
    /\ FitsCap(row.limit + 1, row.extra + pack)
    /\ row' = Reactivated([row EXCEPT !.limit = @ + 1, !.extra = @ + pack])
    /\ Keeps /\ UNCHANGED clock

\* Usage starts anew; the baselines of the counters stay.
Zeroed(r) == [r EXCEPT !.used = 0, !.over = 0, !.warned = FALSE]

\* Variant: the renewal carries the whole extra quota over, spent or not.
RenewedGenerously(r) ==
    [Zeroed(r) EXCEPT !.base = r.limit * Base, !.status = "ACTIVE", !.ver = @ + 1]

\* Variant: the renewal resets the baseline of the counter as well.
RenewedFromZero(r) ==
    [Zeroed(r) EXCEPT !.base = r.limit * Base, !.status = "ACTIVE", !.ver = @ + 1, !.last = 0,
                      !.extra = Smaller(r.extra, Available(r))]

\* renew_subscription_atomic: unspent extra quota is carried over in time.
Renewed(r) ==
    [Zeroed(r) EXCEPT
        !.base = r.limit * Base,
        !.extra = IF clock = "late" THEN 0
                  ELSE Smaller(Smaller(r.extra, Available(r)), r.limit * Cap),
        !.status = "ACTIVE", !.ver = @ + 1]

RenewSubscription ==
    /\ Event
    /\ ~row.trial /\ row.status \notin {"DISABLED", "PENDING"}
    /\ row' = Renewed(row) /\ clock' = "running"
    /\ Keeps

\* The quota part of convert_trial_to_paid.
ConvertTrialToPaid ==
    /\ Event
    /\ row.trial /\ row.status # "DISABLED"
    /\ row' = [Zeroed(row) EXCEPT !.trial = FALSE, !.base = row.limit * Base, !.extra = 0,
                                  !.status = "ACTIVE", !.ver = @ + 1]
    /\ clock' = "running"
    /\ Keeps

\* extend_subscription_atomic: a new cycle unless the old one still runs.
AdminExtend ==
    /\ Event
    /\ ~row.trial /\ row.status # "DISABLED"
    /\ row' = IF clock # "running" \/ row.status \in {"EXPIRED", "EXHAUSTED", "PENDING"}
              THEN [Zeroed(row) EXCEPT !.extra = 0, !.status = "ACTIVE", !.ver = @ + 1]
              ELSE [row EXCEPT !.ver = @ + 1]
    /\ clock' = "running"
    /\ Keeps

\* EXHAUSTED ends when the quota is above the usage again.
Unblocked(r) == IF Quota(r) > Charged(r) THEN Reactivated(r) ELSE r

\* The administrator's "add traffic" button with add_extra_traffic_atomic.
AdminTrafficAdd(pack) ==
    /\ Event
    /\ ~row.trial /\ row.status \in {"ACTIVE", "EXHAUSTED", "PENDING"}
    /\ FitsCap(row.limit, row.extra + pack)
    /\ row' = Rearmed(Unblocked([row EXCEPT !.extra = @ + pack]))
    /\ Keeps /\ UNCHANGED clock

\* The "set quota" button with set_base_traffic_quota_atomic.
AdminQuotaSet(bytes) ==
    /\ Event
    /\ ~row.trial /\ row.status \in {"ACTIVE", "EXHAUSTED", "PENDING"}
    /\ bytes <= row.limit * Cap
    /\ row' = Rearmed(Unblocked([row EXCEPT !.base = bytes]))
    /\ Keeps /\ UNCHANGED clock

\* Variant: the node is not told that the client is served again.
ResetUsedQuietly ==
    /\ Event
    /\ ~row.trial /\ row.status \in {"ACTIVE", "EXHAUSTED"}
    /\ row' = [Zeroed(row) EXCEPT !.status = "ACTIVE"]
    /\ Keeps /\ UNCHANGED clock

\* The "reset traffic" button with reset_traffic_used_atomic.
AdminTrafficReset ==
    /\ Event
    /\ ~row.trial /\ row.status \in {"ACTIVE", "EXHAUSTED"}
    /\ row' = Reactivated(Zeroed(row))
    /\ Keeps /\ UNCHANGED clock

\* set_device_limit_atomic cuts the extra quota to the new cap.
WithLimit(r, limit) ==
    [r EXCEPT !.limit = limit, !.extra = Smaller(@, limit * Cap)]

\* The "device limit" button.
AdminDeviceLimitSet(limit) ==
    /\ Event
    /\ ~row.trial
    /\ row' = WithLimit(row, limit)
    /\ Keeps /\ UNCHANGED clock

\* A ban, a refund or a trial reset.
Deactivated ==
    /\ Event
    /\ row.status # "DISABLED"
    /\ row' = [row EXCEPT !.status = "DISABLED", !.ver = @ + 1]
    /\ Keeps /\ UNCHANGED clock

\* The reconciliation worker expires or activates the row.
Expire ==
    /\ clock # "running" /\ row.status \in {"PENDING", "ACTIVE", "EXHAUSTED"}
    /\ row' = [row EXCEPT !.status = "EXPIRED", !.ver = @ + 1]
    /\ Keeps /\ UNCHANGED <<clock, events>>

Activate ==
    /\ row.status = "PENDING" /\ clock = "running"
    /\ row' = [row EXCEPT !.status = "ACTIVE"]
    /\ Keeps /\ UNCHANGED <<clock, events>>

TimePasses ==
    /\ Event
    /\ clock # "late"
    /\ clock' = IF clock = "running" THEN "over" ELSE "late"
    /\ Keeps /\ UNCHANGED row

-----------------------------------------------------------------------------
NewRow(trial) ==
    [status |-> "PENDING", trial |-> trial, base |-> Base, extra |-> 0, used |-> 0,
     over |-> 0, last |-> 0, epoch |-> NoEpoch, warned |-> FALSE, ver |-> 1, limit |-> 1]

Init ==
    /\ \E trial \in BOOLEAN : row = NewRow(trial)
    /\ clock = "running"
    /\ node = [epoch |-> 1, count |-> 0]
    /\ job = Idle
    /\ total = 0 /\ served = 0 /\ events = 0

Worker == Poll \/ ApplySnapshot \/ SendWarning \/ Crash

\* An administrator overrules what was sold or metered.
Corrects ==
    \/ \E bytes \in Packs : AdminQuotaSet(bytes)
    \/ AdminTrafficReset
    \/ \E limit \in 1..MaxDevices : AdminDeviceLimitSet(limit)

Operations ==
    \/ \E pack \in Packs : TopUp(pack) \/ AddDeviceSlot(pack) \/ AdminTrafficAdd(pack)
    \/ RenewSubscription \/ ConvertTrialToPaid \/ AdminExtend
    \/ Corrects
    \/ Deactivated \/ Expire \/ Activate

Next ==
    \/ \E n \in Downloads : ClientDownloads(n)
    \/ CounterResets \/ NodeRestarts \/ TimePasses
    \/ Worker
    \/ Operations

\* The loop polls every interval and sends what it found; no message is
\* refused for ever.
Spec == Init /\ [][Next]_vars

-----------------------------------------------------------------------------
Rows == [status : Statuses, trial : BOOLEAN, base : Nat, extra : Nat, used : Nat,
         over : Nat, last : Nat, epoch : Nat \cup {NoEpoch}, warned : BOOLEAN,
         ver : Nat, limit : 1..MaxDevices]
Jobs == [kind : {"snapshot", "warn"}, epoch : Nat, count : Nat, ver : Nat]

\* The row, the counters and what the worker has in hand; no more is written
\* off than was used.
TypeOK ==
    /\ row \in Rows /\ row.over <= row.used
    /\ clock \in {"running", "over", "late"}
    /\ node \in [epoch : Nat, count : Nat]
    /\ job # Idle => job \in Jobs
    /\ total \in Nat /\ served \in Nat

\* Whatever restarts, resets and renewals come between the polls, no byte is
\* metered twice (renew_subscription_atomic keeps the baselines).
MeteredOnce == total <= served

\* A subscription is blocked for traffic only while nothing is left of it:
\* every operation that adds quota or clears usage unblocks it.
BlockedHasNothing == row.status = "EXHAUSTED" => Available(row) = 0

\* Bought and granted quota together stay under the cap of the device limit,
\* in whatever order slots, packs and limits change.
ExtraWithinCap == row.extra <= row.limit * Cap

\* A user at 90% is warned or leaves the threshold.
MustBeWarned == row.status = "ACTIVE" /\ NinetyPercent(row)
NeedNotBeWarned == row.warned \/ row.status # "ACTIVE" \/ ~NinetyPercent(row)

\* No byte is metered twice, a blocked subscription has nothing left, and what
\* was added stays under the cap, whatever restarts, resets, renewals and
\* corrections come between the polls (record_and_deduct_traffic_atomic and the
\* operations of the repository).
QuotaExact == TypeOK /\ MeteredOnce /\ BlockedHasNothing /\ ExtraWithinCap

\* Whenever a row starts or stops to be served its version grows, or the
\* reconciliation would not tell the node (desired_state_version).
ServingIsPublished == [][Serving(row) # Serving(row') => row'.ver > row.ver]_vars

\* The two pots that the row keeps: base and bought quota, less the usage that
\* is charged to them.
TariffPot == Larger(0, row.base - Charged(row))
BoughtPot == Smaller(row.extra, Available(row))

Pots == INSTANCE TwoPots WITH tariffPot <- TariffPot, boughtPot <- BoughtPot

\* Every step but the correction of an administrator is one of the two pots
\* that the buyer is promised, or leaves them alone (renew_subscription_atomic
\* and the operations that sell or meter).
KeepsThePots == Pots!PotsInit /\ [][Corrects \/ [Pots!PotsNext]_(Pots!pots)]_vars
=============================================================================
