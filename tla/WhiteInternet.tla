---------------------------- MODULE WhiteInternet ----------------------------
(***************************************************************************)
(* One White Internet subscription row (one client uuid) and the origin    *)
(* nodes that serve it: the checkout operations of WhiteInternetService,   *)
(* the inline sync that follows some of them after the commit, the         *)
(* fire-and-forget deprovision dispatches, the reconciliation worker and   *)
(* the durable orphan-cleanup outbox.                                      *)
(*                                                                         *)
(* A database transaction that holds the row lock is one step; every       *)
(* network call, and every write made after one from a copy read before,   *)
(* is a step of its own.  The node is external: NodeAnswers is what the    *)
(* callers of XrayNodeClient.sync_client rely on.  Money is in             *)
(* AccountLedger, bytes are in WhiteQuota: here an operation is paid or  *)
(* does not happen, and the quota is exhausted or not.                     *)
(***************************************************************************)
EXTENDS Integers, FiniteSets

CONSTANTS
    Nodes,      \* rows of the servers table with the xray_origin capability
    NoNode,     \* origin_node_id IS NULL
    NoRow,      \* no subscription row
    Idle,       \* no session, no task
    MaxLeft,    \* the largest number of 30-day periods left that is explored
    MaxEvents   \* bound on operations and faults of one behaviour

VARIABLES
    sub,      \* the row of white_internet_subscriptions, or NoRow
    server,   \* health and life cycle of each row of servers
    epoch,    \* servers.xray_instance_epoch
    node,     \* the runtime of each node: version, serving, generation
    orphans,  \* pending rows of white_internet_orphan_cleanups
    calls,    \* deprovision dispatches in flight
    inline,   \* the session that runs an inline sync, or Idle
    task,     \* the reconciliation task of this subscription, or Idle
    hardGone, \* the row was deleted by the two-phase trial reset
    overtaken, \* history: what a call reports was overtaken, see Overtakes, InlineRecord
    events    \* how many bounded events have happened

vars == <<sub, server, epoch, node, orphans, calls, inline, task, hardGone, overtaken, events>>

Statuses == {"PENDING", "ACTIVE", "EXHAUSTED", "EXPIRED", "DISABLED"}
Live == {"PENDING", "ACTIVE", "EXHAUSTED"}
ProvPending == {"PENDING_CREATE", "PENDING_UPDATE", "PENDING_DELETE"}
Provisioning == ProvPending \cup {"ACTIVE", "SYNCED_INACTIVE"}

\* The rows the table can hold.
Subscriptions ==
    [status : Statuses, trial : BOOLEAN, prov : Provisioning, desired : Nat, actual : Nat,
     origin : Nodes \cup {NoNode}, seen : (Nodes \cup {NoNode}) \X Nat,
     hard : BOOLEAN, left : 0..MaxLeft]

ASSUME WhiteConstants ==
    /\ NoNode \notin Nodes /\ NoRow \notin Subscriptions
    /\ MaxLeft \in Nat \ {0} /\ MaxEvents \in Nat

\* What a node generation is called in last_reconciled_node_epoch.
Never == <<NoNode, 0>>
Generation(n, g) == <<n, g>>

\* online: ONLINE, ACTIVE and with relays; draining: WAITING_CONFIRMATION or
\* DECOMMISSIONING; disabled: not is_active; gone: no row any more.
ServerStates == {"online", "draining", "problem", "disabled"}
Allocatable == {n \in Nodes : server[n] = "online"}
Visited == {n \in Nodes : server[n] \in {"online", "draining"}}
Enabled == {n \in Nodes : server[n] \in {"online", "draining", "problem"}}
Rows == {n \in Nodes : server[n] # "gone"}

HasRow == sub # NoRow
Event == events < MaxEvents /\ events' = events + 1

\* desired_active of the reconciliation worker.
ShouldServe(s) == s.status \in {"PENDING", "ACTIVE"} /\ s.left > 0

\* pending_hard_delete or PENDING_DELETE: every paid operation refuses.
Deactivating(s) == s.hard \/ s.prov = "PENDING_DELETE"

-----------------------------------------------------------------------------
\* External: the node.

\* The node refuses an epoch that is not its own and a version below the one
\* it has; at the same version the code relies on neither answer.
NodeAnswers(n, version, active, expected) ==
    LET now == node[n]
        done == [now EXCEPT !.ver = version, !.on = active]
    IN  CASE expected \notin {0, now.gen} -> {[reply |-> "fenced", after |-> now]}
          [] version < now.ver -> {[reply |-> "already_newer", after |-> now]}
          [] version > now.ver -> {[reply |-> "applied", after |-> done]}
          [] OTHER -> {[reply |-> "applied", after |-> done],
                       [reply |-> "already_newer", after |-> now]}

\* A call that times out was or was not served.
LostAnswers(n, version, active, expected) ==
    {[reply |-> "failed", after |-> node[n]]} \cup
    {[a EXCEPT !.reply = "failed"] : a \in NodeAnswers(n, version, active, expected)}

\* A node restart: the clients in Xray's memory are gone, the versions are not.
NodeRestarts(n) ==
    /\ Event
    /\ node' = [node EXCEPT ![n].gen = @ + 1, ![n].on = FALSE]
    /\ UNCHANGED <<overtaken, sub, server, epoch, orphans, calls, inline, task, hardGone>>

\* The node monitor or an administrator changes what may be allocated.  A
\* dispatch lives 30 seconds at most, far less than a health transition takes.
HealthChanges(n) ==
    /\ Event
    /\ n \in Rows
    /\ calls = {}
    /\ \E h \in ServerStates \ {server[n]} : server' = [server EXCEPT ![n] = h]
    /\ UNCHANGED <<overtaken, sub, epoch, node, orphans, calls, inline, task, hardGone>>

\* The server row is deleted: both foreign keys become NULL.
ServerDeleted(n) ==
    /\ Event
    /\ n \in Rows
    /\ server' = [server EXCEPT ![n] = "gone"]
    /\ node' = [node EXCEPT ![n].on = FALSE]
    /\ sub' = IF HasRow /\ sub.origin = n THEN [sub EXCEPT !.origin = NoNode] ELSE sub
    /\ orphans' = {o \in orphans : o.node # n}
    /\ UNCHANGED <<overtaken, epoch, calls, inline, task, hardGone>>

\* expires_at comes one period nearer.
TimePasses ==
    /\ HasRow /\ sub.left > 0
    /\ sub' = [sub EXCEPT !.left = @ - 1]
    /\ UNCHANGED <<overtaken, server, epoch, node, orphans, calls, inline, task, hardGone, events>>

\* The bot process dies: sessions, tasks and background tasks with it.
Crash ==
    /\ Event
    /\ inline' = Idle /\ task' = Idle /\ calls' = {}
    /\ UNCHANGED <<overtaken, sub, server, epoch, node, orphans, hardGone>>

-----------------------------------------------------------------------------
\* Operations of WhiteInternetService.

\* The session goes on to the node with its copy of the row.  Only one such
\* request is explored at a time; other operations may run beside it.
StartInline(s, n) ==
    /\ inline = Idle
    /\ inline' = [node |-> n, copy |-> s, expected |-> epoch[n], reply |-> "none"]

Dispatch(n, version) ==
    calls' = IF n \in Rows THEN calls \cup {[node |-> n, ver |-> version]} ELSE calls

NewRow(n, trial) ==
    [status |-> "PENDING", trial |-> trial, prov |-> "PENDING_CREATE",
     desired |-> 1, actual |-> 0, origin |-> n, seen |-> Never,
     hard |-> FALSE, left |-> 1]

\* Creating the row cancels the clean-ups of this client on the chosen node.
Create(trial) ==
    \E n \in Allocatable :
        /\ sub' = NewRow(n, trial)
        /\ orphans' = {o \in orphans : o.node # n}
        /\ StartInline(NewRow(n, trial), n)

\* Whether the origin still serves; if not, where the subscription goes.
NeedsMigration(s) == s.origin \notin Allocatable
Placements(s) == IF NeedsMigration(s) THEN Allocatable ELSE {s.origin}

\* The assignments made when the subscription moves, before the operation's own.
Moved(s, n) ==
    IF n = s.origin THEN s
    ELSE [s EXCEPT !.origin = n, !.actual = 0, !.seen = Never, !.prov = "PENDING_CREATE"]

\* Variant: the dispatch alone is trusted to clear the old node.
CancelOnly(s, n, version) ==
    IF n = s.origin THEN orphans ELSE {o \in orphans : o.node # n}

\* Cancel the clean-ups on the new origin and enqueue one for the old.
MoveOrphans(s, n, version) ==
    IF n = s.origin THEN orphans
    ELSE {o \in orphans : o.node # n} \cup
         (IF s.origin \in Rows THEN {[node |-> s.origin, ver |-> version]} ELSE {})

MoveDispatch(s, n, version) ==
    IF n # s.origin /\ s.origin # NoNode THEN Dispatch(s.origin, version)
    ELSE calls' = calls

\* convert_trial_to_paid: the horizon is not checked, the sync is inline.
ConvertTrialToPaid ==
    /\ HasRow /\ sub.trial
    /\ sub.status # "DISABLED"
    /\ ~Deactivating(sub)
    /\ sub.left < MaxLeft
    /\ \E n \in Placements(sub) :
         LET s == [Moved(sub, n) EXCEPT !.trial = FALSE, !.left = @ + 1,
                       !.status = "ACTIVE", !.desired = @ + 1, !.prov = "PENDING_UPDATE"]
         IN  /\ sub' = s
             /\ orphans' = MoveOrphans(sub, n, s.desired)
             /\ MoveDispatch(sub, n, s.desired)
             /\ StartInline(s, n)

\* renew_subscription with renew_subscription_atomic; nothing is synced inline.
RenewSubscription ==
    /\ HasRow /\ ~sub.trial
    /\ sub.status \notin {"DISABLED", "PENDING"}
    /\ ~Deactivating(sub)
    /\ sub.left < 2 /\ sub.left < MaxLeft
    /\ \E n \in Placements(sub) :
         LET s == [Moved(sub, n) EXCEPT !.left = @ + 1, !.status = "ACTIVE",
                       !.desired = @ + 1, !.prov = "PENDING_UPDATE"]
         IN  /\ sub' = s
             /\ orphans' = MoveOrphans(sub, n, s.desired + 1)
             /\ MoveDispatch(sub, n, s.desired + 1)
    /\ UNCHANGED inline

\* purchase_subscription: a new row, or what an existing one allows.
PurchaseSubscription ==
    \/ ~HasRow /\ ~hardGone /\ Create(FALSE) /\ UNCHANGED calls
    \/ ConvertTrialToPaid
    \/ HasRow /\ (sub.status \in Live => sub.left = 0) /\ RenewSubscription

\* create_trial_subscription: only for a user without a row.
CreateTrialSubscription ==
    ~HasRow /\ ~hardGone /\ Create(TRUE) /\ UNCHANGED calls

\* The row of an EXHAUSTED subscription that got quota; others keep theirs.
Refilled(s) ==
    IF s.status = "EXHAUSTED"
    THEN [s EXCEPT !.status = "ACTIVE", !.desired = @ + 1, !.prov = "PENDING_UPDATE"]
    ELSE s

\* History: the subscription returns to a node to which a call made before it
\* left is still under way, or not recorded yet.
Overtakes(n) ==
    /\ n # sub.origin
    /\ \/ inline # Idle /\ inline.node = n
       \/ task # Idle /\ task.node = n

\* topup_quota with topup_quota_atomic: a live paid subscription moves if its
\* origin is down, and the version only grows if it was EXHAUSTED.
TopupQuota ==
    /\ HasRow /\ ~sub.trial
    /\ sub.status \in {"ACTIVE", "EXHAUSTED"} /\ sub.left > 0
    /\ \E n \in Placements(sub) :
         LET s == Refilled(Moved(sub, n))
         IN  /\ sub' = s
             /\ overtaken' = (overtaken \/ Overtakes(n))
             /\ orphans' = MoveOrphans(sub, n, s.desired + 1)
             /\ MoveDispatch(sub, n, s.desired + 1)

\* purchase_device_slot takes the same path through the row.
PurchaseDeviceSlot == TopupQuota

\* extend_subscription_atomic.
Extended(s) ==
    LET later == [s EXCEPT !.left = @ + 1, !.desired = @ + 1]
    IN  IF s.left = 0 \/ s.status \in {"EXPIRED", "EXHAUSTED", "PENDING"}
        THEN [later EXCEPT !.status = "ACTIVE", !.prov = "PENDING_UPDATE"]
        ELSE later

\* extend_subscription: the row lock, not the user's.
ExtendSubscription ==
    /\ HasRow /\ ~sub.trial /\ sub.status # "DISABLED"
    /\ sub.left < MaxLeft
    /\ sub' = Extended(sub)
    /\ IF sub.origin \in Enabled THEN StartInline(Extended(sub), sub.origin)
       ELSE UNCHANGED inline

\* deactivate_user_subscriptions, on a ban or a refund.
DeactivateUserSubscriptions ==
    /\ Event
    /\ HasRow /\ sub.status # "DISABLED"
    /\ sub' = [sub EXCEPT !.status = "DISABLED", !.desired = @ + 1, !.prov = "PENDING_DELETE"]
    /\ IF sub.origin # NoNode THEN Dispatch(sub.origin, sub.desired + 1) ELSE calls' = calls
    /\ UNCHANGED <<overtaken, server, epoch, node, orphans, inline, task, hardGone>>

\* reset_user_trial, first phase.
ResetUserTrial ==
    /\ HasRow /\ sub.trial
    /\ sub' = [sub EXCEPT !.status = "DISABLED", !.desired = @ + 1,
                          !.prov = "PENDING_DELETE", !.hard = TRUE]
    /\ IF sub.origin # NoNode THEN Dispatch(sub.origin, sub.desired + 1) ELSE calls' = calls

\* The traffic worker found the quota used up.
QuotaExhausted ==
    /\ Event
    /\ HasRow /\ sub.status = "ACTIVE"
    /\ sub' = [sub EXCEPT !.status = "EXHAUSTED", !.desired = @ + 1, !.prov = "PENDING_UPDATE"]
    /\ UNCHANGED <<overtaken, server, epoch, node, orphans, calls, inline, task, hardGone>>

-----------------------------------------------------------------------------
\* The buttons: a refusal or an exception of the service rolls back.

ProcessBuy ==
    /\ Event
    /\ PurchaseSubscription
    /\ UNCHANGED <<overtaken, server, epoch, node, task, hardGone>>

ProcessRenew ==
    /\ Event
    /\ ConvertTrialToPaid \/ RenewSubscription
    /\ UNCHANGED <<overtaken, server, epoch, node, task, hardGone>>

TrialActivate ==
    /\ Event
    /\ CreateTrialSubscription
    /\ UNCHANGED <<overtaken, server, epoch, node, task, hardGone>>

TopupExecute ==
    /\ Event
    /\ TopupQuota
    /\ UNCHANGED <<server, epoch, node, inline, task, hardGone>>

AddDeviceConfirm ==
    /\ Event
    /\ PurchaseDeviceSlot
    /\ UNCHANGED <<server, epoch, node, inline, task, hardGone>>

AdminExtend ==
    /\ Event
    /\ ExtendSubscription
    /\ UNCHANGED <<overtaken, server, epoch, node, orphans, calls, task, hardGone>>

AdminResetTrial ==
    /\ Event
    /\ ResetUserTrial
    /\ UNCHANGED <<overtaken, server, epoch, node, orphans, inline, task, hardGone>>

-----------------------------------------------------------------------------
\* Network calls outside the transactions.

\* A dispatched deprovision reaches the node without an epoch, or is lost.
DispatchRuns(c) ==
    /\ calls' = calls \ {c}
    /\ \/ \E a \in NodeAnswers(c.node, c.ver, FALSE, 0) :
             node' = [node EXCEPT ![c.node] = a.after]
       \/ UNCHANGED node
    /\ UNCHANGED <<overtaken, sub, server, epoch, orphans, inline, task, hardGone, events>>

\* The call of _try_inline_sync and, after ALREADY_NEWER, the inventory.
InlineCall ==
    /\ inline # Idle /\ inline.reply = "none"
    /\ LET n == inline.node
       IN  \/ /\ \E a \in NodeAnswers(n, inline.copy.desired, TRUE, inline.expected) :
                    /\ node' = [node EXCEPT ![n] = a.after]
                    /\ inline' = [inline EXCEPT !.reply =
                           IF a.reply = "applied" \/ (a.reply = "already_newer" /\ node[n].on)
                           THEN "confirmed" ELSE "unconfirmed"]
              /\ UNCHANGED events
           \/ /\ Event
              /\ \E a \in LostAnswers(n, inline.copy.desired, TRUE, inline.expected) :
                    node' = [node EXCEPT ![n] = a.after]
              /\ inline' = [inline EXCEPT !.reply = "unconfirmed"]
    /\ UNCHANGED <<overtaken, sub, server, epoch, orphans, calls, task, hardGone>>

\* The write after the call, from the session's copy: no lock, no version
\* check; the UPDATE carries the columns that differ from that copy.
InlineWrites(s, copy, n) ==
    [s EXCEPT !.actual = copy.desired,
              !.seen = Generation(n, inline.expected),
              !.status = IF copy.status = "ACTIVE" THEN @ ELSE "ACTIVE",
              !.prov = "ACTIVE"]

InlineRecord ==
    /\ inline # Idle /\ inline.reply # "none"
    /\ inline' = Idle
    /\ sub' = IF HasRow /\ inline.reply = "confirmed"
              THEN InlineWrites(sub, inline.copy, inline.node) ELSE sub
    /\ overtaken' = (overtaken \/ (HasRow /\ inline.reply = "confirmed"
                                 /\ inline.copy.status # "ACTIVE"
                                 /\ sub.status # inline.copy.status))
    /\ UNCHANGED <<server, epoch, node, orphans, calls, task, hardGone, events>>

-----------------------------------------------------------------------------
\* The reconciliation worker.

\* Variant: a restart of the node is not noticed.
NeedsSyncByVersion(s, n) ==
    /\ s.origin = n
    /\ s.actual # s.desired \/ s.prov \in ProvPending \/ (s.status \in Live /\ s.left = 0)

\* The due subscriptions of one node, by the four conditions of the SELECT.
NeedsSync(s, n) ==
    /\ s.origin = n
    /\ \/ s.actual # s.desired
       \/ s.seen # Generation(n, node[n].gen)
       \/ s.prov \in ProvPending
       \/ s.status \in Live /\ s.left = 0

\* run_reconciliation_cycle: the health check that brings the epoch, and the
\* SELECT without a lock.
ReadBatch(n) ==
    /\ task = Idle
    /\ HasRow /\ n \in Visited
    /\ NeedsSync(sub, n)
    /\ epoch' = [epoch EXCEPT ![n] = node[n].gen]
    /\ task' = [phase |-> "read", node |-> n, copy |-> sub,
                expected |-> node[n].gen, reply |-> "none"]
    /\ UNCHANGED <<overtaken, sub, server, node, orphans, calls, inline, hardGone, events>>

\* expire_subscription_atomic: under the lock only the status is read again.
Expired(s) ==
    IF s.status \in Live
    THEN [s EXCEPT !.status = "EXPIRED", !.desired = @ + 1, !.prov = "PENDING_DELETE"]
    ELSE s

\* The loop over the batch: the copy that was due expires the row as it is now.
PlanTask ==
    /\ task # Idle /\ task.phase = "read"
    /\ IF ~HasRow THEN task' = Idle /\ sub' = sub
       ELSE LET due == task.copy.left = 0 /\ task.copy.status \in Live
                s == IF due THEN Expired(sub) ELSE task.copy
            IN  /\ sub' = IF due THEN s ELSE sub
                /\ task' = [task EXCEPT !.phase = "planned", !.copy = s]
    /\ UNCHANGED <<overtaken, server, epoch, node, orphans, calls, inline, hardGone, events>>

\* sync_client under the advisory lock of the subscription, no transaction.
CallNode ==
    /\ task # Idle /\ task.phase = "planned"
    /\ LET n == task.node
           want == ShouldServe(task.copy)
           Got(a, r) == /\ node' = [node EXCEPT ![n] = a.after]
                        /\ task' = [task EXCEPT !.phase = "called", !.reply = r]
       IN  \/ /\ \E a \in NodeAnswers(n, task.copy.desired, want, task.expected) : Got(a, a.reply)
              /\ UNCHANGED events
           \/ /\ Event
              /\ \E a \in LostAnswers(n, task.copy.desired, want, task.expected) : Got(a, "failed")
    /\ UNCHANGED <<overtaken, sub, server, epoch, orphans, calls, inline, hardGone>>

\* Variant: the confirmed version is the one the row wants now.
ConfirmedLatest(s, v, want) ==
    [s EXCEPT !.actual = s.desired,
              !.seen = Generation(task.node, task.expected),
              !.prov = IF want THEN "ACTIVE" ELSE "SYNCED_INACTIVE"]

\* Node and row agree at version v: what the row says now.
Confirmed(s, v, want) ==
    [s EXCEPT !.actual = v,
              !.seen = Generation(task.node, task.expected),
              !.status = IF @ = "PENDING" /\ want THEN "ACTIVE" ELSE @,
              !.prov = IF want THEN "ACTIVE" ELSE "SYNCED_INACTIVE"]

\* The node is ahead: force convergence with a version above both.
Bumped(s, v) ==
    [s EXCEPT !.desired = (IF @ > v THEN @ ELSE v) + 1, !.prov = "PENDING_UPDATE"]

\* What the row becomes, from the row as it is now under the lock.
Reconciled(s) ==
    LET v == task.copy.desired
        want == ShouldServe(task.copy)
    IN  CASE task.reply = "applied" /\ s.desired = v -> Confirmed(s, v, want)
          [] task.reply = "already_newer" /\ node[task.node].on = want ->
                 Confirmed(s, IF s.actual > v THEN s.actual ELSE v, want)
          [] task.reply \in {"already_newer", "fenced"} -> Bumped(s, v)
          [] OTHER -> [s EXCEPT !.prov = "PENDING_UPDATE"]

RecordResult ==
    /\ task # Idle /\ task.phase = "called"
    /\ \/ /\ sub' = IF HasRow THEN Reconciled(sub) ELSE sub
          /\ UNCHANGED events
       \/ /\ Event              \* the inventory cannot be read
          /\ HasRow /\ task.reply = "already_newer"
          /\ sub' = Bumped(sub, task.copy.desired)
    /\ task' = Idle
    /\ UNCHANGED <<overtaken, server, epoch, node, orphans, calls, inline, hardGone>>

\* _finalize_hard_deletes with finalize_hard_delete_subscription.
NodeConfirmed(s) == s.prov = "SYNCED_INACTIVE" /\ s.actual = s.desired

FinalizeHardDelete ==
    /\ task = Idle
    /\ HasRow /\ sub.hard /\ sub.status = "DISABLED"
    /\ NodeConfirmed(sub) \/ sub.origin = NoNode
    /\ sub' = NoRow /\ hardGone' = TRUE
    /\ UNCHANGED <<overtaken, server, epoch, node, orphans, calls, inline, task, events>>

\* _sweep_orphan_cleanups for one row: stale, or disabled on its node.
SweepOrphan(o) ==
    /\ task = Idle
    /\ IF HasRow /\ sub.origin = o.node /\ sub.status \in Live
       THEN orphans' = orphans \ {o} /\ UNCHANGED <<node, events>>
       ELSE /\ o.node \in Enabled
            /\ \/ \E a \in NodeAnswers(o.node, o.ver, FALSE, epoch[o.node]) :
                     /\ node' = [node EXCEPT ![o.node] = a.after]
                     /\ orphans' = IF \/ a.reply = "applied"
                                      \/ a.reply = "already_newer" /\ ~node[o.node].on
                                   THEN orphans \ {o} ELSE orphans
                     /\ UNCHANGED events
               \/ /\ Event
                  /\ \E a \in LostAnswers(o.node, o.ver, FALSE, epoch[o.node]) :
                        node' = [node EXCEPT ![o.node] = a.after]
                  /\ UNCHANGED orphans
    /\ UNCHANGED <<overtaken, sub, server, epoch, calls, inline, task, hardGone>>

\* _sweep_unallocated_subscriptions.
SweepUnallocated ==
    /\ task = Idle
    /\ HasRow /\ sub.origin = NoNode /\ sub.status \in Live
    /\ \E n \in Allocatable :
         sub' = [sub EXCEPT !.origin = n, !.desired = @ + 1,
                            !.prov = "PENDING_UPDATE", !.seen = Never]
    /\ UNCHANGED <<overtaken, server, epoch, node, orphans, calls, inline, task, hardGone, events>>

\* The health check of a cycle with nothing to sync still brings the epoch.
RefreshEpoch(n) ==
    /\ task = Idle
    /\ n \in Visited /\ epoch[n] # node[n].gen
    /\ epoch' = [epoch EXCEPT ![n] = node[n].gen]
    /\ UNCHANGED <<overtaken, sub, server, node, orphans, calls, inline, task, hardGone, events>>

-----------------------------------------------------------------------------
\* A subscription that was bought earlier and has settled on its origin.
Settled(n, trial) ==
    [NewRow(n, trial) EXCEPT !.status = "ACTIVE", !.prov = "ACTIVE",
                             !.actual = 1, !.seen = Generation(n, 1)]

\* A user without a row, or with a settled one.
Init ==
    /\ \/ /\ sub = NoRow
          /\ node = [n \in Nodes |-> [ver |-> 0, on |-> FALSE, gen |-> 1]]
       \/ \E n \in Nodes, trial \in BOOLEAN :
             /\ sub = Settled(n, trial)
             /\ node = [m \in Nodes |-> [ver |-> IF m = n THEN 1 ELSE 0,
                                         on |-> m = n, gen |-> 1]]
    /\ server = [n \in Nodes |-> "online"]
    /\ epoch = [n \in Nodes |-> 1]
    /\ orphans = {} /\ calls = {}
    /\ inline = Idle /\ task = Idle
    /\ hardGone = FALSE /\ overtaken = FALSE /\ events = 0

Operations ==
    \/ ProcessBuy \/ ProcessRenew \/ TrialActivate
    \/ TopupExecute \/ AddDeviceConfirm \/ AdminExtend
    \/ DeactivateUserSubscriptions \/ AdminResetTrial \/ QuotaExhausted

Worker ==
    \/ \E n \in Nodes : ReadBatch(n) \/ RefreshEpoch(n)
    \/ PlanTask \/ CallNode \/ RecordResult
    \/ FinalizeHardDelete \/ SweepUnallocated
    \/ \E o \in orphans : SweepOrphan(o)

Environment ==
    \/ \E n \in Nodes : NodeRestarts(n) \/ HealthChanges(n) \/ ServerDeleted(n)
    \/ TimePasses \/ Crash

Next ==
    \/ Operations
    \/ \E c \in calls : DispatchRuns(c)
    \/ InlineCall \/ InlineRecord
    \/ Worker
    \/ Environment

Spec == Init /\ [][Next]_vars

-----------------------------------------------------------------------------
Sessions == [node : Nodes, copy : Subscriptions, expected : Nat,
             reply : {"none", "confirmed", "unconfirmed"}]
Tasks == [phase : {"read", "planned", "called"}, node : Nodes, copy : Subscriptions,
          expected : Nat, reply : {"none", "applied", "already_newer", "fenced", "failed"}]

\* The tables, the nodes and what is in flight; no version is confirmed that
\* the row has not asked for.
TypeOK ==
    /\ sub # NoRow => sub \in Subscriptions /\ sub.actual <= sub.desired
    /\ server \in [Nodes -> ServerStates \cup {"gone"}]
    /\ epoch \in [Nodes -> Nat]
    /\ node \in [Nodes -> [ver : Nat, on : BOOLEAN, gen : Nat]]
    /\ orphans \subseteq [node : Nodes, ver : Nat]
    /\ calls \subseteq [node : Nodes, ver : Nat]
    /\ inline # Idle => inline \in Sessions
    /\ task # Idle => task \in Tasks
    /\ hardGone \in BOOLEAN /\ events \in 0..MaxEvents

\* A node that serves a client it is not the origin of has a pending clean-up:
\* the durable outbox, not the dispatch, is what keeps the credential from
\* being orphaned (comment at white_internet_service.py:624).
NoCredentialOrphaned ==
    \A n \in Rows : node[n].on /\ ~(HasRow /\ sub.origin = n) =>
        \E o \in orphans : o.node = n

\* The record the worker trusts is true at any time, whatever calls are under
\* way: versions equal, provisioning settled and the generation current mean
\* that the node does what the row says.  Excepted by overtaken: a late inline sync
\* that lifts a ban, and a top-up that moves back to a node with a call under way,
\* since a move by top-up alone does not give the subscription a new version.
SettledIsTrue ==
    HasRow /\ sub.origin \in Rows /\ ~overtaken /\ ~NeedsSync(sub, sub.origin)
    => node[sub.origin].on = ShouldServe(sub)

\* A visited origin serves exactly the subscription that is to be served.
OriginServes ==
    HasRow /\ ~overtaken /\ sub.origin \in Visited => node[sub.origin].on = ShouldServe(sub)

\* And every other enabled node of the product does not serve the client.
OthersAreOff == \A n \in Enabled : node[n].on => HasRow /\ sub.origin = n

\* DISABLED is final for a row: nothing the user or the worker does gives the
\* service back after a ban, a refund or a trial reset.
DisabledStays ==
    [][HasRow /\ sub.status = "DISABLED" => sub' = NoRow \/ sub'.status = "DISABLED"]_vars
=============================================================================
