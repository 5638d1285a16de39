----------------------------- MODULE VlessSync ------------------------------
(***************************************************************************)
(* The VLESS subscription of one user: its row with client uuid, version   *)
(* and revoked uuids, and the nodes that serve the uuid.  Transactions     *)
(* that lock the row and read it anew are one step; those that change a    *)
(* copy read without the lock are two, and write only the columns whose    *)
(* value differs from the copy's (SQLAlchemy's unit of work).  Background  *)
(* tasks read, call every node and record the outcome in separate steps.   *)
(* The nodes are external.                                                *)
(***************************************************************************)
EXTENDS Integers, FiniteSets

CONSTANTS
    Nodes,      \* the servers that are VLESS capable, active, with API access
    Kinds,      \* the operations explored, a subset of AllKinds
    MaxUuid,    \* bound on uuids created
    MaxVersion, \* bound on the version of the row
    MaxTasks,   \* bound on background tasks at a time
    MaxEvents,  \* bound on operations and faults of one behaviour
    Idle        \* no session

AllKinds == {"feed", "reset", "rotate", "ban", "unban", "renew", "expiry", "retain",
             "restart", "crash", "lost"}

VARIABLES
    row,     \* the row of vless_subscriptions
    user,    \* period of the subscription and ban
    fresh,   \* the next uuid
    node,    \* per node: generation of Xray, and per uuid version and state
    epoch,   \* per server: xray_instance_epoch
    booted,  \* per server: vless_synced_epoch
    lock,    \* the sync task that holds the row lock, or Idle
    edit,    \* the session that holds the User lock, with its copy, or Idle
    other,   \* a feed or administrator session with its copy, or Idle
    tasks,   \* background tasks and the step of the cleanup worker
    known,   \* history: uuids a device was given by the feed
    stale,   \* history: a handler has flushed a copy that the row had left behind
    events   \* how many bounded events have happened

vars == <<row, user, fresh, node, epoch, booted, lock, edit, other, tasks, known, stale, events>>

Uuids == 1..MaxUuid
Event(kind) == kind \in Kinds /\ events < MaxEvents /\ events' = events + 1

\* check_vpn_access.
Access(u) == u.period = "running" /\ ~u.banned

\* The flush of an entity whose copy was changed to new.
Flushed(copy, new) == [f \in DOMAIN row |-> IF new[f] # copy[f] THEN new[f] ELSE row[f]]

Free == lock = Idle

\* Are the credential, the version and the list of revocations of the row still
\* those that a handler has read?
FreshCopy(copy) == copy.uuid = row.uuid /\ copy.ver = row.ver /\ copy.pending = row.pending

-----------------------------------------------------------------------------
\* Background tasks.

Task(kind, by) ==
    [kind |-> kind, by |-> by, stage |-> "queued", uuid |-> 0, ver |-> 0, want |-> FALSE,
     off |-> FALSE, todo |-> {}, fine |-> TRUE, bump |-> FALSE, again |-> FALSE,
     rest |-> {}, popped |-> {}, was |-> 0]

\* ensure_synced_background(is_active) and deprovision_background(uuid, version).
SyncTask(off) == [Task("sync", "commit") EXCEPT !.off = off]
RevokeTask(u, v) == [Task("revoke", "commit") EXCEPT !.uuid = u, !.ver = v]

\* queue_post_commit_task, as far as the bound allows.
Queue(new) ==
    /\ Cardinality(tasks \cup new) <= MaxTasks
    /\ tasks' = tasks \cup new

Replace(t, new) == tasks' = (tasks \ {t}) \cup new

\* sync_user_to_nodes reads the row and the user without a lock.
StartSync(t) ==
    /\ t.kind = "sync" /\ t.stage = "queued"
    /\ Replace(t, {[t EXCEPT !.stage = "calling", !.uuid = row.uuid, !.ver = row.ver,
                             !.want = row.active /\ Access(user) /\ ~t.off,
                             !.todo = Nodes, !.was = row.synced,
                             !.rest = IF t.by = "commit" THEN row.pending ELSE {}]})
    /\ UNCHANGED <<row, user, fresh, node, epoch, booted, lock, edit, other, known, stale, events>>

StartRevoke(t) ==
    /\ t.kind = "revoke" /\ t.stage = "queued"
    /\ Replace(t, {[t EXCEPT !.stage = "calling", !.todo = Nodes]})
    /\ UNCHANGED <<row, user, fresh, node, epoch, booted, lock, edit, other, known, stale, events>>

\* External: a node refuses a version below the one it has for the uuid, and
\* says in which state it has it; the same version again is applied again.
Newer(n, u, version) == version < node[n].client[u].ver

NodeAfter(n, u, version, on) ==
    IF Newer(n, u, version) THEN node[n].client[u] ELSE [ver |-> version, on |-> on]

\* sync_client: ALREADY_NEWER counts as done only in the wanted state; a
\* mismatch asks for a new version.
CallNode(t, n) ==
    /\ t.stage = "calling" /\ n \in t.todo
    /\ \E lost \in {"nothing", "request", "answer"} :
         LET after == NodeAfter(n, t.uuid, t.ver, t.want)
             mismatch == lost = "nothing" /\ after.on # t.want
         IN  /\ node' = IF lost = "request" THEN node ELSE [node EXCEPT ![n].client[t.uuid] = after]
             /\ IF lost = "nothing" THEN UNCHANGED events ELSE Event("lost")
             /\ Replace(t, {[t EXCEPT !.todo = @ \ {n},
                                      !.fine = @ /\ lost = "nothing" /\ ~mismatch,
                                      !.bump = @ \/ (mismatch /\ t.kind = "sync")]})
    /\ UNCHANGED <<row, user, fresh, epoch, booted, lock, edit, other, known, stale>>

Called(t) == t \in tasks /\ t.stage = "calling" /\ t.todo = {}

\* bump_subscription_version reads uuid and version anew; desired_active stays
\* the one computed before the calls.
Bumped(t) ==
    [t EXCEPT !.uuid = row.uuid, !.ver = row.ver + 1, !.again = TRUE, !.bump = FALSE,
              !.fine = TRUE, !.todo = Nodes]

RetrySync(t) ==
    /\ Called(t) /\ t.kind = "sync" /\ t.bump /\ ~t.again
    /\ Free /\ row.ver < MaxVersion
    /\ lock' = "held"
    /\ Replace(t, {Bumped(t)})
    /\ UNCHANGED <<row, user, fresh, node, epoch, booted, edit, other, known, stale, events>>

\* The row as the session of a sync commits it.
Recorded(t) ==
    [row EXCEPT !.ver = IF t.again THEN t.ver ELSE @,
                !.synced = IF t.fine /\ t.ver # t.was THEN t.ver ELSE @]

\* The outcome is recorded; a task queued by a commit goes on with the uuids
\* that wait for their revocation.
FinishSync(t) ==
    /\ Called(t) /\ t.kind = "sync" /\ (t.again \/ ~t.bump)
    /\ t.again \/ Free
    /\ row' = Recorded(t) /\ lock' = IF t.again THEN Idle ELSE lock
    /\ Replace(t, {[RevokeTask(u, t.ver) EXCEPT !.by = "sync"] : u \in t.rest})
    /\ UNCHANGED <<user, fresh, node, epoch, booted, edit, other, known, stale, events>>

\* Variant: the revocation counts as done although a node did not answer.
PoppedEarly(t) == row.pending \ {t.uuid}

\* pop_pending_revoked_uuid once every node confirmed.
Popped(t) == IF t.fine THEN row.pending \ {t.uuid} ELSE row.pending

\* deprovision_background: a row that is switched off counts as synchronised with
\* the version of the revocation.  The sweep and ensure_synced_background only pop.
SyncedByRevoke(t) ==
    IF t.by = "commit" /\ t.fine /\ ~row.active /\ t.ver > row.synced THEN t.ver ELSE row.synced

FinishRevoke(t) ==
    /\ Called(t) /\ t.kind = "revoke" /\ Free
    /\ row' = [row EXCEPT !.pending = Popped(t), !.synced = SyncedByRevoke(t)]
    /\ Replace(t, {})
    /\ UNCHANGED <<user, fresh, node, epoch, booted, lock, edit, other, known, stale, events>>

\* sync_all_active_to_server writes the epoch the server has by then.
FinishBoot(t) ==
    /\ Called(t) /\ t.kind = "boot"
    /\ \E n \in t.rest :
         booted' = IF t.fine THEN [booted EXCEPT ![n] = epoch[n]] ELSE booted
    /\ Replace(t, {})
    /\ UNCHANGED <<row, user, fresh, node, epoch, lock, edit, other, known, stale, events>>

-----------------------------------------------------------------------------
\* The cleanup worker and the node monitor.

WorkerIdle == \A t \in tasks : t.by # "worker"

Work(new) ==
    /\ WorkerIdle
    /\ Queue(new)
    /\ UNCHANGED <<row, user, fresh, node, epoch, booted, lock, edit, other, known, stale, events>>

\* The three parts of _sweep_vless_pending_revocations.
SweepRevocations ==
    \E u \in row.pending : Work({[RevokeTask(u, row.ver) EXCEPT !.by = "worker"]})

SweepOutOfSync ==
    row.synced < row.ver /\ Work({[SyncTask(FALSE) EXCEPT !.by = "worker"]})

\* sync_all_active_to_server, by the worker or by the monitor; a second call
\* for the same server is skipped while one is under way.
SyncAllActive(n) ==
    /\ epoch[n] # booted[n]
    /\ \A t \in tasks : t.kind = "boot" => n \notin t.rest
    /\ LET serve == row.active /\ ~user.banned /\ Access(user)
       IN  Queue({[Task("boot", "boot") EXCEPT !.stage = "calling", !.uuid = row.uuid,
                      !.ver = row.ver, !.want = TRUE, !.rest = {n},
                      !.todo = IF serve THEN {n} ELSE {}]})
    /\ UNCHANGED <<row, user, fresh, node, epoch, booted, lock, edit, other, known, stale, events>>

\* A health check or a traffic poll records the epoch of the node.
EpochSeen(n) ==
    /\ epoch[n] # node[n].gen
    /\ epoch' = [epoch EXCEPT ![n] = node[n].gen]
    /\ UNCHANGED <<row, user, fresh, node, booted, lock, edit, other, tasks, known, stale, events>>

\* External: Xray restarts without its clients; the agent keeps the versions.
NodeRestarts(n) ==
    /\ Event("restart")
    /\ node' = [node EXCEPT ![n] = [gen |-> @.gen + 1,
                   client |-> [u \in Uuids |-> [@.client[u] EXCEPT !.on = FALSE]]]]
    /\ UNCHANGED <<row, user, fresh, epoch, booted, lock, edit, other, tasks, known, stale>>

\* The bot dies with its sessions and tasks.
Crash ==
    /\ Event("crash")
    /\ tasks' = {} /\ edit' = Idle /\ other' = Idle /\ lock' = Idle
    /\ UNCHANGED <<row, user, fresh, node, epoch, booted, known, stale>>

-----------------------------------------------------------------------------
\* Operations.

CanGrow(r) == r.ver < MaxVersion
CanRotate(r) == CanGrow(r) /\ fresh <= MaxUuid

\* Variant: the replaced uuid is not put on the list of revocations.
RotatedOnly(r) ==
    [r EXCEPT !.uuid = fresh, !.ver = @ + 1, !.hwids = FALSE]

\* reset_hwids, rotate_token, the ban and the retention: a new uuid, the old
\* one listed for revocation, the devices forgotten.
Rotated(r) ==
    [r EXCEPT !.uuid = fresh, !.ver = @ + 1, !.hwids = FALSE, !.pending = @ \cup {r.uuid}]

\* vless_sub_reset_confirm of the user.
VlessSubReset ==
    /\ Event("reset")
    /\ Access(user) /\ row.hwids
    /\ Free /\ CanRotate(row)
    /\ row' = Rotated(row) /\ fresh' = fresh + 1
    /\ Queue({RevokeTask(row.uuid, row.ver + 1), SyncTask(FALSE)})
    /\ UNCHANGED <<user, node, epoch, booted, lock, edit, other, known, stale>>

\* The administrator's rotation of the token and reset of the devices decide
\* from a user read before.
AdminOpens ==
    /\ Event("rotate")
    /\ other = Idle
    /\ \E kind \in {"rotate", "hwids"} :
         other' = [kind |-> kind, copy |-> row, target |-> Access(user)]
    /\ UNCHANGED <<row, user, fresh, node, epoch, booted, lock, edit, tasks, known, stale>>

AdminCommits(kind) ==
    /\ other # Idle /\ other.kind = kind /\ other' = Idle
    /\ Free
    /\ UNCHANGED <<user, node, epoch, booted, lock, edit, known, stale, events>>

AdminRotates ==
    /\ CanRotate(row)
    /\ row' = [Rotated(row) EXCEPT !.active = other.target]
    /\ fresh' = fresh + 1
    /\ Queue({RevokeTask(row.uuid, row.ver + 1), SyncTask(~other.target)})

AdminVlessRotate == AdminCommits("rotate") /\ AdminRotates

\* Without devices reset_hwids changes nothing; is_active is written all the
\* same, with no version, no revocation and no sync to follow it.
AdminVlessHwidReset ==
    /\ AdminCommits("hwids")
    /\ \/ row.hwids /\ AdminRotates
       \/ ~row.hwids /\ row' = [row EXCEPT !.active = other.target] /\ UNCHANGED <<fresh, tasks>>

\* The feed serves a device: register_hwid_atomic checks anew under the locks,
\* then the uuid is refreshed and handed out.
FeedServes ==
    /\ Event("feed")
    /\ Access(user) /\ row.active /\ edit = Idle /\ Free
    /\ row' = [row EXCEPT !.hwids = TRUE]
    /\ known' = known \cup {row.uuid}
    /\ tasks' = tasks \/ Queue({SyncTask(FALSE)})
    /\ UNCHANGED <<user, fresh, node, epoch, booted, lock, edit, other, stale>>

\* Without access the feed switches the row off, from an unlocked copy.
FeedOpens ==
    /\ Event("feed")
    /\ other = Idle /\ row.active /\ ~Access(user) /\ ~user.banned
    /\ other' = [kind |-> "feed", copy |-> row, target |-> FALSE]
    /\ UNCHANGED <<row, user, fresh, node, epoch, booted, lock, edit, tasks, known, stale>>

FeedDeactivates ==
    /\ other # Idle /\ other.kind = "feed"
    /\ Free /\ CanGrow(other.copy)
    /\ row' = Flushed(other.copy, [other.copy EXCEPT !.active = FALSE, !.ver = @ + 1])
    /\ other' = Idle
    /\ Queue({SyncTask(FALSE)})
    /\ stale' = (stale \/ ~FreshCopy(other.copy))
    /\ UNCHANGED <<user, fresh, node, epoch, booted, lock, edit, known, events>>

-----------------------------------------------------------------------------
\* Sessions that hold the User lock and read the row without its lock.

UserLocked(kind) ==
    /\ edit = Idle
    /\ edit' = [kind |-> kind, copy |-> row]
    /\ UNCHANGED <<row, user, fresh, node, epoch, booted, lock, other, tasks, known, stale>>

BanOpens == Event("ban") /\ ~user.banned /\ UserLocked("ban")
UnbanOpens == Event("unban") /\ user.banned /\ UserLocked("unban")
RenewOpens == Event("renew") /\ user.period # "running" /\ UserLocked("renew")

NetworkGraceOpens ==
    /\ user.period # "running" /\ row.active
    /\ UserLocked("network") /\ UNCHANGED events

RetentionOpens ==
    /\ Event("retain")
    /\ user.period = "old" /\ (row.active \/ row.hwids)
    /\ UserLocked("retain")

Edits(kind) == edit # Idle /\ edit.kind = kind /\ Free /\ edit' = Idle

\* _ban_user: the row is changed from the copy.
BanUser ==
    /\ Edits("ban") /\ CanRotate(edit.copy)
    /\ row' = Flushed(edit.copy, [Rotated(edit.copy) EXCEPT !.active = FALSE])
    /\ user' = [user EXCEPT !.banned = TRUE]
    /\ fresh' = fresh + 1
    /\ Queue({RevokeTask(edit.copy.uuid, edit.copy.ver + 1)})
    /\ stale' = (stale \/ ~FreshCopy(edit.copy))
    /\ UNCHANGED <<node, epoch, booted, lock, other, known, events>>

\* _unban_user.
UnbanUser ==
    /\ Edits("unban") /\ CanGrow(edit.copy)
    /\ user' = [user EXCEPT !.banned = FALSE]
    /\ IF user.period = "running"
       THEN /\ row' = Flushed(edit.copy, [edit.copy EXCEPT !.active = TRUE, !.ver = @ + 1,
                                              !.pending = @ \ {edit.copy.uuid}])
            /\ Queue({SyncTask(FALSE)})
       ELSE UNCHANGED <<row, tasks>>
    /\ stale' = (stale \/ ~FreshCopy(edit.copy))
    /\ UNCHANGED <<fresh, node, epoch, booted, lock, other, known, events>>

\* _sync_access_state on the copy.
Synced(copy, target) ==
    IF copy.active # target THEN [copy EXCEPT !.active = target, !.ver = @ + 1] ELSE copy

\* extend_subscription and its _sync_access_state.
Renew ==
    /\ Edits("renew") /\ CanGrow(edit.copy)
    /\ user' = [user EXCEPT !.period = "running"]
    /\ row' = Flushed(edit.copy, Synced(edit.copy, ~user.banned))
    /\ IF edit.copy.active = user.banned THEN Queue({SyncTask(user.banned)}) ELSE UNCHANGED tasks
    /\ stale' = (stale \/ ~FreshCopy(edit.copy))
    /\ UNCHANGED <<fresh, node, epoch, booted, lock, other, known, events>>

\* _cleanup_expired_vless_network_grace.
NetworkGrace ==
    /\ Edits("network") /\ CanGrow(edit.copy)
    /\ row' = Flushed(edit.copy, Synced(edit.copy, FALSE))
    /\ IF edit.copy.active THEN Queue({SyncTask(TRUE)}) ELSE UNCHANGED tasks
    /\ stale' = (stale \/ ~FreshCopy(edit.copy))
    /\ UNCHANGED <<user, fresh, node, epoch, booted, lock, other, known, events>>

\* _cleanup_expired_vless_retention_grace: the row is read anew under its lock
\* and the uuid is replaced whether or not devices are left.
RetentionGrace ==
    /\ Edits("retain")
    /\ LET left == Flushed(edit.copy, Synced(edit.copy, FALSE))
       IN  /\ CanRotate(left)
           /\ row' = [Rotated(left) EXCEPT !.active = FALSE]
           /\ Queue({RevokeTask(left.uuid, left.ver + 1), SyncTask(TRUE)})
    /\ fresh' = fresh + 1
    /\ stale' = (stale \/ ~FreshCopy(edit.copy))
    /\ UNCHANGED <<user, node, epoch, booted, lock, other, known, events>>

\* The paid period ends with the network grace, later the retention.
TimePasses ==
    /\ Event("expiry")
    /\ user.period # "old" /\ edit = Idle /\ other = Idle
    /\ user' = [user EXCEPT !.period = IF @ = "running" THEN "over" ELSE "old"]
    /\ UNCHANGED <<row, fresh, node, epoch, booted, lock, edit, other, tasks, known, stale>>

-----------------------------------------------------------------------------
\* get_or_create_subscription made the row; no node knows it yet.
Init ==
    /\ row = [uuid |-> 1, ver |-> 1, active |-> TRUE, hwids |-> FALSE, pending |-> {},
              synced |-> 0]
    /\ user = [period |-> "running", banned |-> FALSE]
    /\ fresh = 2
    /\ node = [n \in Nodes |-> [gen |-> 1, client |-> [u \in Uuids |-> [ver |-> 0, on |-> FALSE]]]]
    /\ epoch = [n \in Nodes |-> 1] /\ booted = [n \in Nodes |-> 1]
    /\ lock = Idle /\ edit = Idle /\ other = Idle
    /\ tasks = {} /\ known = {} /\ stale = FALSE /\ events = 0

TaskStep ==
    \E t \in tasks :
        \/ StartSync(t) \/ StartRevoke(t) \/ (\E n \in Nodes : CallNode(t, n))
        \/ RetrySync(t) \/ FinishSync(t) \/ FinishRevoke(t) \/ FinishBoot(t)

SessionStep ==
    \/ AdminVlessRotate \/ AdminVlessHwidReset \/ FeedDeactivates
    \/ BanUser \/ UnbanUser \/ Renew \/ NetworkGrace \/ RetentionGrace

Requests ==
    \/ VlessSubReset \/ AdminOpens \/ FeedServes \/ FeedOpens
    \/ BanOpens \/ UnbanOpens \/ RenewOpens \/ RetentionOpens \/ TimePasses

Next ==
    \/ TaskStep \/ SessionStep \/ Requests
    \/ NetworkGraceOpens
    \/ SweepRevocations \/ SweepOutOfSync
    \/ \E n \in Nodes : SyncAllActive(n) \/ EpochSeen(n) \/ NodeRestarts(n)
    \/ Crash

Spec == Init /\ [][Next]_vars

-----------------------------------------------------------------------------
\* What an instance has to satisfy: there is a first uuid and a first version,
\* and no session is taken for the one that holds the lock of the row.
SyncConstants == MaxUuid \in Nat \ {0} /\ MaxVersion \in Nat \ {0} /\ Idle # "held"

-----------------------------------------------------------------------------
TypeOK ==
    /\ row.uuid \in Uuids /\ row.ver \in 1..MaxVersion /\ row.synced \in 0..MaxVersion
    /\ row.pending \subseteq Uuids
    /\ user.period \in {"running", "over", "old"}
    /\ fresh \in 2..(MaxUuid + 1) /\ row.uuid < fresh
    /\ known \subseteq Uuids /\ stale \in BOOLEAN
    /\ \A n \in Nodes, u \in Uuids : node[n].client[u].ver \in 0..MaxVersion

\* A uuid that some node serves is the row's, is listed for revocation, or is
\* none that was ever given to a device: otherwise nobody would switch it off.
CredentialListed ==
    \A n \in Nodes, u \in known :
        node[n].client[u].on => u \in {row.uuid} \cup row.pending

\* The uuid in use never waits for its own revocation, or the sweep would cut
\* off a customer with access.
InUseNotRevoked == row.uuid \notin row.pending

\* No version counts as synchronised that the row has not reached, be it by a
\* sync or by a revocation that is recorded late: the sweep would pass over the
\* next changes of the row.
SyncedInTurn == row.synced <= row.ver

\* Nothing in use is revoked, nothing served is forgotten, and nothing counts as
\* synchronised beyond the version of the row, the last two unless an update of
\* the row was lost: bans, renewals, graces and feeds flush what they have
\* changed in a copy, read before the lock of the row.  A change without a new
\* version (AdminVlessHwidReset) is beyond what the columns can tell.
CredentialsKept == InUseNotRevoked /\ (~stale => CredentialListed /\ SyncedInTurn)

\* A uuid that was replaced, and is off on every node.
Replaced(u) == u \in known /\ u # row.uuid
Revoked(u) == \A n \in Nodes : ~node[n].client[u].on
=============================================================================
