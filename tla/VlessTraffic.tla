----------------------------- MODULE VlessTraffic -----------------------------
(***************************************************************************)
(* Counting one user's VLESS traffic.  Each node counts for itself, from   *)
(* zero in every epoch and for every uuid; a pass of the worker asks all   *)
(* nodes and then records, node by node, the difference to the last        *)
(* snapshot on the subscription, the sum of the server, and the alert of   *)
(* the monthly quota.                                                      *)
(***************************************************************************)
EXTENDS Naturals, FiniteSets

CONSTANTS
    Nodes,
    Quota,      \* TRAFFIC_QUOTA_BYTES
    MaxServed, MaxMonth, Kinds, MaxEvents, None, Idle

VARIABLES
    row,      \* the subscription: uuid, _fresh, snapshots of the nodes
    user,     \* total_traffic_bytes, monthly_vless_bytes, traffic_cycle
    sums,     \* monthly_traffic_bytes of each server, with its cycle
    node,     \* epoch of each node, and its counter of the current uuid
    job,      \* a pass: answers, the nodes to record, the month, who has moved
    month,    \* the month by the clock
    alerted, sending,   \* _quota_alerted, and the month of an alert on its way
    served, broke,      \* history: bytes served; a counter was started anew
    told, crashes,      \* history: alerts accepted in each month; restarts of the bot
    events

vars == <<row, user, sums, node, job, month, alerted, sending, served, broke, told, crashes, events>>
Event(kind) == kind \in Kinds /\ events < MaxEvents /\ events' = events + 1
Months == 1..MaxMonth
NoSnaps == [n \in Nodes |-> None]

-----------------------------------------------------------------------------
\* The nodes.
Serves(n) ==
    /\ served < MaxServed /\ served' = served + 1
    /\ node' = [node EXCEPT ![n].count = @ + 1]
    /\ UNCHANGED <<row, user, sums, job, month, alerted, sending, broke, told, crashes, events>>

\* A restart is a new epoch; a counter may also be reset within one.
StartsAnew(n) ==
    /\ Event("anew") /\ broke' = TRUE
    /\ \E epoch \in {node[n].epoch, node[n].epoch + 1} : node' = [node EXCEPT ![n] = [epoch |-> epoch, count |-> 0]]
    /\ UNCHANGED <<row, user, sums, job, month, alerted, sending, served, told, crashes>>

\* rotate_token and reset_hwids: a new uuid, whose counters are fresh.
Rotates ==
    /\ Event("rotate") /\ broke' = TRUE
    /\ row' = [uuid |-> row.uuid + 1, fresh |-> TRUE, snaps |-> NoSnaps]
    /\ node' = [n \in Nodes |-> [node[n] EXCEPT !.count = 0]]
    /\ UNCHANGED <<user, sums, job, month, alerted, sending, served, told, crashes>>

MonthTurns ==
    /\ month < MaxMonth /\ month' = month + 1
    /\ UNCHANGED <<row, user, sums, node, job, alerted, sending, served, broke, told, crashes, events>>

-----------------------------------------------------------------------------
\* _vless_traffic_sync_once: all nodes are asked, without a transaction; the
\* time of the pass is taken when all have answered or failed.
PassBegins ==
    /\ job = Idle /\ job' = [got |-> NoSnaps, ask |-> Nodes, rest |-> {}, at |-> month, of |-> None, delta |-> 0]
    /\ UNCHANGED <<row, user, sums, node, month, alerted, sending, served, broke, told, crashes, events>>

Asks(n) ==
    /\ job # Idle /\ n \in job.ask
    /\ \/ /\ job' = [job EXCEPT !.ask = @ \ {n}, !.at = month, !.rest = @ \cup {n},
                                !.got[n] = [uuid |-> row.uuid, epoch |-> node[n].epoch, count |-> node[n].count]]
          /\ UNCHANGED events
       \/ Event("fails") /\ job' = [job EXCEPT !.ask = @ \ {n}, !.at = month]
    /\ UNCHANGED <<row, user, sums, node, month, alerted, sending, served, broke, told, crashes>>

\* What a node has counted since its last snapshot.
Delta(old, new) ==
    CASE old = None -> IF row.fresh THEN new.count ELSE 0
      [] old # None /\ (old.epoch # new.epoch \/ new.count < old.count) -> new.count
      [] OTHER -> new.count - old.count

\* Variant: any answer is recorded on the row.
AnyUuid(got) == TRUE

\* expected_uuid, looked at again under the lock.
SameUuid(got) == got.uuid = row.uuid

\* What comes late for a month that is over counts in the total only.
Charged(d) ==
    IF d = 0 THEN user
    ELSE [total |-> user.total + d,
          month |-> CASE user.cycle > job.at -> user.month
                      [] user.cycle = job.at -> user.month + d
                      [] OTHER               -> d,
          cycle |-> IF user.cycle > job.at THEN user.cycle ELSE job.at]

\* record_vless_traffic_atomic, in a transaction for each node.
Records(n) ==
    /\ job # Idle /\ job.ask = {} /\ job.of = None /\ n \in job.rest
    /\ LET got == job.got[n]
           d == IF SameUuid(got) THEN Delta(row.snaps[n], got) ELSE 0 IN
       \/ /\ row' = IF SameUuid(got)
                    THEN [row EXCEPT !.snaps[n] = [epoch |-> got.epoch, count |-> got.count]] ELSE row
          /\ user' = Charged(d)
          /\ job' = [job EXCEPT !.delta = d, !.rest = @ \ {n}, !.of = IF d > 0 THEN n ELSE None]
          /\ UNCHANGED events
       \/ Event("fails") /\ job' = [job EXCEPT !.rest = @ \ {n}] /\ UNCHANGED <<row, user>>
    /\ UNCHANGED <<sums, node, month, alerted, sending, served, broke, told, crashes>>

\* The sum of the server, in a transaction of its own.
SumsUp ==
    /\ job # Idle /\ job.delta > 0
    /\ \/ /\ sums' = [sums EXCEPT ![job.of] =
                        [cycle |-> job.at, bytes |-> job.delta + IF @.cycle = job.at THEN @.bytes ELSE 0]]
          /\ job' = [job EXCEPT !.delta = 0] /\ UNCHANGED events
       \/ Event("fails") /\ job' = [job EXCEPT !.delta = 0, !.of = None] /\ UNCHANGED sums
    /\ UNCHANGED <<row, user, node, month, alerted, sending, served, broke, told, crashes>>

\* The month is marked before the alert is sent.
Marked(m) == alerted \cup {m}

\* _check_user_quota_alert: the alert is sent in the background.
LooksAtQuota ==
    /\ job # Idle /\ job.of # None /\ job.delta = 0
    /\ IF user.cycle = job.at /\ user.month > Quota /\ job.at \notin alerted
       THEN alerted' = Marked(job.at) /\ sending' = sending \cup {<<job.at, job.of>>}
       ELSE UNCHANGED <<alerted, sending>>
    /\ job' = [job EXCEPT !.of = None]
    /\ UNCHANGED <<row, user, sums, node, month, served, broke, told, crashes, events>>

PassEnds ==
    /\ job # Idle /\ job.ask = {} /\ job.rest = {} /\ job.of = None /\ job' = Idle
    /\ UNCHANGED <<row, user, sums, node, month, alerted, sending, served, broke, told, crashes, events>>

\* _send_quota_alert: when no administrator was reached, the mark is taken off.
SendsAlert(a) ==
    /\ a \in sending /\ sending' = sending \ {a}
    /\ \/ told' = [told EXCEPT ![a[1]] = @ + 1] /\ UNCHANGED <<alerted, events>>
       \/ Event("fails") /\ alerted' = alerted \ {a[1]} /\ UNCHANGED told
    /\ UNCHANGED <<row, user, sums, node, job, month, served, broke, crashes>>

Crash ==
    /\ Event("crash") /\ job' = Idle /\ alerted' = {} /\ sending' = {} /\ crashes' = crashes + 1
    /\ UNCHANGED <<row, user, sums, node, month, served, broke, told>>

Init ==
    /\ \E fresh \in BOOLEAN :
         row = [uuid |-> 1, fresh |-> fresh, snaps |-> NoSnaps] /\ broke = ~fresh
    /\ user = [total |-> 0, month |-> 0, cycle |-> 0]
    /\ sums = [n \in Nodes |-> [cycle |-> 0, bytes |-> 0]]
    /\ node = [n \in Nodes |-> [epoch |-> 1, count |-> 0]] /\ job = Idle /\ month = 1
    /\ alerted = {} /\ sending = {} /\ served = 0
    /\ told = [m \in Months |-> 0] /\ crashes = 0 /\ events = 0

Next ==
    \/ Rotates \/ MonthTurns \/ PassBegins \/ SumsUp \/ LooksAtQuota \/ PassEnds \/ Crash
    \/ \E n \in Nodes : Serves(n) \/ StartsAnew(n) \/ Asks(n) \/ Records(n)
    \/ \E a \in sending : SendsAlert(a)

Spec == Init /\ [][Next]_vars

-----------------------------------------------------------------------------
\* What an instance has to satisfy: there is a first month, and what stands for
\* no snapshot is none.
TrafficConstants ==
    /\ IsFiniteSet(Nodes) /\ MaxServed \in Nat /\ MaxMonth \in Nat \ {0}
    /\ None \notin [epoch : Nat, count : Nat]

-----------------------------------------------------------------------------
TypeOK ==
    /\ user.total \in Nat /\ user.month \in 0..user.total /\ user.cycle \in 0..MaxMonth
    /\ \A n \in Nodes : sums[n].cycle \in 0..MaxMonth
    /\ alerted \subseteq Months /\ sending \subseteq Months \X Nodes

\* record_vless_traffic_atomic: no byte is counted twice, whatever restarts,
\* rotates, fails or crashes between an answer and its record.
NeverOvercounted == user.total <= served

\* The bytes that a node has counted since its last snapshot, each by its number.
Recorded(n) == IF row.snaps[n] = None THEN 0 ELSE row.snaps[n].count
Unrecorded == {b \in Nodes \X (1..MaxServed) : Recorded(b[1]) < b[2] /\ b[2] <= node[b[1]].count}

\* While no counter starts anew nothing is lost either: failures and crashes
\* only put off the record.
NothingLost == ~broke => user.total + Cardinality(Unrecorded) = served

\* The administrators are told once a month, and again only after a restart.
ToldOnce == \A m \in Months : told[m] <= 1 + crashes

==============================================================================
