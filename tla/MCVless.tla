------------------------------ MODULE MCVless ------------------------------
(* Small instances of DeviceSlots, VlessSync and VlessTraffic.  Each scene   *)
(* is one instance on its own, with the operations whose interplay it is     *)
(* about: the product of the scenes would show nothing more.  In the scenes  *)
(* of the other two the row of DeviceSlots rests.                            *)
EXTENDS VlessSubscription, TLC

CONSTANTS n1, n2   \* nodes, alike

VARIABLES scene

\* Requests of a VLESS subscription; and those of White Internet, which decide
\* from the row they have read before its lock, one at a time.  A new link empties
\* the registry as a reset does, so it is looked at in the second.
Feeds == INSTANCE DeviceSlots WITH Fresh <- TRUE, MaxToken <- 1
Single == INSTANCE DeviceSlots WITH Fresh <- FALSE
OneAtATime == Cardinality({s \in Sessions : request[s] # Idle}) <= 1

\* Resets and rotations with lost answers and crashes; the end and the start
\* of a period; the administrator's resets at its end; bans and restarts of the node.
Reset == INSTANCE VlessSync WITH
  Kinds <- {"feed", "reset", "rotate", "crash", "lost"}, MaxVersion <- 4, row <- vless
Life == INSTANCE VlessSync WITH Kinds <- {"feed", "expiry", "renew", "retain"}, row <- vless
Admin == INSTANCE VlessSync WITH
  Kinds <- {"feed", "rotate", "expiry"}, MaxTasks <- 2, MaxUuid <- 2, row <- vless
Ban == INSTANCE VlessSync WITH
  Kinds <- {"feed", "reset", "ban", "unban", "restart"}, MaxVersion <- 3, row <- vless

ASSUME InstancesFit == Sync!SyncConstants /\ Traffic!TrafficConstants

ofSync == <<fresh, epoch, booted, lock, edit, other, tasks, known, stale>>
ofTraffic == <<sums, job, month, alerted, sending, served, broke, told, crashes>>
common == <<vless, user, node, events>>
allVars == <<scene, vars, ofSync, ofTraffic, common>>

NoSync ==
  /\ fresh = Idle /\ epoch = Idle /\ booted = Idle /\ lock = Idle /\ edit = Idle
  /\ other = Idle /\ tasks = Idle /\ known = Idle /\ stale = Idle
NoTraffic ==
  /\ sums = Idle /\ job = Idle /\ month = Idle /\ alerted = Idle /\ sending = Idle
  /\ served = Idle /\ broke = Idle /\ told = Idle /\ crashes = Idle
NoCommon == vless = Idle /\ user = Idle /\ node = Idle /\ events = Idle
Resting == row.limit = 1

VlessInit ==
  /\ Init
  /\ \/ scene \in {"slots", "single"} /\ NoSync /\ NoTraffic /\ NoCommon
     \/ scene \in {"reset", "life", "admin", "ban"} /\ Resting /\ Reset!Init /\ NoTraffic
     \/ scene = "traffic" /\ Resting /\ Traffic!Init /\ NoSync

VlessNext ==
  \/ /\ UNCHANGED <<scene, ofSync, ofTraffic, common>>
     /\ \/ scene = "slots" /\ Feeds!Next
        \/ scene = "single" /\ Single!Next /\ OneAtATime'
  \/ scene = "reset" /\ Reset!Next /\ UNCHANGED <<scene, vars, ofTraffic>>
  \/ scene = "life" /\ Life!Next /\ UNCHANGED <<scene, vars, ofTraffic>>
  \/ scene = "admin" /\ Admin!Next /\ UNCHANGED <<scene, vars, ofTraffic>>
  \/ scene = "ban" /\ Ban!Next /\ UNCHANGED <<scene, vars, ofTraffic>>
  \/ scene = "traffic" /\ Traffic!Next /\ UNCHANGED <<scene, vars, ofSync>>

VlessSpec == VlessInit /\ [][VlessNext]_allVars

Alike == Permutations({n1, n2}) \cup Permutations(Hwids) \cup Permutations(Sessions)

=============================================================================
