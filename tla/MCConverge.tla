----------------------------- MODULE MCConverge -----------------------------
(* What the workers of White Internet and VLESS bring about in the end, and  *)
(* that the quota is metered exactly, on small instances of WhiteInternet,   *)
(* WhiteQuota and VlessSync.  Each scene is one instance on its own; the     *)
(* rows of the others rest in it.                                           *)
EXTENDS WhiteQuota, TLC

CONSTANTS a, b, n1,               \* nodes
          NoNode, NoRow

VARIABLES scene,
          sub, server, orphans, calls, inline, task, hardGone, overtaken, \* WhiteInternet
          user, fresh, booted, lock, edit, other, tasks, known, stale, vless,  \* VlessSync
          epoch, nodes, faults   \* of the scene's module

Life == INSTANCE WhiteInternet WITH
  Nodes <- {a, b}, MaxLeft <- 2, MaxEvents <- 2, node <- nodes, events <- faults

Reset == INSTANCE VlessSync WITH
  Nodes <- {n1}, Kinds <- {"feed", "reset", "crash", "lost"},
  MaxUuid <- 2, MaxVersion <- 6, MaxTasks <- 3, MaxEvents <- 3,
  row <- vless, node <- nodes, events <- faults

ofLife == <<sub, server, orphans, calls, inline, task, hardGone, overtaken>>
ofReset == <<user, fresh, booted, lock, edit, other, tasks, known, stale, vless>>
shared == <<epoch, nodes, faults>>
allVars == <<scene, vars, ofLife, ofReset, shared>>

NoLife ==
  /\ sub = Idle /\ server = Idle /\ orphans = Idle /\ calls = Idle
  /\ inline = Idle /\ task = Idle /\ hardGone = Idle /\ overtaken = Idle
NoReset ==
  /\ user = Idle /\ fresh = Idle /\ booted = Idle /\ lock = Idle
  /\ edit = Idle /\ other = Idle /\ tasks = Idle /\ known = Idle /\ stale = Idle
  /\ vless = Idle

ConvergeInit ==
  /\ Init
  /\ \/ scene = "life" /\ Life!Init /\ NoReset /\ ~row.trial
     \/ scene = "quota" /\ NoLife /\ NoReset /\ epoch = Idle /\ nodes = Idle /\ faults = Idle
     \/ scene = "reset" /\ Reset!Init /\ NoLife /\ ~row.trial

ConvergeNext ==
  \/ scene = "life" /\ Life!Next /\ UNCHANGED <<scene, vars, ofReset>>
  \/ scene = "quota" /\ Next /\ UNCHANGED <<scene, ofLife, ofReset, shared>>
  \/ scene = "reset" /\ Reset!Next /\ UNCHANGED <<scene, vars, ofLife>>

-----------------------------------------------------------------------------
lifeVars == Life!vars
resetVars == Reset!vars

\* The loop runs every RECONCILIATION_INTERVAL_SECONDS and visits every due
\* subscription and every pending clean-up; a request that has its reply
\* writes it.
LifeFairness ==
  /\ \A n \in {a, b} :
       /\ WF_lifeVars(scene = "life" /\ Life!ReadBatch(n))
       /\ WF_lifeVars(scene = "life" /\ Life!RefreshEpoch(n))
       /\ WF_lifeVars(scene = "life" /\ \E o \in {x \in orphans : x.node = n} : Life!SweepOrphan(o))
  /\ WF_lifeVars(scene = "life" /\ Life!PlanTask)
  /\ WF_lifeVars(scene = "life" /\ Life!CallNode)
  /\ WF_lifeVars(scene = "life" /\ Life!RecordResult)
  /\ WF_lifeVars(scene = "life" /\ Life!FinalizeHardDelete)
  /\ WF_lifeVars(scene = "life" /\ Life!SweepUnallocated)
  /\ WF_lifeVars(scene = "life" /\ Life!InlineCall)
  /\ WF_lifeVars(scene = "life" /\ Life!InlineRecord)
  /\ WF_lifeVars(scene = "life" /\ \E c \in calls : Life!DispatchRuns(c))

\* The traffic worker polls in a loop and finishes what it polled.
QuotaFairness ==
  /\ WF_vars(scene = "quota" /\ Poll)
  /\ WF_vars(scene = "quota" /\ ApplySnapshot)
  /\ WF_vars(scene = "quota" /\ SendWarning)

\* Tasks and sessions go on, and every pass of the worker looks at the list of
\* revocations again and again, whatever comes between.
ResetFairness ==
  /\ WF_resetVars(scene = "reset" /\ Reset!TaskStep)
  /\ WF_resetVars(scene = "reset" /\ Reset!SessionStep)
  /\ SF_resetVars(scene = "reset" /\ Reset!SweepRevocations)

ConvergeSpec ==
  /\ ConvergeInit /\ [][ConvergeNext]_allVars
  /\ LifeFairness /\ QuotaFairness /\ ResetFairness

-----------------------------------------------------------------------------
\* When operations and faults stop, a visited origin serves exactly the
\* subscriptions that are to be served, and every other enabled node none
\* (run_reconciliation_cycle).
Converges ==
  /\ <>[](scene = "life" => Life!OriginServes)
  /\ <>[](scene = "life" => Life!OthersAreOff)

\* A user at 90% of the quota is warned or leaves the threshold, also after a
\* crash between the record of the traffic and the message
\* (run_white_internet_traffic_pass).
WarnedEventually ==
  (scene = "quota" /\ MustBeWarned)
    ~> (scene = "quota" => NeedNotBeWarned)

\* A uuid that was replaced is off on every node in the end, and stays off,
\* although calls are lost, tasks die and old calls arrive late (the sweep of
\* pending_deprovision_uuids).
ReplacedIsRevoked ==
  \A u \in 1..2 :
    [](scene = "reset" /\ Reset!Replaced(u) => <>[](scene = "reset" => Reset!Revoked(u)))
=============================================================================
