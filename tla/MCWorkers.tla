----------------------------- MODULE MCWorkers -----------------------------
(* The background workers that tell somebody something: those of             *)
(* BackgroundWorkers, and small instances of NodeHealth and Reminders.  Each *)
(* scene is one component on its own: the product would show nothing more.   *)
EXTENDS BackgroundWorkers, TLC

VARIABLES scene,
          row, st, check, toggle, streak,   \* NodeHealth, with up, sent and faults
          sub, user, last, now, copy        \* Reminders, with walled, turn, sent and events

\* Lost messages and failing saves; and crashes, after which an outage is
\* still told, and its end if it was recorded.
Nodes == INSTANCE NodeHealth WITH
  Kinds <- {"dberror", "lost", "flip"}, MaxEvents <- 6, Cap <- 3, Required <- 3,
  told <- news, events <- faults
Crashing == INSTANCE NodeHealth WITH
  Kinds <- {"crash", "flip"}, MaxEvents <- 4, Cap <- 3, Required <- 3,
  told <- news, events <- faults

Ingress == INSTANCE IngressAlerts WITH
  Relay <- FALSE, Fails <- 3,
  Kinds <- {"lost", "toggle", "reminder", "flip"}, MaxEvents <- 6, told <- news, events <- faults
Restarted == INSTANCE IngressAlerts WITH
  Relay <- FALSE, Fails <- 3,
  Kinds <- {"crash", "flip"}, MaxEvents <- 6, told <- news, events <- faults
Relays == INSTANCE IngressAlerts WITH
  Relay <- TRUE, Kinds <- {"lost", "toggle", "flip"}, MaxEvents <- 6, told <- news, events <- faults
\* A relay whose news may be forgotten: nothing is promised of the end of it.
Forgetful == INSTANCE IngressAlerts WITH
  Relay <- TRUE, Kinds <- {"lost", "reminder", "crash", "flip"}, MaxEvents <- 5,
  told <- news, events <- faults

Remind == INSTANCE Reminders WITH
  MaxNow <- 4, MaxEvents <- 2, w <- turn, told <- sent,
  Kinds <- {"locked", "crash", "fails", "extend", "ban", "block"}

\* An administrator's extension writes back flags it has read before.
ByHand == INSTANCE Reminders WITH
  MaxNow <- 4, MaxEvents <- 2, w <- turn, told <- sent,
  Kinds <- {"admin", "crash"}

ASSUME InstancesFit == MaxTries \in Nat /\ Alerts!AlertConstants

ofNodes == <<row, st, check, toggle, streak>>
ofIngress == <<mem, db, alert, cut>>
ofCredit == <<meta, status, credit, blocked, old, cached, req, dropped>>
ofRemind == <<sub, user, last, now, copy>>
ofMonitor == <<ofNodes, ofIngress, up, news, faults>>
ofNotices == <<ofCredit, ofRemind, walled, turn, sent, events>>
allVars == <<scene, vars, ofMonitor, ofNotices>>

NoNodes == row = Idle /\ st = Idle /\ check = Idle /\ toggle = Idle /\ streak = Idle
NoIngress == mem = Idle /\ db = Idle /\ alert = Idle /\ cut = Idle
NoCredit ==
  /\ meta = Idle /\ status = Idle /\ credit = Idle /\ blocked = Idle
  /\ old = Idle /\ cached = Idle /\ req = Idle /\ dropped = Idle
NoRemind == sub = Idle /\ user = Idle /\ last = Idle /\ now = Idle /\ copy = Idle
NoMonitor == NoNodes /\ NoIngress /\ up = Idle /\ news = Idle /\ faults = Idle
NoNotices ==
  NoCredit /\ NoRemind /\ walled = Idle /\ turn = Idle /\ sent = Idle /\ events = Idle

WorkersInit ==
  /\ Init
  /\ \/ scene = "supervisor" /\ NoMonitor /\ NoNotices
     \/ scene \in {"nodes", "crashing"} /\ Nodes!Init /\ NoIngress /\ NoNotices
     \/ scene \in {"ingress", "restarted", "relays", "forgetful"} /\ Ingress!Init /\ NoNodes /\ NoNotices
     \/ scene = "credit" /\ Credit!Init /\ NoRemind /\ NoMonitor
     \/ scene \in {"remind", "byHand"} /\ Remind!Init /\ NoCredit /\ NoMonitor

notNodes == <<scene, vars, ofIngress, ofNotices>>
notIngress == <<scene, vars, ofNodes, ofNotices>>

WorkersNext ==
  \/ scene = "supervisor" /\ Next /\ UNCHANGED <<scene, ofMonitor, ofNotices>>
  \/ scene = "nodes" /\ Nodes!Next /\ UNCHANGED notNodes
  \/ scene = "crashing" /\ Crashing!Next /\ UNCHANGED notNodes
  \/ scene = "ingress" /\ Ingress!Next /\ UNCHANGED notIngress
  \/ scene = "restarted" /\ Restarted!Next /\ UNCHANGED notIngress
  \/ scene = "relays" /\ Relays!Next /\ UNCHANGED notIngress
  \/ scene = "forgetful" /\ Forgetful!Next /\ UNCHANGED notIngress
  \/ scene = "credit" /\ Credit!Next /\ UNCHANGED <<scene, vars, ofMonitor, ofRemind>>
  \/ scene = "remind" /\ Remind!Next /\ UNCHANGED <<scene, vars, ofMonitor, ofCredit>>
  \/ scene = "byHand" /\ ByHand!Next /\ UNCHANGED <<scene, vars, ofMonitor, ofCredit>>

-----------------------------------------------------------------------------
nodeVars == Nodes!vars
ingressVars == Ingress!vars
creditVars == Credit!vars
remindVars == Remind!vars

\* Every worker's loop goes on, an admin's handler ends, and time passes.
WorkersFairness ==
  /\ WF_vars(scene = "supervisor" /\ RoundBegins)
  /\ \A k \in Workers :
       /\ WF_vars(scene = "supervisor" /\ Supervises(k))
       /\ WF_vars(scene = "supervisor" /\ Elapses(k))
  /\ WF_nodeVars(\/ scene = "nodes" /\ Nodes!Monitor
                 \/ scene = "crashing" /\ Crashing!Monitor)
  /\ WF_nodeVars(scene \in {"nodes", "crashing"} /\ Nodes!ToggleCommits)
  /\ WF_ingressVars(\/ scene \in {"ingress", "restarted"} /\ Ingress!Evaluate
                    \/ scene = "relays" /\ Relays!Evaluate)
  /\ WF_ingressVars(\/ scene \in {"ingress", "restarted"} /\ Ingress!Deliver
                    \/ scene = "relays" /\ Relays!Deliver)
  /\ WF_ingressVars(\/ scene \in {"ingress", "restarted"} /\ Ingress!Record
                    \/ scene = "relays" /\ Relays!Record)
  /\ WF_creditVars(scene = "credit" /\ Credit!Worker)
  /\ WF_creditVars(scene = "credit" /\ Credit!CacheExpires)
  /\ WF_creditVars(scene = "credit" /\ Credit!Ages)
  /\ WF_remindVars(scene = "remind" /\ Remind!Worker)
  /\ WF_remindVars(scene = "remind" /\ Remind!BackoffEnds)

WorkersSpec == WorkersInit /\ [][WorkersNext]_allVars /\ WorkersFairness

-----------------------------------------------------------------------------
OfNode == scene \in {"nodes", "crashing"}
OfIngress == scene \in {"ingress", "restarted", "relays"}

\* An outage of a node, an ingress or a relay that lasts is told, and so is its
\* end, although messages are lost, saves fail and the bot restarts, unless a
\* crash cut off the record of it (NodeHealth, IngressAlerts).
AlertsAreTold ==
  /\ (OfNode /\ ~up /\ row.active) ~> (OfNode => news = "problem" \/ up \/ ~row.active)
  /\ (OfNode /\ up /\ news = "problem") ~> (OfNode => news # "problem" \/ ~up \/ ~row.active)
  /\ (scene \in {"ingress", "restarted"} /\ ~up)
       ~> (scene \in {"ingress", "restarted"} => news = "problem" \/ up)
  /\ (OfIngress /\ up /\ news = "problem" /\ ~cut) ~> (OfIngress => news # "problem" \/ ~up \/ cut)

\* Every debt of a paid order ends: by a message, by the last attempt, or with
\* the retention of an owner who has blocked the bot (CreditNotify).
DebtsEnd ==
  \A p \in {"owner", "ref"} :
    (scene = "credit" /\ status = "paid" /\ meta.debt[p])
      ~> (scene = "credit" => status # "paid" \/ ~meta.debt[p])

\* "P0-4": failed attempts postpone a reminder, they do not lose it; and within
\* a period reminders become more urgent (Reminders).
DueIsTold ==
  /\ \A p \in {"vpn", "wi"} :
       (scene = "remind" /\ Remind!Due(p)) ~> (scene = "remind" => ~Remind!Due(p))
  /\ [][(scene \in {"remind", "byHand"}) => Remind!GrowsUrgent]_allVars

\* What somebody must be told is told in the end: outages to the admins, credits
\* to owners and referrers, the end of a period to its user.
ToldInTheEnd ==
  /\ AlertsAreTold /\ DebtsEnd /\ DueIsTold
  /\ [](scene = "nodes" => Nodes!TypeOK) /\ [](scene = "remind" => Remind!TypeOK)
=============================================================================
