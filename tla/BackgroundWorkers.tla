--------------------------- MODULE BackgroundWorkers ---------------------------
(***************************************************************************)
(* The workers in one state: their supervisor, the worker that tells of    *)
(* credits (CreditNotify), and the monitor's alerts of an ingress, a CDN   *)
(* or a relay (IngressAlerts).  The supervisor knows nothing of what they  *)
(* do; a restart of the process is an event of each of them.               *)
(***************************************************************************)
EXTENDS Supervisor

CONSTANTS
    MaxTries, CreditKinds, MaxEvents,              \* CreditNotify
    Relay, Fails, Successes, AlertKinds, MaxFaults, \* IngressAlerts
    Idle

VARIABLES
    meta, status, credit, blocked, walled, old, cached, turn, req, sent, dropped, events,
    mem, db, alert, up, news, cut, faults

Credit == INSTANCE CreditNotify WITH Kinds <- CreditKinds, w <- turn, told <- sent
Alerts == INSTANCE IngressAlerts WITH
    Kinds <- AlertKinds, MaxEvents <- MaxFaults, told <- news, events <- faults

-----------------------------------------------------------------------------
\* While the admins' last news of an ingress is an outage, memory or row still
\* knows; and a debt is gone only when it was paid by a message or given up for
\* a reason the worker knows (IngressAlerts, CreditNotify).
NewsIsKept ==
    /\ db # Idle => Alerts!TypeOK /\ Alerts!OutageIsRemembered
    /\ meta # Idle => Credit!TypeOK /\ Credit!NoDebtLost
=============================================================================
