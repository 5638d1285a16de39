-------------------------- MODULE VlessSubscription ---------------------------
(***************************************************************************)
(* A VLESS subscription: its devices (DeviceSlots), its credential on the  *)
(* nodes (VlessSync) and the bytes the nodes count for it (VlessTraffic).  *)
(* The three share no column that one of them changes and another decides  *)
(* from, except that a new uuid has new counters, which is an event of     *)
(* VlessTraffic.                                                           *)
(***************************************************************************)
EXTENDS DeviceSlots

CONSTANTS
    Nodes, Metered,     \* the nodes that serve the uuid; those that are asked for traffic
    None,               \* no snapshot
    Quota,              \* TRAFFIC_QUOTA_BYTES
    Kinds, MaxUuid, MaxVersion, MaxTasks, MaxEvents,
    MaxServed, MaxMonth, MaxFaults

VARIABLES
    vless, user, node, events,
    fresh, epoch, booted, lock, edit, other, tasks, known, stale,
    sums, job, month, alerted, sending, served, broke, told, crashes

Sync == INSTANCE VlessSync WITH row <- vless
Traffic == INSTANCE VlessTraffic WITH Nodes <- Metered, MaxEvents <- MaxFaults, row <- vless

-----------------------------------------------------------------------------
\* Every credential that a device was given and a node still serves is the row's
\* own or waits in its list of revocations, and the row's own is never in that
\* list (VlessSync).
CredentialsKept == known # Idle => Sync!TypeOK /\ Sync!CredentialsKept

\* The bytes of a user are those the nodes counted, none twice and none lost
\* while the credential stays, and the quota alert of a month goes out once
\* (VlessTraffic).
TrafficExact ==
    sums # Idle =>
      Traffic!TypeOK /\ Traffic!NeverOvercounted /\ Traffic!NothingLost /\ Traffic!ToldOnce
=============================================================================
